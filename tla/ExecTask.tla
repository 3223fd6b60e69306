------------------------------- MODULE ExecTask -------------------------------
(***************************************************************************)
(* The execution tasks of a module (canvas/server/execTask.c).  One loop:  *)
(* wait for the period or an event, take the SDIs, run the codels of the   *)
(* task's activities one after the other, wake up the other tasks, give    *)
(* the SDIs back.  A codel call is two steps, before and after the user's  *)
(* code, because the user's code may give the SDIs (GENOM_UNLOCK_SDI) and  *)
(* because a task that is resumed after a suspension runs without them.    *)
(***************************************************************************)
EXTENDS SDI

CONSTANTS
  CodelResults,    \* request type, state -> the events its codels may return
  CodelBilans,     \* the reports codels may leave
  CodelWakeUps,    \* the sets of tasks a codel may flag with WAKE_UP_EXEC_TASK
  UnlockRqsts,     \* request types whose codels call GENOM_UNLOCK_SDI
  PermanentTasks   \* tasks with permanent codels, which may fail

ASSUME ExecAssumption ==
  /\ CodelResults \in [ExecRqsts -> [CodelStates -> SUBSET Events]]
  /\ CodelBilans \subseteq Bilans
  /\ CodelWakeUps \subseteq SUBSET Tasks
  /\ UnlockRqsts \subseteq ExecRqsts
  /\ PermanentTasks \subseteq Tasks

VARIABLE exec  \* per task: where it is in its loop, and the loop's variables

Idle == [pc |-> "wait", i |-> 0, nb |-> 0, nbActi |-> 0, wakeUpCntrl |-> FALSE]

InitExec == exec = [t \in Tasks |-> Idle]

TypeExec ==
  exec \in [Tasks -> [pc : {"wait", "take", "begin", "loop", "codel", "unlocked",
                            "relock", "end", "dead"},
                      i : 0 .. MaxActivities, nb : Int, nbActi : Int,
                      wakeUpCntrl : BOOLEAN]]

At(t, pc) == exec[t].pc = pc /\ t \notin suspending \cup suspended

Goto(t, pc) == exec' = [exec EXCEPT ![t].pc = pc]

-----------------------------------------------------------------------------
(* The transition table of filterAndSendEvn *)

Allowed == [START |-> {"EXEC", "END", "FAIL", "ETHER", "ZOMBIE", "SLEEP", "START"},
            EXEC  |-> {"EXEC", "END", "FAIL", "ETHER", "ZOMBIE", "SLEEP"},
            END   |-> {"ZOMBIE", "ETHER", "END", "FAIL"},
            FAIL  |-> {"ZOMBIE"},
            INTER |-> {"ZOMBIE", "ETHER", "FAIL", "INTER"}]

\* Mutants: the SDIs are kept (giveFlag = FALSE); the control task is not woken.
SuspendKeepingSDIs(t) ==
  /\ taskStatus' = [taskStatus EXCEPT ![t] = FALSE]
  /\ signal' = Signalled({Cntrl})
  /\ suspending' = suspending \cup {t}
  /\ UNCHANGED suspended
  /\ sdiFree' = FALSE

SuspendSilently(t) ==
  /\ taskStatus' = [taskStatus EXCEPT ![t] = FALSE]
  /\ suspending' = suspending \cup {t}
  /\ UNCHANGED <<signal, suspended>>
  /\ GiveSDIs

\* Suspend(giveFlag = TRUE): the error is recorded, the control task woken up
\* and the SDIs given; then, as a step of its own, taskSuspend stops the task.
Suspend(t) ==
  /\ taskStatus' = [taskStatus EXCEPT ![t] = FALSE]
  /\ signal' = Signalled({Cntrl})
  /\ suspending' = suspending \cup {t}
  /\ UNCHANGED suspended
  /\ GiveSDIs

\* The slot the scan of the activity table stops at, from slot n on.
NextSlot(t, n, i) == /\ i \in Slots /\ i >= n
                     /\ act[i].task = t
                     /\ \A j \in n .. i - 1 : act[j].task # t

\* The scan is over: enough activities seen, or none left in the table.
ScanOver(t) == \/ exec[t].nb >= exec[t].nbActi
               \/ \A j \in Slots : j >= exec[t].i => act[j].task # t

\* Mutant: a sleeping activity starts again.
EventOfRestart(i) == IF act[i].status = "SLEEP" /\ act[i].evn = "NO_EVENT"
                     THEN "START" ELSE act[i].evn

\* Mutant: a sleeping activity goes on whatever its event.
EventOfSleeper(i) == IF act[i].status = "SLEEP" THEN "EXEC" ELSE act[i].evn

\* The event the scan finds on slot i: a sleeping activity goes back to EXEC.
EventOf(i) == IF act[i].status = "SLEEP" /\ act[i].evn = "NO_EVENT"
              THEN "EXEC" ELSE act[i].evn
-----------------------------------------------------------------------------
ExecSuspend(t) ==
  /\ t \in suspending
  /\ suspending' = suspending \ {t}
  /\ suspended' = suspended \cup {t}
  /\ UNCHANGED <<act, nbActivities, taskNbActi, taskStatus, wakeUp, stopModule,
                 initRqst, sdiFree, signal, nbSent, nbRcvd, replies, exec>>

\* The wait returns: the period of a periodic task, an event for another.
ExecWakeUp(t) ==
  /\ At(t, "wait")
  /\ ~stopModule
  /\ t \in Periodic \/ signal[t]
  /\ Goto(t, "take")
  /\ signal' = IF t \in Periodic THEN signal ELSE [signal EXCEPT ![t] = FALSE]
  /\ UNCHANGED <<act, nbActivities, taskNbActi, taskStatus, halts, wakeUp,
                 stopModule, initRqst, sdiFree, nbSent, nbRcvd, replies>>

\* The wait returns and STOP_MODULE_FLAG is up: the end codel runs, posters and
\* mailboxes are deleted, the control task is told and the task ends.  The
\* SDIs are not taken.
ExecStop(t) ==
  /\ At(t, "wait")
  /\ stopModule
  /\ t \in Periodic \/ signal[t]
  /\ Goto(t, "dead")
  /\ wakeUp' = [wakeUp EXCEPT ![t] = FALSE]
  /\ signal' = Signalled({Cntrl})
  /\ UNCHANGED <<act, nbActivities, taskNbActi, taskStatus, halts,
                 stopModule, initRqst, sdiFree, nbSent, nbRcvd, replies>>

\* The SDIs are taken, the first permanent codel succeeds and the number of
\* activities is read.
ExecTake(t) ==
  /\ At(t, "take")
  /\ TakeSDIs
  /\ exec' = [exec EXCEPT ![t] = [Idle EXCEPT !.pc = "loop", !.nbActi = taskNbActi[t]]]
  /\ UNCHANGED <<act, nbActivities, taskNbActi, taskStatus, halts, wakeUp,
                 stopModule, initRqst, signal, nbSent, nbRcvd, replies>>

\* The first permanent codel fails: the SDIs are given as soon as taken.
ExecTakeError(t) ==
  /\ At(t, "take")
  /\ sdiFree
  /\ t \in PermanentTasks
  /\ Suspend(t)
  /\ Goto(t, "begin")
  /\ UNCHANGED <<act, nbActivities, taskNbActi, wakeUp, stopModule, initRqst,
                 nbSent, nbRcvd, replies>>

\* Resumed from there, the task goes on, without the SDIs.
ExecBegin(t) ==
  /\ At(t, "begin")
  /\ exec' = [exec EXCEPT ![t] = [Idle EXCEPT !.pc = "loop", !.nbActi = taskNbActi[t]]]
  /\ UNCHANGED sdiVars

\* An activity with nothing to run: NO_EVENT, or an event for the control task.
ExecSkip(t, i) ==
  /\ At(t, "loop")
  /\ ~ScanOver(t)
  /\ NextSlot(t, exec[t].i, i)
  /\ EventOf(i) \notin CodelStates
  /\ exec' = [exec EXCEPT ![t].i = i + 1, ![t].nb = @ + 1]
  /\ UNCHANGED sdiVars

\* The event becomes the state and its codel is called.
ExecCallUserFunc(t, i) ==
  /\ At(t, "loop")
  /\ ~ScanOver(t)
  /\ NextSlot(t, exec[t].i, i)
  /\ EventOf(i) \in CodelStates
  /\ act' = [act EXCEPT ![i].status = EventOf(i), ![i].evn = EventOf(i)]
  /\ exec' = [exec EXCEPT ![t].pc = "codel", ![t].i = i, ![t].nb = @ + 1]
  /\ UNCHANGED <<nbActivities, taskNbActi, taskStatus, halts, wakeUp,
                 stopModule, initRqst, sdiFree, signal, nbSent, nbRcvd, replies>>

\* GENOM_UNLOCK_SDI, then GENOM_LOCK_SDI, called by the codel.
GenomGiveSDIs(t) ==
  /\ At(t, "codel")
  /\ act[exec[t].i].type \in UnlockRqsts
  /\ Goto(t, "unlocked")
  /\ GiveSDIs
  /\ UNCHANGED <<act, nbActivities, taskNbActi, taskStatus, halts, wakeUp,
                 stopModule, initRqst, signal, nbSent, nbRcvd, replies>>

GenomTakeSDIs(t) ==
  /\ At(t, "unlocked")
  /\ TakeSDIs
  /\ Goto(t, "relock")
  /\ UNCHANGED <<act, nbActivities, taskNbActi, taskStatus, halts, wakeUp,
                 stopModule, initRqst, signal, nbSent, nbRcvd, replies>>

\* The codel returns an allowed event e, its report b and the tasks W it wants
\* awake: the event replaces whatever the slot holds by then.
ExecCodelReturn(t, e, b, W) ==
  LET i == exec[t].i
      s == act[i].status IN
  /\ At(t, "codel") \/ At(t, "relock")
  /\ e \in CodelResults[act[i].type][s] \cap Allowed[s]
  /\ act' = [act EXCEPT ![i].evn = e, ![i].bilan = b]
  /\ wakeUp' = [p \in Tasks |-> wakeUp[p] \/ p \in W]
  /\ signal' = IF e = "SLEEP" THEN signal ELSE Signalled(Aperiodic({t}))
  /\ exec' = [exec EXCEPT ![t].pc = "loop", ![t].i = i + 1,
                          ![t].wakeUpCntrl = @ \/ e # s]
  /\ UNCHANGED <<nbActivities, taskNbActi, taskStatus, halts, stopModule,
                 initRqst, sdiFree, nbSent, nbRcvd, replies>>

\* It returns a forbidden one, which stays in the slot: the task is suspended.
ExecForbidden(t, e, b) ==
  LET i == exec[t].i
      s == act[i].status IN
  /\ At(t, "codel") \/ At(t, "relock")
  /\ e \in CodelResults[act[i].type][s] \ Allowed[s]
  /\ act' = [act EXCEPT ![i].evn = e, ![i].bilan = b]
  /\ Suspend(t)
  /\ exec' = [exec EXCEPT ![t].pc = "loop", ![t].i = i + 1]
  /\ UNCHANGED <<nbActivities, taskNbActi, wakeUp, stopModule, initRqst, nbSent,
                 nbRcvd, replies>>

\* End of the loop: the second permanent codel succeeds, the control task is
\* woken up if a state changes or if the task's report changed, then every task
\* whose WAKE_UP_FLAG is up, and the SDIs are given.
ExecEnd(t, newBilan) ==
  LET flagged == {p \in Tasks : wakeUp[p]}
      cntrl   == IF exec[t].wakeUpCntrl \/ newBilan THEN {Cntrl} ELSE {} IN
  /\ \/ At(t, "loop") /\ ScanOver(t)
     \/ At(t, "end")
  /\ newBilan => t \in PermanentTasks
  /\ signal' = Signalled(flagged \cup cntrl)
  /\ wakeUp' = [p \in Tasks |-> FALSE]
  /\ GiveSDIs
  /\ exec' = [exec EXCEPT ![t] = Idle]
  /\ UNCHANGED <<act, nbActivities, taskNbActi, taskStatus, halts,
                 stopModule, initRqst, nbSent, nbRcvd, replies>>

\* The second permanent codel fails.
ExecEndError(t) ==
  /\ At(t, "loop")
  /\ ScanOver(t)
  /\ t \in PermanentTasks
  /\ Suspend(t)
  /\ Goto(t, "end")
  /\ UNCHANGED <<act, nbActivities, taskNbActi, wakeUp, stopModule, initRqst,
                 nbSent, nbRcvd, replies>>

\* What the task does holding the SDIs, or believing it does.
ExecRun(t) ==
  \/ ExecSuspend(t)
  \/ ExecBegin(t)
  \/ \E i \in Slots : ExecSkip(t, i) \/ ExecCallUserFunc(t, i)
  \/ GenomGiveSDIs(t)
  \/ \E e \in Events, b \in CodelBilans :
       \/ \E W \in CodelWakeUps : ExecCodelReturn(t, e, b, W)
       \/ ExecForbidden(t, e, b)
  \/ \E newBilan \in BOOLEAN : ExecEnd(t, newBilan)
  \/ ExecEndError(t)

\* What it does on waking up, and where it competes for the SDIs.
ExecWait(t)  == ExecWakeUp(t) \/ ExecStop(t)
ExecEnter(t) == ExecTake(t) \/ ExecTakeError(t) \/ GenomTakeSDIs(t)

ExecStep(t) == ExecWait(t) \/ ExecEnter(t) \/ ExecRun(t)
=============================================================================
