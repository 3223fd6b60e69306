------------------------------ MODULE CntrlTask ------------------------------
(***************************************************************************)
(* The control task of a module (canvas/server/cntrlTask.c) and the        *)
(* request handlers it runs (requestExec.c, requestCntrl.c).  One cycle:   *)
(* wake up, take the SDIs, process the events the execution tasks left in  *)
(* the activity table, serve the requests of the mailbox, launch the       *)
(* activities that may start, give the SDIs back.                          *)
(***************************************************************************)
EXTENDS SDI

CONSTANTS
  Controlled,  \* request types whose control codel may refuse
  AbortArgs,   \* the activity numbers clients give to the Abort request
  SigTerm      \* bound: whether a SIGTERM may be sent

GENOM_END_MODULE       == -99
GENOM_RESUME_EXEC_TASK == -88
GENOM_FLAG_RQSTS       == {-77, -66}  \* print time, verbose level

ASSUME CntrlAssumption ==
  /\ Controlled \subseteq ExecRqsts \cup CntrlRqsts
  /\ AbortArgs \subseteq Int
  /\ SigTerm \in BOOLEAN

VARIABLES
  cntrlPc,       \* where the control task is in its loop
  nbZombie,      \* NbZombie
  lastActivity,  \* LastActivityNum
  lastId,        \* LastAbsolutActivityNum
  signalAbort,   \* SignalAbort, set by the SIGTERM handler
  endRqst,       \* the End request to answer before exiting, 0 for a SIGTERM
  awaited        \* the tasks whose end the control task still waits for

endVars   == <<signalAbort, endRqst, awaited>>
cntrlVars == <<cntrlPc, nbZombie, lastActivity, lastId, endVars>>

InitCntrl ==
  /\ cntrlPc = "susp"
  /\ nbZombie = 0
  /\ lastActivity = -1
  /\ lastId = -1
  /\ signalAbort = FALSE
  /\ endRqst = 0
  /\ awaited = {}

TypeCntrl ==
  /\ cntrlPc \in {"susp", "take", "ext", "rqst", "ending", "endsusp", "exited"}
  /\ nbZombie \in Int
  /\ lastActivity \in Slots \cup {-1}
  /\ lastId \in Int
  /\ signalAbort \in BOOLEAN
  /\ endRqst \in 0 .. MaxRqst
  /\ awaited \subseteq Tasks

-----------------------------------------------------------------------------
(* Helpers: what the handlers do to activities *)

\* SendFinalReply: the report follows the last event, then the last state.
\* No caller has event START outside of INIT, where the code sets no report.
FinalReply(a) ==
  CASE a.evn = "ETHER" /\ a.status \in {"INIT", "INTER"} -> "INTERRUPTED"
    [] a.evn = "ETHER" /\ a.status \notin {"INIT", "INTER"} ->
         IF a.bilan = "ERRNO" THEN "SYSTEM_ERROR" ELSE a.bilan
    [] a.evn = "START" /\ a.status = "INIT" -> "INTERRUPTED"
    [] a.evn = "ZOMBIE" -> "FAILED"
    [] a.evn = "NO_EVENT" -> "INTERRUPTED"
    [] OTHER -> "FORBIDDEN_TRANSITION"

FinalReplies(S) == {[rqst |-> act[i].rqst, reply |-> FinalReply(act[i])] : i \in S}

\* freeActivity of one description.
Freed(a) == [a EXCEPT !.status = "ETHER", !.evn = "NO_EVENT", !.task = NoTask]

\* Mutant: EXEC_TASK_NB_ACTI is not decremented.
FreeTotalOnly(S) ==
  /\ nbActivities' = nbActivities - Cardinality(S)
  /\ UNCHANGED taskNbActi

\* The counters once the activities of S are freed.
FreeCounters(S) ==
  /\ nbActivities' = nbActivities - Cardinality(S)
  /\ taskNbActi' = [t \in Tasks |->
       taskNbActi[t] - Cardinality({i \in S : act[i].task = t})]

\* Mutant: an activity in INIT is not over, it is waited for.
ZombieOrEther(a) ==
  \/ a.status = "ZOMBIE"
  \/ a.status \in CodelStates /\ a.evn = "ETHER"

\* AbortActivity answers TRUE: the activity is over and freed.
AbortEnds(a) ==
  \/ a.status \in {"ZOMBIE", "INIT"}
  \/ a.status \in CodelStates /\ a.evn = "ETHER"

\* AbortActivity answers FALSE and requires the INTER transition.
AbortInterrupts(a) ==
  \/ a.status = "SLEEP"
  \/ a.status \in CodelStates /\ a.evn \notin {"ETHER", "FAIL", "INTER"}

Ended(S)       == {i \in S : AbortEnds(act[i])}
Interrupted(S) == {i \in S : AbortInterrupts(act[i])}

\* The table after AbortActivity of every slot of S.
AbortTable(S) ==
  [i \in Slots |-> IF i \in Ended(S) THEN Freed(act[i])
                   ELSE IF i \in Interrupted(S) THEN [act[i] EXCEPT !.evn = "INTER"]
                   ELSE act[i]]

\* Mutant: a ZOMBIE activity is answered again when it is freed.
AllEndedReplies(S) == FinalReplies(Ended(S))

\* The replies it sends: none for an activity that is already ZOMBIE.
AbortReplies(S) == FinalReplies(Ended(S) \ Zombie)

\* Mutant: the execution task is not woken up to interrupt its activity.
NoAbortSignals(S) == {}

\* The execution tasks it wakes up.
AbortSignals(S) == Aperiodic({act[i].task : i \in Interrupted(S)})

\* Live activities the request type x interrupts.
Targets(x) == {i \in Live : act[i].type \in Incompatible[x]}

-----------------------------------------------------------------------------
(* The loop of the task *)

\* h2evnSusp returns.
CntrlWakeUp ==
  /\ cntrlPc = "susp"
  /\ signal[Cntrl]
  /\ cntrlPc' = "take"
  /\ signal' = [signal EXCEPT ![Cntrl] = FALSE]
  /\ UNCHANGED <<act, nbActivities, taskNbActi, taskStatus, halts, wakeUp,
                 stopModule, initRqst, sdiFree, nbSent, nbRcvd, replies,
                 nbZombie, lastActivity, lastId, endVars>>

\* CntrlIntEvnExec: end, freeze or put to sleep the activities whose execution
\* task asks for it.  The init request is done when it ends with report OK, a
\* report that SendFinalReply overwrites only afterwards.
CntrlIntEvnExec ==
  LET over   == {i \in Slots : act[i].evn = "ETHER"}
      failed == {i \in Slots : act[i].evn = "ZOMBIE"}
      asleep == {i \in Slots : act[i].evn = "SLEEP"}
      done(i) == initRqst # NoRqst /\ act[i].type = initRqst /\ act[i].bilan = "OK"
  IN
  /\ cntrlPc = "take"
  /\ TakeSDIs
  /\ ~signalAbort
  /\ cntrlPc' = "ext"
  /\ initRqst' = IF \E i \in over : done(i) THEN NoRqst ELSE initRqst
  /\ replies' = Replied(FinalReplies(over \cup failed))
  /\ act' = [i \in Slots |->
       IF i \in over THEN Freed(act[i])
       ELSE IF i \in failed \cup asleep
            THEN [act[i] EXCEPT !.status = act[i].evn, !.evn = "NO_EVENT"]
            ELSE act[i]]
  /\ FreeCounters(over)
  /\ nbZombie' = nbZombie + Cardinality(failed) - Cardinality(over \cap Zombie)
  /\ UNCHANGED <<taskStatus, halts, wakeUp, stopModule, signal, nbSent,
                 nbRcvd, lastActivity, lastId, endVars>>

\* End of the cycle.  CntrlExtEvnExec wakes the aperiodic execution tasks if it
\* served a request; SpawnActivities forgets the incompatible activities that
\* are over, launches the activities that wait for none and sends their
\* intermediate reply; then the SDIs are given.
SpawnActivities ==
  LET over(j) == act[j].status \in {"ETHER", "ZOMBIE"}
      ready   == {i \in Slots : Waiting(act[i]) /\ \A j \in act[i].incomp : over(j)}
      served  == IF cntrlPc = "rqst" THEN Tasks ELSE {}
  IN
  /\ \/ cntrlPc = "ext" /\ nbRcvd = nbSent
     \/ cntrlPc = "rqst" /\ nbRcvd = nbSent
  /\ cntrlPc' = "susp"
  /\ act' = [i \in Slots |->
       IF Waiting(act[i])
       THEN [act[i] EXCEPT !.evn = IF i \in ready THEN "START" ELSE @,
                           !.incomp = {j \in @ : ~over(j)}]
       ELSE act[i]]
  /\ signal' = Signalled(Aperiodic(served \cup {act[i].task : i \in ready}))
  /\ replies' = Replied({[rqst |-> act[i].rqst, reply |-> "INTERMED"] : i \in ready})
  /\ GiveSDIs
  /\ UNCHANGED <<nbActivities, taskNbActi, taskStatus, halts, wakeUp,
                 stopModule, initRqst, nbSent, nbRcvd, nbZombie, lastActivity,
                 lastId, endVars>>

-----------------------------------------------------------------------------
(* The request handlers, called by csServRqstExec for each letter *)

\* Mutant: the mailbox status is not looked at.
ServeAnyway(r) ==
  /\ cntrlPc \in {"ext", "rqst"}
  /\ r = nbRcvd + 1
  /\ nbRcvd' = r

\* The handler of the next letter r runs.
Serve(r) ==
  /\ cntrlPc \in {"ext", "rqst"}
  /\ nbRcvd < nbSent
  /\ r = nbRcvd + 1
  /\ nbRcvd' = r

\* What no handler but those of resume and end touches.
aside == <<taskStatus, halts, wakeUp, stopModule, sdiFree>>
kept  == <<nbSent, initRqst, endVars>>

\* The handler only answers: nothing else changes.
Answer(r, b) ==
  /\ replies' = Replied({[rqst |-> r, reply |-> b]})
  /\ cntrlPc' = "rqst"
  /\ UNCHANGED <<act, nbActivities, taskNbActi, signal, nbZombie, lastActivity,
                 lastId, aside, kept>>

TasksOK == \A t \in Tasks : taskStatus[t]

\* Mutants: the init request is not waited for; ZOMBIE activities do not matter.
RefusalNoInit(x) ==
  IF x # InitRqst /\ ~TasksOK THEN "SYSTEM_ERROR"
  ELSE IF nbZombie # 0        THEN "WAIT_ABORT_ZOMBIE"
  ELSE IF Live = Slots        THEN "TOO_MANY_ACTIVITIES"
  ELSE "OK"

RefusalNoZombie(x) ==
  IF x # InitRqst /\ ~TasksOK               THEN "SYSTEM_ERROR"
  ELSE IF x # InitRqst /\ initRqst # NoRqst THEN "WAIT_INIT_RQST"
  ELSE IF Live = Slots                      THEN "TOO_MANY_ACTIVITIES"
  ELSE "OK"

\* The checks an execution request of type x goes through, in order.
Refusal(x) ==
  IF x # InitRqst /\ ~TasksOK             THEN "SYSTEM_ERROR"
  ELSE IF x # InitRqst /\ initRqst # NoRqst THEN "WAIT_INIT_RQST"
  ELSE IF nbZombie # 0                    THEN "WAIT_ABORT_ZOMBIE"
  ELSE IF Live = Slots                    THEN "TOO_MANY_ACTIVITIES"
  ELSE "OK"

\* allocActivity: the first free slot after LastActivityNum, going round.
Rank(s) == IF s > lastActivity THEN s - lastActivity
           ELSE s - lastActivity + MaxActivities

FirstFree(s) == /\ s \in Slots \ Live
                /\ \A u \in Slots \ Live : Rank(s) <= Rank(u)

\* Mutant: the incompatible activities are not recorded.
NewUnboundActivity(x, r, I) ==
  [status |-> "INIT", evn |-> "NO_EVENT", type |-> x, rqst |-> r,
   id |-> lastId + 1, bilan |-> "OK", task |-> TaskOf[x], incomp |-> {}]

NewActivity(x, r, I) ==
  [status |-> "INIT", evn |-> "NO_EVENT", type |-> x, rqst |-> r,
   id |-> lastId + 1, bilan |-> "OK", task |-> TaskOf[x], incomp |-> I]

\* The request is refused before any activity is allocated.
RqstExecRefused(x, r) ==
  /\ Serve(r)
  /\ Refusal(x) # "OK"
  /\ Answer(r, Refusal(x))

\* The control codel refuses the activity just allocated, which is freed.
RqstExecCodelError(x, r, s) ==
  /\ Serve(r)
  /\ Refusal(x) = "OK"
  /\ x \in Controlled
  /\ FirstFree(s)
  /\ act' = [act EXCEPT ![s] = Freed(NewActivity(x, r, {}))]
  /\ lastActivity' = s
  /\ lastId' = lastId + 1
  /\ replies' = Replied({[rqst |-> r, reply |-> "CONTROL_CODEL_ERROR"]})
  /\ cntrlPc' = "rqst"
  /\ UNCHANGED <<nbActivities, taskNbActi, signal, nbZombie, aside, kept>>

\* The activity is allocated, its incompatible activities are interrupted and
\* those that are not over yet are recorded in ACTIVITY_TAB_INCOMP.
RqstExec(x, r, s) ==
  LET ended == Ended(Targets(x)) IN
  /\ Serve(r)
  /\ Refusal(x) = "OK"
  /\ FirstFree(s)
  /\ act' = [AbortTable(Targets(x)) EXCEPT
               ![s] = NewActivity(x, r, Targets(x) \ ended)]
  /\ nbActivities' = nbActivities + 1 - Cardinality(ended)
  /\ taskNbActi' = [t \in Tasks |->
       taskNbActi[t] + (IF t = TaskOf[x] THEN 1 ELSE 0)
         - Cardinality({i \in ended : act[i].task = t})]
  /\ nbZombie' = nbZombie - Cardinality(ended \cap Zombie)
  /\ lastActivity' = s
  /\ lastId' = lastId + 1
  /\ replies' = Replied(AbortReplies(Targets(x)))
  /\ signal' = Signalled(AbortSignals(Targets(x)))
  /\ cntrlPc' = "rqst"
  /\ UNCHANGED <<aside, kept>>

\* What AbortActivity of the slots of S does, the handler of r answering b.
AbortAndAnswer(S, r, b) ==
  /\ act' = AbortTable(S)
  /\ FreeCounters(Ended(S))
  /\ nbZombie' = nbZombie - Cardinality(Ended(S) \cap Zombie)
  /\ replies' = Replied(AbortReplies(S) \cup {[rqst |-> r, reply |-> b]})
  /\ signal' = Signalled(AbortSignals(S))
  /\ cntrlPc' = "rqst"
  /\ UNCHANGED <<lastActivity, lastId, aside, kept>>

\* Control request: interrupt the incompatible activities, run the control
\* codel, answer with its report.
RqstCntrl(x, r, b) ==
  /\ Serve(r)
  /\ TasksOK
  /\ b = "CONTROL_CODEL_ERROR" => x \in Controlled
  /\ AbortAndAnswer(Targets(x), r, b)

RqstCntrlRefused(r) ==
  /\ Serve(r)
  /\ ~TasksOK
  /\ Answer(r, "SYSTEM_ERROR")

-----------------------------------------------------------------------------
(* RqstAbortActivity, by the number the client gives *)

\* Mutant: the table is scanned from its end.
LastHoldsId(n) ==
  {i \in Slots : act[i].id = n /\ \A j \in Slots : j > i => act[j].id # n}

\* A positive number: the first slot that holds it, if it is still live.
HoldsId(n) == {i \in Slots : act[i].id = n /\ \A j \in 0 .. i - 1 : act[j].id # n}

RqstAbortActivity(n, r) ==
  /\ Serve(r)
  /\ n \in 0 .. lastId
  /\ HoldsId(n) \cap Live # {}
  /\ AbortAndAnswer(HoldsId(n), r, "OK")

RqstAbortEnded(n, r) ==
  /\ Serve(r)
  /\ n \in 0 .. lastId
  /\ HoldsId(n) \cap Live = {}
  /\ Answer(r, "ALREADY_ENDED")

RqstAbortUnknown(n, r) ==
  /\ Serve(r)
  /\ n > lastId
  /\ Answer(r, "UNKNOWN_ACTIVITY")

\* Resume every suspended execution task and clear its error.
RqstResume(n, r) ==
  /\ Serve(r)
  /\ n = GENOM_RESUME_EXEC_TASK
  /\ suspended' = {}
  /\ UNCHANGED suspending
  /\ taskStatus' = [t \in Tasks |-> TRUE]
  /\ replies' = Replied({[rqst |-> r, reply |-> "OK"]})
  /\ cntrlPc' = "rqst"
  /\ UNCHANGED <<act, nbActivities, taskNbActi, wakeUp, stopModule, sdiFree,
                 signal, nbZombie, lastActivity, lastId, kept>>

\* The flags of the printouts, and the numbers that mean nothing.
RqstAbortOther(n, r) ==
  /\ Serve(r)
  /\ n < 0 /\ n \notin {GENOM_RESUME_EXEC_TASK, GENOM_END_MODULE}
  /\ Answer(r, IF n \in GENOM_FLAG_RQSTS THEN "OK" ELSE "UNKNOWN_ACTIVITY")

\* STOP_MODULE_FLAG is raised, the SDIs are given and every execution task is
\* resumed and woken up; the control task then waits for their WAKE_UP_FLAG.
StopTasks ==
  /\ stopModule' = TRUE
  /\ wakeUp' = [t \in Tasks |-> TRUE]
  /\ GiveSDIs
  /\ suspended' = {}
  /\ UNCHANGED suspending
  /\ signal' = Signalled(Aperiodic(Tasks))
  /\ awaited' = Tasks
  /\ cntrlPc' = "ending"
  /\ UNCHANGED <<act, nbActivities, taskNbActi, taskStatus, initRqst, nbSent,
                 replies, nbZombie, lastActivity, lastId, signalAbort>>

\* The module is asked to end: refused while there are activities.
RqstEndRefused(n, r) ==
  /\ Serve(r)
  /\ n = GENOM_END_MODULE
  /\ nbActivities # 0
  /\ Answer(r, "WAIT_ABORT_ZOMBIE")

\* Mutant: the module ends without looking at its activities.
EndWithActivities(n, r) ==
  /\ Serve(r)
  /\ n = GENOM_END_MODULE
  /\ endRqst' = r
  /\ StopTasks

RqstEndModule(n, r) ==
  /\ Serve(r)
  /\ n = GENOM_END_MODULE
  /\ nbActivities = 0
  /\ endRqst' = r
  /\ StopTasks

\* SIGTERM: the handler only raises a flag and wakes the control task up.
SignalHandler ==
  /\ SigTerm
  /\ ~signalAbort
  /\ signalAbort' = TRUE
  /\ signal' = Signalled({Cntrl})
  /\ UNCHANGED <<act, nbActivities, taskNbActi, taskStatus, halts, wakeUp,
                 stopModule, initRqst, sdiFree, nbSent, nbRcvd, replies, cntrlPc,
                 nbZombie, lastActivity, lastId, endRqst, awaited>>

\* SignalEnd, at the start of a cycle: as RqstEndModule, activities or not.
SignalEnd ==
  /\ cntrlPc = "take"
  /\ sdiFree
  /\ signalAbort
  /\ StopTasks
  /\ UNCHANGED <<nbRcvd, endRqst>>

\* The wait for the flags, one task after the other (the order is left open):
\* while the flag is up, h2evnSusp, then the flag is read again.
CntrlWaitEnd(t) ==
  /\ cntrlPc = "ending"
  /\ t \in awaited
  /\ IF wakeUp[t] THEN cntrlPc' = "endsusp" /\ UNCHANGED awaited
                  ELSE awaited' = awaited \ {t} /\ UNCHANGED cntrlPc
  /\ UNCHANGED <<sdiVars, nbZombie, lastActivity, lastId, signalAbort, endRqst>>

CntrlWakeUpEnd ==
  /\ cntrlPc = "endsusp"
  /\ signal[Cntrl]
  /\ signal' = [signal EXCEPT ![Cntrl] = FALSE]
  /\ cntrlPc' = "ending"
  /\ UNCHANGED <<act, nbActivities, taskNbActi, taskStatus, halts, wakeUp,
                 stopModule, initRqst, sdiFree, nbSent, nbRcvd, replies,
                 nbZombie, lastActivity, lastId, endVars>>

\* Every flag was seen down: the final reply is sent, mailbox, SDIs and poster
\* are deleted and the process exits.
CntrlExit ==
  /\ cntrlPc = "ending"
  /\ awaited = {}
  /\ cntrlPc' = "exited"
  /\ replies' = Replied({[rqst |-> r, reply |-> "OK"] : r \in {endRqst} \ {0}})
  /\ UNCHANGED <<act, nbActivities, taskNbActi, taskStatus, halts, wakeUp,
                 stopModule, initRqst, sdiFree, signal, nbSent, nbRcvd,
                 nbZombie, lastActivity, lastId, endVars>>

-----------------------------------------------------------------------------
CntrlRqst ==
  \E r \in RqstIds :
    \/ \E x \in ExecRqsts : \/ RqstExecRefused(x, r)
                            \/ \E s \in Slots : RqstExecCodelError(x, r, s)
                            \/ \E s \in Slots : RqstExec(x, r, s)
    \/ \E x \in CntrlRqsts : RqstCntrlRefused(r)
    \/ \E x \in CntrlRqsts, b \in {"OK", "CONTROL_CODEL_ERROR"} : RqstCntrl(x, r, b)
    \/ \E n \in AbortArgs : \/ RqstAbortActivity(n, r)
                            \/ RqstAbortEnded(n, r)
                            \/ RqstAbortUnknown(n, r)
                            \/ RqstAbortOther(n, r)
                            \/ RqstResume(n, r)
                            \/ RqstEndRefused(n, r)
                            \/ RqstEndModule(n, r)

\* What the control task does on its own, as opposed to what makes it act.
CntrlStep ==
  \/ CntrlWakeUp \/ CntrlIntEvnExec \/ CntrlRqst \/ SpawnActivities
  \/ SignalEnd \/ (\E t \in Tasks : CntrlWaitEnd(t)) \/ CntrlWakeUpEnd \/ CntrlExit
=============================================================================
