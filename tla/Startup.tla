------------------------------- MODULE Startup -------------------------------
(***************************************************************************)
(* Starting and stopping a module (moduleInit.c, the initialisation of its *)
(* tasks in cntrlTask.c and execTask.c, the script killmodule): the main   *)
(* thread spawns the control task, then the execution tasks one by one,    *)
(* and waits for each; the pid file and the mailbox are shared by the      *)
(* processes that run the same module.                                     *)
(***************************************************************************)
EXTENDS Naturals, FiniteSets

CONSTANTS
  Procs,      \* the processes started for one instance of the module
  NbTask,     \* $MODULE$_NB_EXEC_TASK
  Careful     \* nobody talks to the module, stops it or starts another one
              \* before its start is over

ASSUME StartAssumption == NbTask \in Nat \ {0} /\ Careful \in BOOLEAN
                            /\ "none" \notin Procs /\ "empty" \notin Procs

Task == 1 .. NbTask

VARIABLES
  main,     \* where the main thread of each process is
  next,     \* the execution task it spawns or waits for
  cntrl,    \* where the control task is
  exec,     \* where each execution task is
  sdi,      \* the SDIs exist
  wakeUp,   \* EXEC_TASK_WAKE_UP_FLAG
  signal,   \* an event is pending for the execution task
  start,    \* the execution task has an activity to start
  term,     \* a request or SIGTERM asked the module to end
  parent,   \* the foreground process, when started with -b
  pipe,     \* what the child wrote for it
  pidFile,  \* "none", "empty", or the process it names
  mbox,     \* "none", or the process that owns the mailbox
  kill      \* killmodule: where it is and the process it read

procVars == <<main, next, cntrl, exec, sdi, wakeUp, signal, start, term>>
parentVars == <<parent, pipe>>
vars == <<procVars, parentVars, pidFile, mbox, kill>>

Dead == "dead"
Gone(p) == main[p] \in {Dead, "crashed"}
Alive(p) == main[p] # "idle" /\ ~Gone(p)

TypeOK ==
  /\ main \in [Procs -> {"idle", "sdi", "pid", "write", "cntrl", "waitCntrl",
                         "exec", "waitExec", "wakeCntrl", "tell", "ready",
                         "error", "deleted", "crashed", Dead}]
  /\ next \in [Procs -> 1 .. NbTask]
  /\ cntrl \in [Procs -> {"none", "init", "ok", "bad", "badGiven", "serving",
                          "suspended", "ending", "unlink", "exit", Dead}]
  /\ exec \in [Procs -> [Task -> {"none", "init", "named", "ok", "bad", "badGiven",
                                  "wait", "suspended", "ended", Dead}]]
  /\ {sdi, term} \subseteq [Procs -> BOOLEAN]
  /\ {wakeUp, signal, start} \subseteq [Procs -> [Task -> BOOLEAN]]
  /\ parent \in [Procs -> {"none", "reading", "over"}]
  /\ pipe \in [Procs -> {"", "OK", "error"}]
  /\ pidFile \in Procs \cup {"none", "empty"}
  /\ mbox \in Procs \cup {"none"}
  /\ kill \in [pc : {"idle", "probe", "poll", "int", "clean", "over"},
               pid : Procs \cup {"none"}]

Init ==
  /\ main = [p \in Procs |-> "idle"] /\ next = [p \in Procs |-> 1]
  /\ cntrl = [p \in Procs |-> "none"]
  /\ exec = [p \in Procs |-> [t \in Task |-> "none"]]
  /\ sdi = [p \in Procs |-> FALSE] /\ term = [p \in Procs |-> FALSE]
  /\ wakeUp = [p \in Procs |-> [t \in Task |-> FALSE]]
  /\ signal = wakeUp /\ start = wakeUp
  /\ parent = [p \in Procs |-> "none"] /\ pipe = [p \in Procs |-> ""]
  /\ pidFile = "none" /\ mbox = "none"
  /\ kill = [pc |-> "idle", pid |-> "none"]

-----------------------------------------------------------------------------
(* The main thread, TaskInit *)

Goes(p, from, to) == main[p] = from /\ main' = [main EXCEPT ![p] = to]

\* All the threads of a process end with it; files and devices stay.
Ends(p, how) ==
  /\ main' = [main EXCEPT ![p] = how]
  /\ cntrl' = [cntrl EXCEPT ![p] = Dead]
  /\ exec' = [exec EXCEPT ![p] = [t \in Task |-> Dead]]
  /\ sdi' = [sdi EXCEPT ![p] = FALSE]
  /\ UNCHANGED <<next, wakeUp, signal, start, term>>

Dies(p) == Ends(p, Dead)

\* Some thread uses the SDIs: the main one, that waits for a task and reads its
\* status, a control task that is not suspended yet, an execution task likewise.
SdiUsed(p) ==
  \/ main[p] \in {"waitCntrl", "waitExec"}
  \/ cntrl[p] \in {"init", "ok", "bad", "badGiven", "serving", "ending"}
  \/ \E t \in Task : exec[p][t] \in {"init", "named", "ok", "bad", "badGiven", "wait"}

Launch(p) ==
  /\ main[p] = "idle"
  /\ Careful => kill.pc \in {"idle", "over"}
  /\ main' = [main EXCEPT ![p] = "sdi"]
  /\ \E bg \in BOOLEAN :
       parent' = [parent EXCEPT ![p] = IF bg THEN "reading" ELSE "none"]
  /\ UNCHANGED <<next, cntrl, exec, sdi, wakeUp, signal, start, term, pipe,
                 pidFile, mbox, kill>>

CreateSDI(p) ==
  /\ \/ Goes(p, "sdi", "pid") /\ sdi' = [sdi EXCEPT ![p] = TRUE]
     \/ Goes(p, "sdi", "error") /\ UNCHANGED sdi
  /\ UNCHANGED <<next, cntrl, exec, wakeUp, signal, start, term, parentVars,
                 pidFile, mbox, kill>>

\* O_CREAT | O_EXCL: the file may be there already, or not be created for
\* another reason.
CreatePidFile(p) ==
  /\ \/ Goes(p, "pid", "write") /\ pidFile = "none" /\ pidFile' = "empty"
     \/ Goes(p, "pid", "error") /\ UNCHANGED pidFile
  /\ UNCHANGED <<next, cntrl, exec, sdi, wakeUp, signal, start, term,
                 parentVars, mbox, kill>>

\* fdopen may fail: the file created stays, empty. What is written to a file
\* removed meanwhile is lost.
WritePidFile(p) ==
  /\ \/ /\ Goes(p, "write", "cntrl")
        /\ pidFile' = IF pidFile = "empty" THEN p ELSE pidFile
     \/ Goes(p, "write", "error") /\ UNCHANGED pidFile
  /\ UNCHANGED <<next, cntrl, exec, sdi, wakeUp, signal, start, term,
                 parentVars, mbox, kill>>

SpawnCntrl(p) ==
  /\ \/ Goes(p, "cntrl", "waitCntrl") /\ cntrl' = [cntrl EXCEPT ![p] = "init"]
     \/ Goes(p, "cntrl", "error") /\ UNCHANGED cntrl
  /\ UNCHANGED <<next, exec, sdi, wakeUp, signal, start, term, parentVars,
                 pidFile, mbox, kill>>

\* semTake: the control task gave its status before the semaphore.
WaitCntrl(p) ==
  /\ cntrl[p] \notin {"none", "init", "ok", "bad"}
  /\ Goes(p, "waitCntrl",
          IF cntrl[p] \in {"badGiven", "suspended"} THEN "error" ELSE "exec")
  /\ UNCHANGED <<next, cntrl, exec, sdi, wakeUp, signal, start, term,
                 parentVars, pidFile, mbox, kill>>

SpawnExec(p) ==
  /\ \/ /\ Goes(p, "exec", "waitExec")
        /\ exec' = [exec EXCEPT ![p][next[p]] = "init"]
     \/ Goes(p, "exec", "error") /\ UNCHANGED exec
  /\ UNCHANGED <<next, cntrl, sdi, wakeUp, signal, start, term, parentVars,
                 pidFile, mbox, kill>>

\* The task gave its semaphore, and its status then.
ExecBad == {"badGiven", "suspended"}
ExecGave == ExecBad \cup {"wait", "ended"}

\* Mutant: the main thread goes on without waiting for the last task.
WaitExecButLast(p) ==
  /\ exec[p][next[p]] \in ExecGave \/ next[p] = NbTask
  /\ \/ Goes(p, "waitExec", "error") /\ exec[p][next[p]] \in ExecBad
                                     /\ UNCHANGED next
     \/ Goes(p, "waitExec", "exec") /\ exec[p][next[p]] \notin ExecBad
          /\ next[p] < NbTask /\ next' = [next EXCEPT ![p] = @ + 1]
     \/ Goes(p, "waitExec", "wakeCntrl") /\ exec[p][next[p]] \notin ExecBad
          /\ next[p] = NbTask /\ UNCHANGED next
  /\ UNCHANGED <<cntrl, exec, sdi, wakeUp, signal, start, term, parentVars,
                 pidFile, mbox, kill>>

\* semTake, and the status of the task: the next one is spawned, or the control
\* task woken up.
WaitExec(p) ==
  /\ exec[p][next[p]] \in ExecGave
  /\ \/ Goes(p, "waitExec", "error") /\ exec[p][next[p]] \in ExecBad
                                     /\ UNCHANGED next
     \/ Goes(p, "waitExec", "exec") /\ exec[p][next[p]] \notin ExecBad
          /\ next[p] < NbTask /\ next' = [next EXCEPT ![p] = @ + 1]
     \/ Goes(p, "waitExec", "wakeCntrl") /\ exec[p][next[p]] \notin ExecBad
          /\ next[p] = NbTask /\ UNCHANGED next
  /\ UNCHANGED <<cntrl, exec, sdi, wakeUp, signal, start, term, parentVars,
                 pidFile, mbox, kill>>

WakeCntrl(p) ==
  /\ Goes(p, "wakeCntrl", "tell")
  /\ UNCHANGED <<next, cntrl, exec, sdi, wakeUp, signal, start, term,
                 parentVars, pidFile, mbox, kill>>

\* main: the parent is told, then the thread only keeps the process alive.
Tell(p) ==
  /\ Goes(p, "tell", "ready")
  /\ pipe' = [pipe EXCEPT ![p] = "OK"]
  /\ UNCHANGED <<next, cntrl, exec, sdi, wakeUp, signal, start, term, parent,
                 pidFile, mbox, kill>>

\* Mutant: a start that fails says nothing.
TaskInitErrorQuiet(p) ==
  \/ /\ Goes(p, "error", "deleted")
     /\ sdi' = [sdi EXCEPT ![p] = FALSE]
     /\ UNCHANGED <<next, cntrl, exec, wakeUp, signal, start, term, parentVars,
                    pidFile, mbox, kill>>
  \/ /\ main[p] = "deleted"
     /\ Dies(p)
     /\ UNCHANGED <<parentVars, pidFile, mbox, kill>>

\* The error path of TaskInit deletes the SDIs, then main tells the parent and
\* exits: neither the pid file nor the devices are removed.
TaskInitError(p) ==
  \/ /\ Goes(p, "error", "deleted")
     /\ sdi' = [sdi EXCEPT ![p] = FALSE]
     /\ UNCHANGED <<next, cntrl, exec, wakeUp, signal, start, term, parentVars,
                    pidFile, mbox, kill>>
  \/ /\ main[p] = "deleted"
     /\ pipe' = [pipe EXCEPT ![p] = "error"]
     /\ Dies(p)
     /\ UNCHANGED <<parent, pidFile, mbox, kill>>

\* The tasks still run meanwhile: one that goes through the pointer just cleared
\* ends the process before it has said anything.
TaskFaults(p) ==
  /\ main[p] = "deleted" /\ SdiUsed(p)
  /\ Ends(p, "crashed")
  /\ UNCHANGED <<parentVars, pidFile, mbox, kill>>

\* The foreground process reads the pipe, whose other end it holds too: nothing
\* else than a message wakes it up.
ParentReads(p) ==
  /\ parent[p] = "reading" /\ pipe[p] # ""
  /\ parent' = [parent EXCEPT ![p] = "over"]
  /\ UNCHANGED <<procVars, pipe, pidFile, mbox, kill>>

-----------------------------------------------------------------------------
(* The control task *)

\* CntrlInitTask: the mailbox is created first; later steps may fail.
CntrlInitTask(p) ==
  /\ cntrl[p] = "init"
  /\ \/ mbox = "none" /\ mbox' = p /\ cntrl' = [cntrl EXCEPT ![p] = "ok"]
     \/ mbox = "none" /\ mbox' = p /\ cntrl' = [cntrl EXCEPT ![p] = "bad"]
     \/ UNCHANGED mbox /\ cntrl' = [cntrl EXCEPT ![p] = "bad"]
  /\ UNCHANGED <<main, next, exec, sdi, wakeUp, signal, start, term, parentVars,
                 pidFile, kill>>

\* Mutant: a control task that fails does not give the semaphore.
CntrlGivesOK(p) ==
  /\ cntrl[p] = "ok"
  /\ cntrl' = [cntrl EXCEPT ![p] = "serving"]
  /\ UNCHANGED <<main, next, exec, sdi, wakeUp, signal, start, term, parentVars,
                 pidFile, mbox, kill>>

\* semGive, then the signal handler, or the suspension.
CntrlGives(p) ==
  /\ cntrl[p] \in {"ok", "bad"}
  /\ cntrl' = [cntrl EXCEPT ![p] = IF @ = "ok" THEN "serving" ELSE "badGiven"]
  /\ UNCHANGED <<main, next, exec, sdi, wakeUp, signal, start, term, parentVars,
                 pidFile, mbox, kill>>

\* CntrlTaskSuspend(FALSE) writes the SDI_c.
CntrlTaskSuspend(p) ==
  /\ cntrl[p] = "badGiven"
  /\ cntrl' = [cntrl EXCEPT ![p] = "suspended"]
  /\ UNCHANGED <<main, next, exec, sdi, wakeUp, signal, start, term, parentVars,
                 pidFile, mbox, kill>>

\* Mutant: a request does not signal the task.
ServeExecQuiet(p, t) ==
  /\ cntrl[p] = "serving" /\ ~term[p] /\ ~start[p][t]
  /\ Careful => main[p] = "ready"
  /\ start' = [start EXCEPT ![p][t] = TRUE]
  /\ UNCHANGED <<main, next, cntrl, exec, sdi, wakeUp, signal, term, parentVars,
                 pidFile, mbox, kill>>

\* A request gives an execution task an activity, and signals the task: the
\* event is lost when the task has not recorded its identifier.
ServeExec(p, t) ==
  /\ cntrl[p] = "serving" /\ ~term[p] /\ ~start[p][t]
  /\ Careful => main[p] = "ready"
  /\ start' = [start EXCEPT ![p][t] = TRUE]
  /\ signal' = [signal EXCEPT ![p][t] = exec[p][t] \notin {"none", "init"}]
  /\ UNCHANGED <<main, next, cntrl, exec, sdi, wakeUp, term, parentVars,
                 pidFile, mbox, kill>>

\* A client sends the End request. It is refused, and the module goes on as
\* before, while it has activities: the one a task has to start, if any, and those
\* that go on, which the model does not count and for which this step does not come.
EndRequest(p) ==
  /\ cntrl[p] = "serving" /\ ~term[p]
  /\ \A t \in Task : ~start[p][t]
  /\ Careful => main[p] = "ready"
  /\ term' = [term EXCEPT ![p] = TRUE]
  /\ UNCHANGED <<main, next, cntrl, exec, sdi, wakeUp, signal, start, parentVars,
                 pidFile, mbox, kill>>

\* SignalEnd: every execution task is told.
SignalEnd(p) ==
  /\ cntrl[p] = "serving" /\ term[p]
  /\ cntrl' = [cntrl EXCEPT ![p] = "ending"]
  /\ wakeUp' = [wakeUp EXCEPT ![p] = [t \in Task |-> TRUE]]
  /\ signal' = [signal EXCEPT ![p] =
                  [t \in Task |-> @[t] \/ exec[p][t] \notin {"none", "init"}]]
  /\ UNCHANGED <<main, next, exec, sdi, start, term, parentVars, pidFile, mbox,
                 kill>>

\* Mutant: the answers of the execution tasks are not waited for.
SignalEndDeleteEarly(p) ==
  /\ cntrl[p] = "ending"
  /\ cntrl' = [cntrl EXCEPT ![p] = "unlink"]
  /\ mbox' = IF mbox = p THEN "none" ELSE mbox
  /\ sdi' = [sdi EXCEPT ![p] = FALSE]
  /\ UNCHANGED <<main, next, exec, wakeUp, signal, start, term, parentVars,
                 pidFile, kill>>

\* Once they have all answered, the mailbox and the SDIs are deleted,
SignalEndDelete(p) ==
  /\ cntrl[p] = "ending" /\ \A t \in Task : ~wakeUp[p][t]
  /\ cntrl' = [cntrl EXCEPT ![p] = "unlink"]
  /\ mbox' = IF mbox = p THEN "none" ELSE mbox
  /\ sdi' = [sdi EXCEPT ![p] = FALSE]
  /\ UNCHANGED <<main, next, exec, wakeUp, signal, start, term, parentVars,
                 pidFile, kill>>

\* and the pid file, then the process exits.
SignalEndExit(p) ==
  \/ /\ cntrl[p] = "unlink"
     /\ cntrl' = [cntrl EXCEPT ![p] = "exit"]
     /\ pidFile' = "none"
     /\ UNCHANGED <<main, next, exec, sdi, wakeUp, signal, start, term,
                    parentVars, mbox, kill>>
  \/ /\ cntrl[p] = "exit"
     /\ Dies(p)
     /\ UNCHANGED <<parentVars, pidFile, mbox, kill>>

-----------------------------------------------------------------------------
(* An execution task *)

\* InitTaskFunc records the identifier first, clears the flag later, and may
\* fail after that.
InitTaskFunc(p, t) ==
  /\ \/ /\ exec[p][t] = "init"
        /\ exec' = [exec EXCEPT ![p][t] = "named"] /\ UNCHANGED wakeUp
     \/ /\ exec[p][t] = "named"
        /\ \E r \in {"ok", "bad"} : exec' = [exec EXCEPT ![p][t] = r]
        /\ wakeUp' = [wakeUp EXCEPT ![p][t] = FALSE]
  /\ UNCHANGED <<main, next, cntrl, sdi, signal, start, term, parentVars,
                 pidFile, mbox, kill>>

\* semGive, then the loop, or the status again.
ExecGives(p, t) ==
  /\ exec[p][t] \in {"ok", "bad"}
  /\ exec' = [exec EXCEPT ![p][t] = IF @ = "ok" THEN "wait" ELSE "badGiven"]
  /\ UNCHANGED <<main, next, cntrl, sdi, wakeUp, signal, start, term, parentVars,
                 pidFile, mbox, kill>>

\* Suspend(FALSE) writes the SDI_c too.
Suspend(p, t) ==
  /\ exec[p][t] = "badGiven"
  /\ exec' = [exec EXCEPT ![p][t] = "suspended"]
  /\ UNCHANGED <<main, next, cntrl, sdi, wakeUp, signal, start, term, parentVars,
                 pidFile, mbox, kill>>

\* A turn of the loop: an activity to start is started, and ends; a task that is
\* told to end clears its flag and ends.
ExecTurn(p, t) ==
  /\ exec[p][t] = "wait" /\ signal[p][t]
  /\ signal' = [signal EXCEPT ![p][t] = FALSE]
  /\ IF wakeUp[p][t] /\ cntrl[p] = "ending"
     THEN /\ exec' = [exec EXCEPT ![p][t] = "ended"]
          /\ wakeUp' = [wakeUp EXCEPT ![p][t] = FALSE] /\ UNCHANGED start
     ELSE /\ start' = [start EXCEPT ![p][t] = FALSE] /\ UNCHANGED <<exec, wakeUp>>
  /\ UNCHANGED <<main, next, cntrl, sdi, term, parentVars, pidFile, mbox, kill>>

-----------------------------------------------------------------------------
(* killmodule *)

\* A process that has no handler yet dies of the signal.
Signal15(p) ==
  IF cntrl[p] \in {"serving", "ending", "unlink", "exit"}
  THEN /\ term' = [term EXCEPT ![p] = TRUE]
       /\ UNCHANGED <<main, next, cntrl, exec, sdi, wakeUp, signal, start>>
  ELSE Dies(p)

KillRead ==
  /\ kill.pc \in {"idle", "over"} /\ pidFile # "none"
  /\ Careful => \A p \in Procs : Alive(p) => main[p] = "ready"
  /\ kill' = IF pidFile = "empty" THEN [pc |-> "clean", pid |-> "none"]
                                  ELSE [pc |-> "probe", pid |-> pidFile]
  /\ UNCHANGED <<procVars, parentVars, pidFile, mbox>>

KillProbe ==
  /\ kill.pc = "probe"
  /\ IF Alive(kill.pid)
     THEN kill' = [kill EXCEPT !.pc = "poll"] /\ Signal15(kill.pid)
     ELSE kill' = [kill EXCEPT !.pc = "clean"] /\ UNCHANGED procVars
  /\ UNCHANGED <<parentVars, pidFile, mbox>>

\* The file is looked at every half second, for ten seconds.
KillPoll ==
  /\ kill.pc = "poll"
  /\ kill' = [kill EXCEPT !.pc = IF pidFile = "none" THEN "over" ELSE "int"]
  /\ UNCHANGED <<procVars, parentVars, pidFile, mbox>>

KillInt ==
  /\ kill.pc = "int"
  /\ kill' = [kill EXCEPT !.pc = "clean"]
  /\ IF Alive(kill.pid) THEN Dies(kill.pid) ELSE UNCHANGED procVars
  /\ UNCHANGED <<parentVars, pidFile, mbox>>

\* Mutant: the devices are removed, the file stays.
KillCleanDevices ==
  /\ kill.pc = "clean"
  /\ kill' = [kill EXCEPT !.pc = "over"]
  /\ mbox' = "none"
  /\ UNCHANGED <<procVars, parentVars, pidFile>>

\* The file and the devices of the module are removed, whoever owns them.
KillClean ==
  /\ kill.pc = "clean"
  /\ kill' = [kill EXCEPT !.pc = "over"]
  /\ pidFile' = "none" /\ mbox' = "none"
  /\ UNCHANGED <<procVars, parentVars>>

KillStep == KillProbe \/ KillPoll \/ KillInt \/ KillClean

-----------------------------------------------------------------------------
MainStep(p) ==
  \/ CreateSDI(p) \/ CreatePidFile(p) \/ WritePidFile(p) \/ SpawnCntrl(p)
  \/ WaitCntrl(p) \/ SpawnExec(p) \/ WaitExec(p) \/ WakeCntrl(p) \/ Tell(p)
  \/ TaskInitError(p)

CntrlStep(p) ==
  \/ CntrlInitTask(p) \/ CntrlGives(p) \/ CntrlTaskSuspend(p)
  \/ SignalEnd(p) \/ SignalEndDelete(p) \/ SignalEndExit(p)

ExecStep(p, t) ==
  InitTaskFunc(p, t) \/ ExecGives(p, t) \/ Suspend(p, t) \/ ExecTurn(p, t)

Next ==
  \/ \E p \in Procs :
       \/ Launch(p) \/ MainStep(p) \/ ParentReads(p)
       \/ CntrlStep(p) \/ EndRequest(p) \/ TaskFaults(p)
       \/ \E t \in Task : ExecStep(p, t) \/ ServeExec(p, t)
  \/ KillRead \/ KillStep

Spec == Init /\ [][Next]_vars

\* Threads, processes and the script run; users and clients need not.
Fairness ==
  /\ \A p \in Procs :
       /\ WF_vars(MainStep(p)) /\ WF_vars(CntrlStep(p)) /\ WF_vars(ParentReads(p))
       /\ \A t \in Task : WF_vars(ExecStep(p, t))
  /\ WF_vars(KillStep)

FairSpec == Spec /\ Fairness

-----------------------------------------------------------------------------
\* A module that says it is ready is: its control task serves, all its execution
\* tasks are initialised and running, the pid file names it and the mailbox is
\* its own, until it is asked to end.
ReadyMeansUp ==
  \A p \in Procs : main[p] = "ready" /\ cntrl[p] # Dead =>
    /\ cntrl[p] \in {"serving", "ending", "unlink", "exit"}
    /\ cntrl[p] \in {"serving", "ending"} =>
         /\ mbox = p /\ pidFile = p
         /\ \A t \in Task : exec[p][t] \in {"wait", "ended"}

\* No thread uses the SDIs of its process after they were deleted, by the control
\* task at the end of the module; a start that fails deletes them under tasks that
\* run, and ends the process (TaskFaults).
SdiAlive == \A p \in Procs : SdiUsed(p) /\ main[p] # "deleted" => sdi[p]

\* Work is not left with a task that sleeps and has no event pending.
StartSignalled ==
  \A p \in Procs, t \in Task : start[p][t] /\ exec[p][t] = "wait" => signal[p][t]

\* Every start is over in the end, as a module that is ready or a process that
\* is dead: no thread waits for ever for the semaphore of another.
StartSettles ==
  \A p \in Procs : main[p] = "sdi" ~> main[p] = "ready" \/ Gone(p)

\* The command that starts a module in the background returns in the end, unless
\* the start failed and a task of it crashed the process.
StarterReturns ==
  \A p \in Procs : parent[p] = "reading" ~> parent[p] = "over" \/ main[p] = "crashed"

\* The command returns whatever becomes of the module: "Attend le lancement du
\* module par une lecture sur le pipe" (moduleInit.c:377). It does not: it holds
\* the other end of the pipe, so that the death of the module wakes nobody up.
StarterAlwaysReturns ==
  \A p \in Procs : parent[p] = "reading" ~> parent[p] = "over"

\* A pid file left by a process that died is in the way of every start until
\* killmodule is run, and then no more.
KillCures == kill.pc \notin {"idle", "over"} ~> pidFile = "none"
=============================================================================
