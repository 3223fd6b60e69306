----------------------------- MODULE GenomClaims -----------------------------
(***************************************************************************)
(* What the user guide and the comments of the code say of a module and    *)
(* the code does not do: TLC refutes each formula below.                   *)
(***************************************************************************)
EXTENDS GenomModule

\* genom-codels.tex:697 "a termination state (END, FAIL or INTER) is never
\* interrupted".  AbortActivity (cntrlTask.c:503) interrupts an activity in END
\* whose codel asked to be called again.
TerminationNotInterrupted ==
  [][\A i \in Slots : act[i].status \in {"END", "FAIL"}
                        => act'[i].status # "INTER"]_vars

\* genom-codels.tex:664 "The module is then frozen": while an activity is ZOMBIE
\* no other is launched.  SpawnActivities launches the waiting ones.
FrozenModuleLaunchesNothing ==
  [][Zombie # {} =>
       \A i \in Slots : Waiting(act[i]) => act'[i].evn # "START"]_vars

\* genom-syntax.tex:99 "No execution request can be treated until this request
\* has been called and has returned success".  The report of an interrupted init
\* request is still OK when CntrlIntEvnExec looks at it.
InitSucceededFirst ==
  InitRqst # NoRqst /\ initRqst = NoRqst =>
    \E r \in RqstIds : \E n \in DOMAIN replies[r] : replies[r][n] = "OK"

\* cntrlTask.c:901 "Wait end", and 905 "task %s killed": the control task exits
\* once the execution tasks have ended.  A task past its STOP_MODULE_FLAG test
\* clears the flags of all.
ExitsAfterTasks ==
  cntrlPc = "exited" => \A t \in Tasks : exec[t].pc = "dead"

\* modules.h:74, the number that "unblocks the suspended execution tasks": when
\* it was served, a task left suspended would still be in error.  A task between
\* giving the SDIs and taskSuspend is missed, and its error forgotten.
SuspendedIsInError ==
  \A t \in suspended : stopModule \/ ~taskStatus[t]

\* modules.h:112 "current incompatible activities": a waiting activity has only
\* incompatible activities in its list.  The list names slots, which are reused.
WaitsForIncompatible ==
  \A i \in Slots : Waiting(act[i]) =>
    \A j \in act[i].incomp : \/ act[j].status \in {"ETHER", "ZOMBIE"}
                             \/ act[j].type \in Incompatible[act[i].type]

\* genom-codels.tex:674 "SLEEP suspends an activity, and waits for an external
\* event to occur (...). Then it returns to the EXEC state".  An event is lost
\* if the execution task takes it before the control task has seen the SLEEP.
EventEndsSleep ==
  \A i \in Slots, t \in Tasks :
    act[i].task = t /\ act[i].evn = "SLEEP" /\ signal[t]
      ~> act[i].evn \in {"EXEC", "INTER"}

\* genom-using.tex:87 "-66 will resume suspended tasks": it is -88 that does.
MinusSixtySixResumes ==
  [][\A r \in RqstIds : RqstAbortOther(-66, r) => suspended' = {}]_vars

\* genom-using.tex:98 "-99: Terminate the program AND the module": the module
\* exits.  A task that suspends itself after the End request never does.
StoppedModuleExits == stopModule ~> cntrlPc = "exited"

\* genom-codels.tex:686, the table of the possible transitions.
DocumentedTable ==
  [START |-> {"START", "EXEC", "SLEEP", "END", "ETHER", "FAIL", "ZOMBIE"},
   EXEC  |-> {"EXEC", "SLEEP", "END", "ETHER", "FAIL", "ZOMBIE"},
   END   |-> {"END", "ETHER", "FAIL", "ZOMBIE"},
   INTER |-> {"ETHER", "FAIL", "ZOMBIE"},
   FAIL  |-> {"FAIL", "ZOMBIE"}]

\* A codel that returns a transition of the table does not suspend its task.
TableIsAccepted ==
  [][\A t \in Tasks :
       exec[t].pc \in {"codel", "relock"} /\ exec'[t].pc = "loop"
         /\ t \in suspending' \ suspending
       => act'[exec[t].i].evn \notin DocumentedTable[act[exec[t].i].status]]_vars
=============================================================================
