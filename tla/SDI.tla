-------------------------------- MODULE SDI --------------------------------
(***************************************************************************)
(* The state a GenoM module's tasks share: the control data structure      *)
(* SDI_C (the activity table, the execution task descriptors, the control  *)
(* task descriptor of modules.h), the lock that protects it, the h2evn     *)
(* events that wake the tasks, the request mailbox and the replies.        *)
(* CntrlTask and ExecTask give the two kinds of task that act on it.       *)
(***************************************************************************)
EXTENDS Integers, FiniteSets, Sequences

CONSTANTS
  Tasks,          \* the execution tasks
  Periodic,       \* those with a non-null EXEC_TASK_PERIOD
  MaxActivities,  \* MAX_ACTIVITIES, the size of the activity table
  ExecRqsts,      \* execution request types (the init request included)
  CntrlRqsts,     \* control request types
  TaskOf,         \* the execution task of each execution request type
  Incompatible,   \* request type -> execution types its table marks with 0
  InitRqst,       \* the init request type, or NoRqst
  NoRqst,         \* -1 of INIT_RQST
  NoTask,         \* -1 of ACTIVITY_TASK_NUM
  Cntrl,          \* the control task, as an h2evn destination
  JunkIds,        \* what ACTIVITY_ID holds in a slot never used
  MaxRqst         \* bound: number of requests the clients send

Slots   == 0 .. MaxActivities - 1
RqstIds == 1 .. MaxRqst

\* What codels may answer, and what the states of an activity are.
CodelStates == {"START", "EXEC", "END", "FAIL", "INTER"}
States == CodelStates \cup {"ETHER", "INIT", "ZOMBIE", "SLEEP"}
Events == States \cup {"NO_EVENT"}

Bilans == {"OK", "REPORT", "ERRNO"}   \* OK, a report of the module, another errno
Refusals == {"SYSTEM_ERROR", "WAIT_INIT_RQST", "WAIT_ABORT_ZOMBIE",
             "TOO_MANY_ACTIVITIES", "CONTROL_CODEL_ERROR", "UNKNOWN_ACTIVITY",
             "ALREADY_ENDED"}
Finals == {"OK", "REPORT", "INTERRUPTED", "FAILED", "FORBIDDEN_TRANSITION"}
            \cup Refusals
Replies == Finals \cup {"INTERMED"}

ASSUME ConstantsAssumption ==
  /\ Periodic \subseteq Tasks
  /\ MaxActivities \in Nat \ {0}
  /\ MaxRqst \in Nat
  /\ ExecRqsts \cap CntrlRqsts = {}
  /\ TaskOf \in [ExecRqsts -> Tasks]
  /\ Incompatible \in [ExecRqsts \cup CntrlRqsts -> SUBSET ExecRqsts]
  /\ NoRqst \notin ExecRqsts \cup CntrlRqsts
  /\ InitRqst \in ExecRqsts \cup {NoRqst}
  /\ InitRqst \in ExecRqsts => Incompatible[InitRqst] = ExecRqsts
  /\ NoTask \notin Tasks
  /\ Cntrl \notin Tasks
  /\ JunkIds \subseteq Int /\ JunkIds # {}

VARIABLES
  act,          \* activityTab: one description per slot
  nbActivities, \* NB_ACTIVITIES
  taskNbActi,   \* EXEC_TASK_NB_ACTI
  taskStatus,   \* EXEC_TASK_STATUS: TRUE is OK, FALSE is ERROR
  suspending,   \* the execution tasks about to call taskSuspend
  suspended,    \* those it stopped, which taskResume restarts
  wakeUp,       \* EXEC_TASK_WAKE_UP_FLAG
  stopModule,   \* STOP_MODULE_FLAG
  initRqst,     \* INIT_RQST
  sdiFree,      \* both commonStruct semaphores are free
  signal,       \* a pending h2evn event, per task
  nbSent,       \* letters the clients put in the request mailbox
  nbRcvd,       \* letters the control task took out of it
  replies       \* per letter, the replies sent so far

halts   == <<suspending, suspended>>
sdiVars == <<act, nbActivities, taskNbActi, taskStatus, halts, wakeUp, stopModule,
             initRqst, sdiFree, signal, nbSent, nbRcvd, replies>>

Activity == [status : States, evn : Events, type : ExecRqsts \cup {NoRqst},
             rqst : 0 .. MaxRqst, id : Int, bilan : Bilans,
             task : Tasks \cup {NoTask}, incomp : SUBSET Slots]

-----------------------------------------------------------------------------
Live   == {i \in Slots : act[i].status # "ETHER"}
Zombie == {i \in Slots : act[i].status = "ZOMBIE"}

\* The activity waits in INIT, not launched yet.
Waiting(a) == a.status = "INIT" /\ a.evn = "NO_EVENT"

\* commonStructTake and commonStructGive of SDI_C then SDI_F: every task takes
\* the two in that order and gives them together, so one lock stands for both.
TakeSDIs == sdiFree /\ sdiFree' = FALSE
GiveSDIs == sdiFree' = TRUE

\* h2evnSignal of every task of S: h2evnSusp returns once per pending event.
Signalled(S) == [p \in DOMAIN signal |-> signal[p] \/ p \in S]

\* Mutant: the test of EXEC_TASK_PERIOD is inverted.
PeriodicOnly(S) == S \cap Periodic

Aperiodic(S) == {t \in S : t \notin Periodic}

\* csServReplySend of each letter of R: [rqst, reply] records, one per rqst.
Replied(R) ==
  [r \in RqstIds |->
     IF \E m \in R : m.rqst = r
     THEN Append(replies[r], (CHOOSE m \in R : m.rqst = r).reply)
     ELSE replies[r]]

InitSDI ==
  /\ act \in [Slots -> {[status |-> "ETHER", evn |-> "NO_EVENT",
                         type |-> NoRqst, rqst |-> 0, id |-> n, bilan |-> "OK",
                         task |-> NoTask, incomp |-> {}] : n \in JunkIds}]
  /\ nbActivities = 0
  /\ taskNbActi = [t \in Tasks |-> 0]
  /\ taskStatus = [t \in Tasks |-> TRUE]
  /\ suspending = {}
  /\ suspended = {}
  /\ wakeUp = [t \in Tasks |-> FALSE]
  /\ stopModule = FALSE
  /\ initRqst = InitRqst
  /\ sdiFree = TRUE
  /\ signal = [p \in Tasks \cup {Cntrl} |-> p = Cntrl]
  /\ nbSent = 0
  /\ nbRcvd = 0
  /\ replies = [r \in RqstIds |-> <<>>]

TypeSDI ==
  /\ act \in [Slots -> Activity]
  /\ nbActivities \in Int
  /\ taskNbActi \in [Tasks -> Int]
  /\ taskStatus \in [Tasks -> BOOLEAN]
  /\ suspending \subseteq Tasks
  /\ suspended \subseteq Tasks
  /\ wakeUp \in [Tasks -> BOOLEAN]
  /\ stopModule \in BOOLEAN
  /\ initRqst \in ExecRqsts \cup {NoRqst}
  /\ sdiFree \in BOOLEAN
  /\ signal \in [Tasks \cup {Cntrl} -> BOOLEAN]
  /\ nbSent \in 0 .. MaxRqst
  /\ nbRcvd \in 0 .. nbSent
  /\ replies \in [RqstIds -> Seq(Replies)]
=============================================================================
