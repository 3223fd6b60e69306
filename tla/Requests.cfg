SPECIFICATION Spec
CONSTANTS
  Tasks = {"motion", "servo"}
  Periodic = {"servo"}
  MaxActivities = 2
  ExecRqsts = {"goto", "track"}
  CntrlRqsts = {"stop"}
  TaskOf <- OnBoth
  Incompatible <- Exclusive
  InitRqst = "none"
  NoRqst = "none"
  NoTask = "notask"
  Cntrl = "cntrl"
  JunkIds = {0}
  MaxRqst = 3
  Controlled = {}
  AbortArgs = {0, 1}
  SigTerm = FALSE
  CodelResults <- RegularOrNone
  CodelBilans = {"OK"}
  CodelWakeUps <- NoWakeUps
  UnlockRqsts = {"track"}
  PermanentTasks = {}
CHECK_DEADLOCK FALSE
INVARIANTS TypeOK CountersExact ReplyProtocol IdDesignatesActivity NoIncompatibleRun NoCircularWait NoLostWakeUp MutualExclusion
PROPERTY LegalTransitions
