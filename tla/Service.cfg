SPECIFICATION Spec
CONSTANTS
  Tasks = {"motion"}
  Periodic = {}
  MaxActivities = 2
  ExecRqsts = {"goto", "track", "setup"}
  CntrlRqsts = {"stop"}
  TaskOf <- OnMotionSetup
  Incompatible <- ExclusiveSetup
  InitRqst = "setup"
  NoRqst = "none"
  NoTask = "notask"
  Cntrl = "cntrl"
  JunkIds = {0, 1}
  MaxRqst = 3
  Controlled = {"stop"}
  AbortArgs <- EndAborts
  SigTerm = TRUE
  CodelResults <- Regular
  CodelBilans = {"OK", "REPORT"}
  CodelWakeUps <- NoWakeUps
  UnlockRqsts = {}
  PermanentTasks = {}
CHECK_DEADLOCK FALSE
INVARIANTS InitRqstAlone EndLeavesNothing
PROPERTY ImplementsService
