SPECIFICATION Spec
CONSTANTS
  Tasks = {"motion", "servo"}
  Periodic = {"servo"}
  MaxActivities = 2
  ExecRqsts = {"goto", "track"}
  CntrlRqsts = {"stop"}
  TaskOf <- OnBoth
  Incompatible <- Exclusive
  InitRqst = "none"
  NoRqst = "none"
  NoTask = "notask"
  Cntrl = "cntrl"
  JunkIds = {0}
  MaxRqst = 2
  Controlled = {}
  AbortArgs <- ResumeAborts
  SigTerm = FALSE
  CodelResults <- Faulty
  CodelBilans = {"OK"}
  CodelWakeUps <- NoWakeUps
  UnlockRqsts = {}
  PermanentTasks = {}
CHECK_DEADLOCK FALSE
INVARIANT MutualExclusion
