SPECIFICATION FairSpec
CONSTANTS
  Tasks = {"motion", "servo"}
  Periodic = {"servo"}
  MaxActivities = 2
  ExecRqsts = {"goto", "track"}
  CntrlRqsts = {"stop"}
  TaskOf <- OnBoth
  Incompatible <- Exclusive
  InitRqst = "none"
  NoRqst = "none"
  NoTask = "notask"
  Cntrl = "cntrl"
  JunkIds = {0}
  MaxRqst = 2
  Controlled = {}
  AbortArgs = {0}
  SigTerm = FALSE
  CodelResults <- TrackGoesOn
  CodelBilans = {"OK"}
  CodelWakeUps <- NoWakeUps
  UnlockRqsts = {"goto"}
  PermanentTasks = {}
CHECK_DEADLOCK FALSE
PROPERTIES EveryRequestAnswered InterruptedEnds
