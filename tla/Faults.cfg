SPECIFICATION FairSpec
CONSTANTS
  Tasks = {"motion", "servo"}
  Periodic = {"servo"}
  MaxActivities = 2
  ExecRqsts = {"goto", "track"}
  CntrlRqsts = {"stop"}
  TaskOf <- OnBoth
  Incompatible <- Exclusive
  InitRqst = "none"
  NoRqst = "none"
  NoTask = "notask"
  Cntrl = "cntrl"
  JunkIds = {0}
  MaxRqst = 2
  Controlled = {"goto"}
  AbortArgs <- FaultAborts
  SigTerm = FALSE
  CodelResults <- Faulty
  CodelBilans = {"OK"}
  CodelWakeUps <- ServoWakeUp
  UnlockRqsts = {"goto"}
  PermanentTasks = {"motion"}
CHECK_DEADLOCK FALSE
PROPERTY EveryRequestServed
