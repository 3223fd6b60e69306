SPECIFICATION FairSpec
CONSTANTS
  Tasks = {"motion", "servo"}
  Periodic = {"servo"}
  MaxActivities = 2
  ExecRqsts = {"goto", "track"}
  CntrlRqsts = {}
  TaskOf <- OnBoth
  Incompatible <- NoControl
  InitRqst = "none"
  NoRqst = "none"
  NoTask = "notask"
  Cntrl = "cntrl"
  JunkIds = {0}
  MaxRqst = 3
  Controlled = {}
  AbortArgs = {}
  SigTerm = FALSE
  CodelResults <- TrackGoesOn
  CodelBilans = {"OK"}
  CodelWakeUps <- NoWakeUps
  UnlockRqsts = {}
  PermanentTasks = {}
CHECK_DEADLOCK FALSE
PROPERTY EveryRequestAnswered
