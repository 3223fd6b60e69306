SPECIFICATION Spec
CONSTANTS
  ExecRqsts = {"goto", "track"}
  Incompatible <- Exclusive
  MaxRqst = 4
CHECK_DEADLOCK FALSE
INVARIANTS NoConflict OneFate
