SPECIFICATION FairSpec
CONSTANTS
  far = far
  near = near
  MaxVersion = 2
  Output = 2
  Capacity = 2
  Cmd = 2
  Flags = 2
  MaxCppOpt = 5
  SameSecond = FALSE
  Patient = TRUE
  CopyFails = FALSE
  Headers = {far, near}
  Relative = {}
  Options = {"c", "i"}
  Forms = {"good", "error", "refused"}
INVARIANT UpToDateIsTrue
PROPERTIES CodelsAreKept RunEnds
CHECK_DEADLOCK FALSE
