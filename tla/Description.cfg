CONSTANTS
  Files <- MCFiles
  Words <- MCWords
  Base <- MCBase
  MaxNumber = 10
  Size <- MCSize
  MaxPosters = 2
  Options <- MCOptions
SPECIFICATION Spec
CHECK_DEADLOCK FALSE
INVARIANTS FreedIsWarned TablesAgree FunctionsDefined TypesDeclared
