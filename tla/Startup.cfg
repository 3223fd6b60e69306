\* Two starts of a module with two execution tasks, and killmodule, each when
\* the one before is over; both starts may go together.
SPECIFICATION FairSpec
CONSTANTS
  Procs = {"p1", "p2"}
  NbTask = 2
  Careful = TRUE
INVARIANTS ReadyMeansUp  StartSignalled
PROPERTIES StartSettles StarterReturns KillCures
CHECK_DEADLOCK FALSE
