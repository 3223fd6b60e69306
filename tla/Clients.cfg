\* The test program with two slots, a C program and a Tcl script.
SPECIFICATION FairSpec
CONSTANTS
  Clients = {"test", "prog", "script", "serv", "init"}
  Parties <- MCParties
  Tester = "test"
  Programs = {"prog"}
  Scripts = {"script"}
  Servs = {"serv"}
  Initer = "init"
  ExecRqsts = {"go"}
  CntrlRqsts = {"get"}
  InitRqst = "go"
  Errors = {"BUSY"}
  OsErrors = {"EPIPE"}
  NbSlots = 2
  None = "none"
  Getter <- MCGetter
  WaitFinals = {TRUE, FALSE}
  MaxSent = 3
INVARIANTS SlotsAgree FetchIsOver ReportIsTheModules InitIsTrue SuspendedByLeaver
PROPERTY MenuComesBack
CHECK_DEADLOCK FALSE
