----------------------------- MODULE GenomClients -----------------------------
(***************************************************************************)
(* The clients of a module together: the test program, programs and        *)
(* scripts, the init program, and the module they share.                   *)
(***************************************************************************)
EXTENDS TestProgram, ClientLib

\* The programs are different ones.
ASSUME ClientsAssumption == Tester \notin Callers \cup {Initer}

vars == <<csVars, testVars, libVars>>

Init == InitCs /\ InitTest /\ InitLib

TypeOK == TypeCs /\ TypeTest /\ TypeLib

Module == /\ \E i \in DOMAIN exch : ServerStep(i)
          /\ UNCHANGED <<testVars, libVars>>

Next ==
  \/ Module
  \/ TestStep /\ UNCHANGED libVars
  \/ LibStep /\ UNCHANGED testVars

Spec == Init /\ [][Next]_vars

\* The module serves its mailbox and its codels terminate; a client reads the
\* replies it waits for.  Users and programs need not do anything else.
Fairness ==
  /\ \A i \in 1 .. MaxSent : WF_vars(i \in DOMAIN exch /\ ServerStep(i)
                                       /\ UNCHANGED <<testVars, libVars>>)
  /\ WF_vars(TestRcv /\ UNCHANGED libVars)

FairSpec == Spec /\ Fairness

-----------------------------------------------------------------------------
\* The control task is suspended, and the module deaf for ever, only because a
\* client went away before it had read the replies of a request the module had
\* begun to serve: a client that reads what it asked for harms nobody.
SuspendedByLeaver ==
  server = "suspended" =>
    \E i \in DOMAIN exch : /\ exch[i].client \notin alive /\ exch[i].open
                           /\ exch[i].stage # "queued"

\* The user of the test program gets the menu back, unless the module stopped
\* or was suspended while the program waited: the timeouts are infinite.
MenuComesBack ==
  test.pc \in {"interm", "final", "poll", "replies", "abort"}
    ~> \/ At("menu") \/ At("confirm") \/ At("exited")
       \/ server \in {"suspended", "ended"}
=============================================================================
