---------------------------- MODULE MCGenomClients ----------------------------
EXTENDS GenomClients

\* Who is there: two of the clients, each of them in one pair at least.
MCParties == {{"test", "script"}, {"prog", "init"}, {"init", "script"},
              {"serv", "init"}}

\* An execution request whose input a control request may fetch.
MCGetter == [r \in ExecRqsts \cup CntrlRqsts |-> IF r = "go" THEN "get" ELSE None]

\* An execution request whose input another execution request may fetch.
MCGetterExec == [r \in ExecRqsts \cup CntrlRqsts |-> IF r = "go" THEN "see" ELSE None]

MCTester == {{"test"}}
=============================================================================
