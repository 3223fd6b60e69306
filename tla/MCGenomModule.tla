---------------------------- MODULE MCGenomModule ----------------------------
(***************************************************************************)
(* Instances of GenomModule for TLC.  The module has the types "goto" and  *)
(* "track" of execution requests, "setup" for its init request, and the    *)
(* control request "stop"; its tasks are "motion", aperiodic, and "servo". *)
(***************************************************************************)
EXTENDS GenomClaims, TLC

\* The execution task of each type: both on motion, or one on each.
OnMotion      == [x \in {"goto", "track"} |-> "motion"]
OnBoth        == ("goto" :> "motion") @@ ("track" :> "servo")
OnMotionSetup == [x \in {"goto", "track", "setup"} |-> "motion"]

\* goto interrupts goto and track, track interrupts goto; stop interrupts both.
Exclusive == ("goto" :> {"goto", "track"}) @@ ("track" :> {"goto"})
               @@ ("stop" :> {"goto", "track"})

\* The same, with an init request that interrupts everything.
ExclusiveSetup == [x \in {"goto", "track", "setup", "stop"} |->
                     IF x = "setup" THEN {"goto", "track", "setup"}
                     ELSE Exclusive[x] \cup {"setup"}]

\* The same without the control request.
NoControlSetup == [x \in {"goto", "track", "setup"} |-> ExclusiveSetup[x]]

NoControl == [x \in {"goto", "track"} |-> Exclusive[x]]

\* watch, on servo, interrupts nothing and is interrupted by nothing.
OnBothWatch    == OnBoth @@ ("watch" :> "servo")
ExclusiveWatch == Exclusive @@ ("watch" :> {})

\* What the codels of each state return: a run that ends, fails or goes on.
All(results) == [x \in ExecRqsts |-> results]

Regular == All([START |-> {"EXEC", "ETHER"}, EXEC |-> {"EXEC", "END", "FAIL", "SLEEP"},
                END |-> {"ETHER"}, FAIL |-> {"ZOMBIE"}, INTER |-> {"ETHER"}])

\* The same, and a forbidden event that means nothing to the control task.
RegularOrNone == [x \in ExecRqsts |->
                    [Regular[x] EXCEPT !["EXEC"] = @ \cup {"NO_EVENT"}]]

\* Every event of the transition table, and sleep.
AllAllowed == All(Allowed)

\* No codel loops.
EndsAlone == [START |-> {"EXEC"}, EXEC |-> {"END", "FAIL"}, END |-> {"ETHER"},
              FAIL |-> {"ZOMBIE"}, INTER |-> {"ETHER", "ZOMBIE"}]
Terminating == All(EndsAlone)

\* An activity that goes on, or sleeps, until it is interrupted.
GoesOn == [START |-> {"EXEC"}, EXEC |-> {"EXEC", "SLEEP"}, END |-> {"ETHER"},
           FAIL |-> {"ZOMBIE"}, INTER |-> {"ETHER", "FAIL"}]
Endless == All(GoesOn)

\* goto ends by itself, track goes on until it is interrupted.
TrackGoesOn == [x \in ExecRqsts |-> IF x = "track" THEN GoesOn ELSE EndsAlone]

\* A failure that asks to be called again.
FailAgain == All([EndsAlone EXCEPT !["FAIL"] = {"FAIL", "ZOMBIE"}])

\* Forbidden events too, some of which mean something to the control task.
Faulty == All([START |-> {"EXEC", "INTER"}, EXEC |-> {"END", "NO_EVENT"},
               END |-> {"ETHER", "SLEEP"}, FAIL |-> {"ZOMBIE", "FAIL"},
               INTER |-> {"ETHER", "START"}])

\* Numbers of activities, flags, meaningless numbers, resume and end.
FlagAborts   == {0, -66, -5}
FaultAborts  == {-88, -66, -5, 0}
ResumeAborts == {-88}
EndAborts    == {1, -99}

NoWakeUps   == {{}}
ServoWakeUp == {{}, {"servo"}}
=============================================================================
