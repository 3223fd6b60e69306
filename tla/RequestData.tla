----------------------------- MODULE RequestData -----------------------------
(***************************************************************************)
(* The inputs and outputs of execution requests (requestExec.c): where the *)
(* control task records the input of a request, what codels read and give, *)
(* what the final reply carries.  A value is the number of the request it  *)
(* was sent with, or computed from.  Tasks work under the lock of the      *)
(* SDIs; GenomModule has their protocol, and codels that fail, in full.    *)
(***************************************************************************)
EXTENDS Naturals, FiniteSets

CONSTANTS
  Slot,         \* the activity table
  Types,        \* the execution requests, all of one execution task
  Reentrant,    \* those several activities of which may run together
  Incompatible, \* Incompatible[r]: the requests r interrupts, r itself among
                \* them when it is not reentrant
  UnlockRqsts,  \* those whose codels give the SDIs and take them again
  MaxValue      \* bound on the requests served

ASSUME DataAssumption ==
  /\ Slot \subseteq Nat \ {0}
  /\ Reentrant \subseteq Types /\ UnlockRqsts \subseteq Types /\ MaxValue \in Nat
  /\ Incompatible \in [Types -> SUBSET Types]
  /\ \A r \in Types \ Reentrant : r \in Incompatible[r]

VARIABLES
  act,     \* the activities: their request, its number, their state, those they
           \* wait for, and whether they ended by themselves
  input,   \* the input zones of the SDI_f
  output,  \* the output zones
  served,  \* the number of requests served
  replied, \* the final replies sent
  holder   \* who holds the lock between two steps: "served" is the control task
           \* once it has served the request of its cycle

dataVars == <<act, input, output, served, replied, holder>>

Values == 0 .. MaxValue

\* Mutant: one zone for all the activities of a request, reentrant or not.
ZoneShared(r, i) == <<r, 0>>

\* A non-reentrant request has one zone, a member of the SDI_f; a reentrant one
\* has one zone for each slot.
Zones == Types \X (Slot \cup {0})
Zone(r, i) == <<r, IF r \in Reentrant THEN i ELSE 0>>

\* "wait" and "start" are the status INIT, before and after the event START.
States == {"ether", "wait", "start", "exec", "inter", "ended"}

Activity == [type : Types, rqst : Values, state : States, incomp : SUBSET Slot,
             done : BOOLEAN]
Reply == [type : Types, rqst : Values, done : BOOLEAN, out : Values]

TypeData ==
  /\ act \in [Slot -> Activity]
  /\ input \in [Zones -> Values] /\ output \in [Zones -> Values]
  /\ served \in Values
  /\ replied \in SUBSET Reply
  /\ holder \in {"none", "cntrl", "served", "task"}

InitData ==
  /\ \E r \in Types :
       act = [i \in Slot |-> [type |-> r, rqst |-> 0, state |-> "ether", incomp |-> {},
                              done |-> FALSE]]
  /\ input = [z \in Zones |-> 0] /\ output = input
  /\ served = 0
  /\ replied = {}
  /\ holder = "none"

-----------------------------------------------------------------------------
(* A cycle of the control task *)

In(s) == {i \in Slot : act[i].state \in s}

\* SendFinalReply: whatever the report, the reply carries the output zone.
SendFinalReply(over) ==
  replied' = replied \cup
    {[type |-> act[i].type, rqst |-> act[i].rqst, done |-> act[i].done,
      out |-> output[Zone(act[i].type, i)]] : i \in over}

freeActivity(a) == [a EXCEPT !.state = "ether", !.incomp = {}, !.done = FALSE]

\* The control task takes the lock and answers the activities that ended.
CntrlIntEvnExec ==
  /\ holder = "none" /\ holder' = "cntrl"
  /\ SendFinalReply(In({"ended"}))
  /\ act' = [i \in Slot |-> IF act[i].state = "ended" THEN freeActivity(act[i]) ELSE act[i]]
  /\ UNCHANGED <<input, output, served>>

\* Cntrl$request$: a slot, the input recorded at once, then the incompatible
\* activities interrupted.  Those not started are over; the others have still to
\* run their termination codels, and are recorded.
CntrlRequest(i, r) ==
  /\ holder = "cntrl" /\ holder' = "served"
  /\ served < MaxValue /\ served' = served + 1
  /\ act[i].state = "ether"
  /\ input' = [input EXCEPT ![Zone(r, i)] = served + 1]
  /\ LET hit == {j \in Slot \ In({"ether"}) : act[j].type \in Incompatible[r]}
         over == hit \cap In({"wait", "start", "ended"})
     IN /\ act' = [j \in Slot |->
             CASE j = i -> [type |-> r, rqst |-> served + 1, state |-> "wait",
                            incomp |-> hit \ over, done |-> FALSE]
               [] j \in over -> freeActivity(act[j])
               [] j \in hit \ over -> [act[j] EXCEPT !.state = "inter"]
               [] OTHER -> act[j]]
        /\ SendFinalReply(over)
  /\ UNCHANGED output

\* Mutant: the activities start beside those they interrupted.
SpawnBeside(a) == [a EXCEPT !.state = "start", !.incomp = {}]

\* What a waiting activity becomes: the slots recorded that are free are forgotten,
\* and it starts when there is none left.
Spawned(a) == LET left == a.incomp \ In({"ether"})
              IN [a EXCEPT !.incomp = left, !.state = IF left = {} THEN "start" ELSE @]

\* The end of the cycle: the lock is given.
SpawnActivities ==
  /\ holder \in {"cntrl", "served"} /\ holder' = "none"
  /\ act' = [i \in Slot |-> IF act[i].state = "wait" THEN Spawned(act[i]) ELSE act[i]]
  /\ UNCHANGED <<input, output, served, replied>>

-----------------------------------------------------------------------------
(* Codels *)

Callable == {"start", "exec", "inter"}

\* The codel of an activity called in state s returns its next event, which
\* replaces the one the slot has.  It computes its output from its input, as it
\* was sent or as the zone is now; one that is interrupted may give it or not.
execTaskCallUserFunc(i, s) ==
  LET z == Zone(act[i].type, i)
  IN \/ /\ s \in {"start", "exec"}
        /\ act' = [act EXCEPT ![i].state = "exec"] /\ UNCHANGED output
     \/ /\ s \in {"start", "exec"}
        /\ act' = [act EXCEPT ![i].state = "ended", ![i].done = TRUE]
        /\ \E v \in {act[i].rqst, input[z]} : output' = [output EXCEPT ![z] = v]
     \/ /\ s = "inter"
        /\ act' = [act EXCEPT ![i].state = "ended"]
        /\ \E v \in {act[i].rqst, input[z], output[z]} :
             output' = [output EXCEPT ![z] = v]

-----------------------------------------------------------------------------
\* A request that is not reentrant, and unlocks the SDIs, may be served again, and
\* its zone written, while its codel runs.
Guarded(r) == r \in Reentrant \/ r \notin UnlockRqsts

\* While an activity goes on, and was not asked to interrupt, its codels find
\* the input its own client sent, whatever requests were served since.
InputIsOwn ==
  \A i \in In({"start", "exec"}) :
    Guarded(act[i].type) => input[Zone(act[i].type, i)] = act[i].rqst

\* The same of the codels that give the SDIs.
InputIsOwnUnlocked ==
  \A i \in In({"start", "exec"}) : input[Zone(act[i].type, i)] = act[i].rqst

\* The codel that terminates an interrupted activity finds its own input too.
InputIsOwnToTheEnd ==
  \A i \in In(Callable) : input[Zone(act[i].type, i)] = act[i].rqst

\* The final reply of an activity that ended by itself carries, and will carry
\* when its turn to be answered comes, the output of that activity and of no other
\* of the same type.
OutputIsOwn ==
  /\ \A i \in In({"ended"}) : act[i].done /\ Guarded(act[i].type) =>
       output[Zone(act[i].type, i)] = act[i].rqst
  /\ \A e \in replied : e.done /\ Guarded(e.type) => e.out = e.rqst

\* No reply carries the output of another activity.
EveryOutputIsOwn == \A e \in replied : e.out \in {0, e.rqst}
=============================================================================
