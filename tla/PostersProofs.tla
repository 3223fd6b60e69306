---------------------------- MODULE PostersProofs ----------------------------
(***************************************************************************)
(* Proofs about the data of requests and the posters, for every table of   *)
(* activities, every set of requests and every poster: each request has    *)
(* the input and the output that are its own, the final reply comes after  *)
(* the poster, and readers have no value that was not computed.            *)
(***************************************************************************)
EXTENDS Posters, TLAPS

\* The activities that have begun, and those whose turn has still to come.
Running == {"exec", "inter", "ended"}
Coming  == {"wait", "start"}

\* Until it starts an activity has its own input; until it is interrupted too,
\* if its zone is not written while its codel runs.
InputHeld ==
  \A i \in Slot :
    ( \/ act[i].state \in Coming
      \/ Guarded(act[i].type) /\ act[i].state = "exec"
      \/ act[i].type \in Reentrant /\ act[i].state = "inter" )
    => input[Zone(act[i].type, i)] = act[i].rqst

\* The activities of a request that is not reentrant run one at a time: the one
\* that comes has noted the one that runs.
RunsAlone ==
  \A i, j \in Slot :
    i # j /\ act[i].type = act[j].type /\ act[i].type \notin Reentrant =>
      /\ ~ (act[i].state \in Coming /\ act[j].state \in Coming)
      /\ ~ (act[i].state \in Running \cup {"start"} /\ act[j].state \in Running)
      /\ act[i].state = "wait" /\ act[j].state \in Running => j \in act[i].incomp

\* An activity that ended by itself has not been answered.
DoneIsEnded == \A i \in Slot : act[i].done => act[i].state = "ended"

\* The task holds the lock in its turn, but while a codel has given it; that codel is
\* one of an activity that still runs.
TurnLocked ==
  /\ holder = "task" <=> turn \in {"codels", "posters"}
  /\ turn # "unlocked" => codel = {}
  /\ \A c, e \in codel : c = e
  /\ \A c \in codel : /\ act[c[1]].state \in {"exec", "inter"}
                      /\ act[c[1]].type \in UnlockRqsts

\* Out of its turn the poster shows the outputs, and while it is written but for the
\* members still to write.
PosterShows ==
  \A m \in Members :
    (turn = "out" \/ (turn = "posters" /\ m \notin todo)) => poster[m] = output[m]

\* Values only grow, and go from the requests to the inputs, the outputs, the
\* poster and the readers.
ValuesGrow ==
  /\ \A z \in Zones : output[z] <= input[z] /\ input[z] <= served
  /\ \A m \in Members : poster[m] <= output[m]
  /\ \A i \in Slot :
       /\ act[i].rqst <= input[Zone(act[i].type, i)]
       /\ act[i].state \in Coming \cup {"exec", "inter"} =>
            output[Zone(act[i].type, i)] <= act[i].rqst

\* A reader that knows a byte order knows the right one.
OrderIsTrue == \A q \in Readers : reader[q].order \in {"unset", Order(q)}

DataInv == InputHeld /\ RunsAlone /\ DoneIsEnded /\ OutputIsOwn
ShowInv == TurnLocked /\ PosterShows /\ ValuesGrow
ReadInv == OrderIsTrue /\ ReadIsComputed
Inv     == TypeOK /\ DataInv /\ ShowInv /\ ReadInv

-----------------------------------------------------------------------------
\* Two activities of one request have one zone only if the request is not
\* reentrant, or if they are the same.
LEMMA ZoneApart ==
  ASSUME NEW r \in Types, NEW p \in Types, NEW i \in Slot, NEW j \in Slot
  PROVE  /\ Zone(r, i) \in Zones
         /\ Zone(r, i) = Zone(p, j) => r = p /\ (r \in Reentrant => i = j)
BY DEF Zone, Zones

\* What the types say of the values, as numbers.
LEMMA Numbers ==
  ASSUME TypeOK
  PROVE  /\ served \in Nat /\ MaxValue \in Nat
         /\ \A z \in Zones : input[z] \in Nat /\ output[z] \in Nat
         /\ \A m \in Members : m \in Zones /\ poster[m] \in Nat
         /\ \A i \in Slot : /\ act[i].rqst \in Nat /\ act[i].type \in Types
                           /\ Zone(act[i].type, i) \in Zones
BY ZoneApart, PosterAssumption, DataAssumption
   DEF TypeOK, TypeData, TypePosters, Values, Activity

LEMMA InitInv == Init => Inv
<1> SUFFICES ASSUME Init PROVE Inv
  OBVIOUS
<1>1. PICK r \in Types :
        act = [i \in Slot |-> [type |-> r, rqst |-> 0, state |-> "ether", incomp |-> {},
                               done |-> FALSE]]
  BY DEF Init, InitData
<1>2. 0 \in Values
  BY DataAssumption DEF Values
<1>3. TypeData
  <2>1. act \in [Slot -> Activity]
    BY <1>1, <1>2 DEF States, Activity
  <2> QED
    BY <1>2, <2>1 DEF Init, InitData, TypeData
<1>4. TypePosters
  BY <1>2 DEF Init, InitPosters, TypePosters
<1>5. DataInv
  BY <1>1 DEF Init, InitData, DataInv, InputHeld, RunsAlone, DoneIsEnded, OutputIsOwn,
              Running, Coming, In
<1>6. ShowInv
  <2>1. TurnLocked /\ PosterShows
    BY <1>3, PosterAssumption DEF Init, InitData, InitPosters, TurnLocked, PosterShows
  <2>2. ValuesGrow
    BY <1>1, PosterAssumption, ZoneApart DEF Init, InitData, InitPosters, ValuesGrow
  <2> QED
    BY <2>1, <2>2 DEF ShowInv
<1>7. ReadInv
  BY PosterAssumption DEF Init, InitData, InitPosters, ReadInv, OrderIsTrue, ReadIsComputed
<1> QED
  BY <1>3, <1>4, <1>5, <1>6, <1>7 DEF Inv, TypeOK

-----------------------------------------------------------------------------
(* What several actions have in common *)

\* A slot that is freed keeps its request.
LEMMA FreedIsFree ==
  ASSUME NEW a \in Activity
  PROVE  /\ freeActivity(a) \in Activity
         /\ freeActivity(a).type = a.type /\ freeActivity(a).rqst = a.rqst
         /\ freeActivity(a).state = "ether" /\ freeActivity(a).done = FALSE
BY DEF freeActivity, Activity, States

\* Replies carry what the zones hold.
LEMMA RepliesOwn ==
  ASSUME Inv, NEW over \in SUBSET Slot, SendFinalReply(over)
  PROVE  /\ replied' \in SUBSET Reply
         /\ \A e \in replied' : e.done /\ Guarded(e.type) => e.out = e.rqst
<1> DEFINE Own(i) == [type |-> act[i].type, rqst |-> act[i].rqst, done |-> act[i].done,
                      out |-> output[Zone(act[i].type, i)]]
<1>1. replied' = replied \cup {Own(i) : i \in over}
  BY DEF SendFinalReply
<1>2. ASSUME NEW i \in over
      PROVE  /\ Own(i) \in Reply
             /\ Own(i).done /\ Guarded(Own(i).type) => Own(i).out = Own(i).rqst
  <2>1. act[i] \in Activity /\ output[Zone(act[i].type, i)] \in Values
    BY Numbers DEF Inv, TypeOK, TypeData
  <2>2. act[i].done /\ Guarded(act[i].type) => output[Zone(act[i].type, i)] = act[i].rqst
    BY DEF Inv, DataInv, DoneIsEnded, OutputIsOwn, In
  <2> QED
    BY <2>1, <2>2 DEF Activity, Reply
<1>3. replied \in SUBSET Reply
      /\ \A e \in replied : e.done /\ Guarded(e.type) => e.out = e.rqst
  BY DEF Inv, TypeOK, TypeData, DataInv, OutputIsOwn
<1> HIDE DEF Own
<1> QED
  BY <1>1, <1>2, <1>3

\* A step that does not touch the readers, and makes outputs grow.
LEMMA ReadersKept ==
  ASSUME Inv, UNCHANGED readVars, \A m \in Members : output'[m] \in Nat /\ output[m] <= output'[m]
  PROVE  ReadInv'
<1>1. OrderIsTrue'
  BY DEF Inv, ReadInv, OrderIsTrue, Order, readVars
<1>2. ASSUME NEW q \in Readers, NEW m \in Members
      PROVE  got[q].data[m] <= output'[m]
  <2>1. got[q].data[m] \in Nat /\ output[m] \in Nat /\ got[q].data[m] <= output[m]
    BY Numbers DEF Inv, TypeOK, TypePosters, Values, ReadInv, ReadIsComputed
  <2> QED
    BY <2>1
<1> QED
  BY <1>1, <1>2 DEF Inv, ReadInv, ReadIsComputed, readVars

\* A step of the control task leaves the turn and the posters alone, and gives or
\* takes its own hold on the lock.
Cycle == UNCHANGED <<turnVars, poster, todo, readVars>>

LEMMA CycleShows ==
  ASSUME Inv, Cycle, UNCHANGED output, holder # "task", holder' # "task"
  PROVE  PosterShows' /\ ReadInv'
         /\ (holder' = "task" <=> turn' \in {"codels", "posters"})
         /\ (turn' # "unlocked" => codel' = {}) /\ \A c, e \in codel' : c = e
<1>1. \A m \in Members : output'[m] \in Nat /\ output[m] <= output'[m]
  BY Numbers DEF Inv
<1>2. ReadInv'
  BY <1>1, ReadersKept DEF Cycle
<1> QED
  BY <1>2 DEF Cycle, Inv, ShowInv, TurnLocked, PosterShows, turnVars

-----------------------------------------------------------------------------
(* The control task *)

LEMMA CntrlIntEvnExecInv ==
  ASSUME Inv, CntrlIntEvnExec, Cycle
  PROVE  Inv'
<1> DEFINE over == In({"ended"})
<1>1. act \in [Slot -> Activity]
  BY DEF Inv, TypeOK, TypeData
<1>2. ASSUME NEW j \in Slot
      PROVE  /\ act'[j] \in Activity
             /\ act'[j].type = act[j].type /\ act'[j].rqst = act[j].rqst
             /\ act[j].state # "ended" => act'[j] = act[j]
             /\ act[j].state = "ended" => act'[j].state = "ether" /\ act'[j].done = FALSE
  <2>1. act'[j] = IF act[j].state = "ended" THEN freeActivity(act[j]) ELSE act[j]
    BY DEF CntrlIntEvnExec
  <2>2. act[j] \in Activity
    BY <1>1
  <2>3. CASE act[j].state = "ended"
    BY <2>1, <2>2, <2>3, FreedIsFree
  <2>4. CASE act[j].state # "ended"
    BY <2>1, <2>2, <2>4
  <2> QED
    BY <2>3, <2>4
<1>3. act' \in [Slot -> Activity]
  BY <1>2 DEF CntrlIntEvnExec
<1>4. /\ replied' \in SUBSET Reply
      /\ \A e \in replied' : e.done /\ Guarded(e.type) => e.out = e.rqst
  BY RepliesOwn DEF CntrlIntEvnExec, In
<1>5. /\ UNCHANGED <<input, output, served>> /\ holder = "none" /\ holder' = "cntrl"
  BY DEF CntrlIntEvnExec
<1>6. TypeOK'
  BY <1>3, <1>4, <1>5 DEF Cycle, turnVars, readVars, Inv, TypeOK, TypeData, TypePosters
<1>7. InputHeld'
  BY <1>2, <1>5 DEF InputHeld, Coming, Zone, Guarded, Inv, DataInv
<1>8. RunsAlone'
  <2>1. \A j \in Slot : act'[j].state \in Coming \cup Running => act'[j] = act[j]
    BY <1>2 DEF Coming, Running
  <2> QED
    BY <2>1 DEF RunsAlone, Coming, Running, Inv, DataInv
<1>9. DoneIsEnded'
  BY <1>2 DEF DoneIsEnded, Inv, DataInv
<1>10. OutputIsOwn'
  BY <1>2, <1>4 DEF OutputIsOwn, In
<1>11. ValuesGrow'
  <2>1. \A j \in Slot : act'[j].state \in Coming \cup {"exec", "inter"} => act'[j] = act[j]
    BY <1>2 DEF Coming
  <2> QED
    BY <1>2, <1>5, <2>1 DEF Cycle, ValuesGrow, Zone, Inv, ShowInv
<1>12. TurnLocked'
  <2>1. \A c \in codel' : /\ act'[c[1]].state \in {"exec", "inter"}
                          /\ act'[c[1]].type \in UnlockRqsts
    BY <1>2 DEF Cycle, turnVars, Inv, TypeOK, TypePosters, ShowInv, TurnLocked
  <2> QED
    BY <1>5, <2>1, CycleShows DEF TurnLocked
<1> QED
  BY <1>5, <1>6, <1>7, <1>8, <1>9, <1>10, <1>11, <1>12, CycleShows
     DEF Inv, DataInv, ShowInv

LEMMA SpawnActivitiesInv ==
  ASSUME Inv, SpawnActivities, Cycle
  PROVE  Inv'
<1>1. act \in [Slot -> Activity]
  BY DEF Inv, TypeOK, TypeData
<1>2. ASSUME NEW j \in Slot
      PROVE  /\ act'[j] \in Activity
             /\ act'[j].type = act[j].type /\ act'[j].rqst = act[j].rqst
             /\ act'[j].done = act[j].done
             /\ act[j].state # "wait" => act'[j] = act[j]
             /\ act[j].state = "wait" =>
                  /\ act'[j].incomp = act[j].incomp \ In({"ether"})
                  /\ \/ act'[j].state = "wait"
                     \/ act'[j].state = "start" /\ act'[j].incomp = {}
  BY <1>1 DEF SpawnActivities, Spawned, Activity, States
<1>3. act' \in [Slot -> Activity]
  BY <1>2 DEF SpawnActivities
<1>4. UNCHANGED <<input, output, served, replied>> /\ holder # "task" /\ holder' = "none"
  BY DEF SpawnActivities
<1>5. TypeOK'
  BY <1>3, <1>4 DEF Cycle, turnVars, readVars, Inv, TypeOK, TypeData, TypePosters
<1>6. \A j \in Slot : /\ act'[j].state \in Coming <=> act[j].state \in Coming
                      /\ act'[j].state \in Running <=> act[j].state \in Running
                      /\ act[j].state # "wait" => act'[j].state = act[j].state
  BY <1>2 DEF Coming, Running
<1>7. InputHeld'
  BY <1>2, <1>4, <1>6 DEF InputHeld, Coming, Zone, Guarded, Inv, DataInv
<1>8. RunsAlone'
  <2> SUFFICES ASSUME NEW i \in Slot, NEW j \in Slot, i # j, act[i].type = act[j].type,
                      act[i].type \notin Reentrant
               PROVE  /\ ~ (act'[i].state \in Coming /\ act'[j].state \in Coming)
                      /\ ~ (act'[i].state \in Running \cup {"start"}
                              /\ act'[j].state \in Running)
                      /\ act'[i].state = "wait" /\ act'[j].state \in Running
                           => j \in act'[i].incomp
    BY <1>2 DEF RunsAlone
  <2>1. /\ ~ (act[i].state \in Coming /\ act[j].state \in Coming)
        /\ ~ (act[i].state \in Running \cup {"start"} /\ act[j].state \in Running)
        /\ act[i].state = "wait" /\ act[j].state \in Running => j \in act[i].incomp
    BY DEF RunsAlone, Inv, DataInv
  <2>2. act[i].state = "wait" /\ act[j].state \in Running =>
          act'[i].state = "wait" /\ j \in act'[i].incomp
    BY <1>2, <2>1 DEF In, Running
  <2> QED
    BY <1>2, <1>6, <2>1, <2>2 DEF Coming, Running
<1>9. DoneIsEnded'
  BY <1>2, <1>6 DEF DoneIsEnded, Inv, DataInv
<1>10. OutputIsOwn'
  BY <1>2, <1>4, <1>6 DEF OutputIsOwn, In, Zone, Guarded, Running, Inv, DataInv
<1>11. ValuesGrow'
  BY <1>2, <1>4, <1>6 DEF Cycle, ValuesGrow, Coming, Zone, Inv, ShowInv
<1>12. TurnLocked'
  <2>1. \A c \in codel' : /\ act'[c[1]].state \in {"exec", "inter"}
                          /\ act'[c[1]].type \in UnlockRqsts
    BY <1>2 DEF Cycle, turnVars, Inv, TypeOK, TypePosters, ShowInv, TurnLocked
  <2> QED
    BY <1>4, <2>1, CycleShows DEF TurnLocked
<1> QED
  BY <1>4, <1>5, <1>7, <1>8, <1>9, <1>10, <1>11, <1>12, CycleShows
     DEF Inv, DataInv, ShowInv

LEMMA CntrlRequestInv ==
  ASSUME Inv, NEW i \in Slot, NEW r \in Types, CntrlRequest(i, r), Cycle
  PROVE  Inv'
<1> DEFINE n == served + 1
           hit == {j \in Slot \ In({"ether"}) : act[j].type \in Incompatible[r]}
           over == hit \cap In({"wait", "start", "ended"})
<1>1. n \in Values /\ served \in Nat /\ n \in Nat /\ served < n /\ served' = n
  BY DataAssumption DEF Inv, TypeOK, TypeData, CntrlRequest, Values
<1>2. act \in [Slot -> Activity]
  BY DEF Inv, TypeOK, TypeData
<1>3. act' = [j \in Slot |->
        CASE j = i -> [type |-> r, rqst |-> n, state |-> "wait",
                       incomp |-> hit \ over, done |-> FALSE]
          [] j \in over -> freeActivity(act[j])
          [] j \in hit \ over -> [act[j] EXCEPT !.state = "inter"]
          [] OTHER -> act[j]]
  BY DEF CntrlRequest
<1>4. i \notin hit /\ i \notin over /\ act[i].state = "ether"
  BY DEF CntrlRequest, In
<1>5. /\ act'[i] \in Activity /\ act'[i].incomp = hit \ over
      /\ act'[i].type = r /\ act'[i].rqst = n /\ act'[i].state = "wait"
      /\ act'[i].done = FALSE
  <2> DEFINE new == [type |-> r, rqst |-> n, state |-> "wait", incomp |-> hit \ over,
                     done |-> FALSE]
  <2>1. new \in Activity
    BY <1>1 DEF Activity, States
  <2>2. new.type = r /\ new.rqst = n /\ new.state = "wait" /\ new.incomp = hit \ over
        /\ new.done = FALSE
    OBVIOUS
  <2> HIDE DEF new
  <2>3. act'[i] = new
    BY <1>3, <1>4 DEF new
  <2> QED
    BY <2>1, <2>2, <2>3
<1>6. ASSUME NEW j \in Slot, j # i
      PROVE  /\ act'[j] \in Activity
             /\ act'[j].type = act[j].type /\ act'[j].rqst = act[j].rqst
             /\ \/ act'[j] = act[j] /\ j \notin hit
                \/ act'[j].state = "ether" /\ act'[j].done = FALSE
                \/ /\ j \in hit \ over /\ act[j].state \in {"exec", "inter"}
                   /\ act'[j].state = "inter" /\ act'[j].done = act[j].done
  <2>1. act[j] \in Activity
    BY <1>2
  <2>2. CASE j \in over
    BY <1>3, <1>6, <2>1, <2>2, FreedIsFree
  <2>3. CASE j \in hit \ over
    <3>1. act'[j] = [act[j] EXCEPT !.state = "inter"]
      BY <1>3, <1>6, <2>3
    <3>2. act[j].state \in {"exec", "inter"}
      BY <2>1, <2>3 DEF In, Activity, States
    <3> QED
      BY <2>1, <2>3, <3>1, <3>2 DEF Activity, States
  <2>4. CASE j \notin hit
    BY <1>3, <1>6, <2>1, <2>4
  <2> QED
    BY <2>2, <2>3, <2>4
<1>7. act' \in [Slot -> Activity]
  BY <1>3, <1>5, <1>6
<1>8. /\ replied' \in SUBSET Reply
      /\ \A e \in replied' : e.done /\ Guarded(e.type) => e.out = e.rqst
  <2>1. SendFinalReply(over) /\ over \subseteq Slot
    BY DEF CntrlRequest
  <2> HIDE DEF over
  <2> QED
    BY <2>1, RepliesOwn
<1>9. /\ input' = [input EXCEPT ![Zone(r, i)] = n] /\ input' \in [Zones -> Values]
      /\ \A z \in Zones : input'[z] = IF z = Zone(r, i) THEN n ELSE input[z]
      /\ output' = output /\ holder = "cntrl" /\ holder' = "served"
  BY <1>1, ZoneApart DEF CntrlRequest, Inv, TypeOK, TypeData
<1>10. \A j \in Slot : j # i /\ j \notin hit /\ act[j].state # "ether" =>
         Zone(act[j].type, j) # Zone(r, i)
  <2> SUFFICES ASSUME NEW j \in Slot, j # i, j \notin hit, act[j].state # "ether",
                      Zone(act[j].type, j) = Zone(r, i)
               PROVE  FALSE
    OBVIOUS
  <2>1. act[j].type = r /\ r \notin Reentrant
    BY <1>2, ZoneApart DEF Activity
  <2> QED
    BY <2>1, DataAssumption DEF In
<1> HIDE DEF hit, over
<1>11. TypeOK'
  BY <1>1, <1>7, <1>8, <1>9 DEF Cycle, turnVars, readVars, Inv, TypeOK, TypeData, TypePosters
<1>12. InputHeld'
  <2> SUFFICES ASSUME NEW j \in Slot,
                      \/ act'[j].state \in Coming
                      \/ Guarded(act'[j].type) /\ act'[j].state = "exec"
                      \/ act'[j].type \in Reentrant /\ act'[j].state = "inter"
               PROVE  input'[Zone(act'[j].type, j)] = act'[j].rqst
    BY DEF InputHeld, Zone, Guarded
  <2>1. CASE j = i
    BY <1>5, <1>9, <2>1, ZoneApart
  <2>2. CASE j # i
    <3>1. act[j].type \in Types /\ act[j].rqst \in Nat /\ Zone(act[j].type, j) \in Zones
      BY Numbers DEF Inv
    <3>2. input[Zone(act[j].type, j)] = act[j].rqst
      <4>1. \/ act[j].state \in Coming
            \/ Guarded(act[j].type) /\ act[j].state = "exec"
            \/ act[j].type \in Reentrant /\ act[j].state = "inter"
        BY <1>6, <2>2 DEF Coming, Guarded
      <4> QED
        BY <4>1 DEF Inv, DataInv, InputHeld
    <3>3. Zone(act[j].type, j) # Zone(r, i)
      <4>1. CASE j \in hit
        <5>1. act'[j].state = "inter" /\ act[j].type \in Reentrant
          BY <1>6, <2>2, <4>1 DEF Coming
        <5> QED
          BY <2>2, <3>1, <5>1, ZoneApart
      <4>2. CASE j \notin hit
        BY <1>6, <1>10, <2>2, <4>2 DEF Coming
      <4> QED
        BY <4>1, <4>2
    <3> QED
      BY <1>6, <1>9, <2>2, <3>1, <3>2, <3>3
  <2> QED
    BY <2>1, <2>2
<1>13. RunsAlone'
  <2>1. ASSUME NEW j \in Slot, j # i, act[j].type = r, r \notin Reentrant
        PROVE  /\ act'[j].state \notin Coming \cup {"start"}
               /\ act'[j].state \in Running => j \in act'[i].incomp
    <3>1. act[j].state # "ether" => j \in hit
      BY <2>1, DataAssumption DEF hit, In
    <3> QED
      BY <1>5, <1>6, <2>1, <3>1 DEF Coming, Running
  <2>2. ASSUME NEW j \in Slot, j # i
        PROVE  /\ act'[j].state \in Coming => act'[j] = act[j]
               /\ act'[j].state \in Running => act[j].state \in Running
               /\ act'[j].state = "start" => act[j].state = "start"
    BY <1>6, <2>2 DEF Coming, Running
  <2> SUFFICES ASSUME NEW j \in Slot, NEW k \in Slot, j # k,
                      act'[j].type = act'[k].type, act'[j].type \notin Reentrant
               PROVE  /\ ~ (act'[j].state \in Coming /\ act'[k].state \in Coming)
                      /\ ~ (act'[j].state \in Running \cup {"start"}
                              /\ act'[k].state \in Running)
                      /\ act'[j].state = "wait" /\ act'[k].state \in Running
                           => k \in act'[j].incomp
    BY DEF RunsAlone
  <2>3. CASE j = i
    BY <1>5, <1>6, <2>1, <2>3 DEF Running
  <2>4. CASE k = i
    <3>1. act[j].type = r
      BY <1>5, <1>6, <2>4
    <3> QED
      BY <1>5, <2>1, <2>4, <3>1 DEF Running, Coming
  <2>5. CASE j # i /\ k # i
    <3>1. act[j].type = act[k].type /\ act[j].type \notin Reentrant
      BY <1>6, <2>5
    <3>2. /\ ~ (act[j].state \in Coming /\ act[k].state \in Coming)
          /\ ~ (act[j].state \in Running \cup {"start"} /\ act[k].state \in Running)
          /\ act[j].state = "wait" /\ act[k].state \in Running => k \in act[j].incomp
      BY <3>1 DEF RunsAlone, Inv, DataInv
    <3> QED
      BY <2>2, <2>5, <3>2 DEF Coming
  <2> QED
    BY <2>3, <2>4, <2>5
<1>14. DoneIsEnded'
  BY <1>5, <1>6 DEF DoneIsEnded, Inv, DataInv
<1>15. OutputIsOwn'
  <2>1. \A j \in Slot : act'[j].state = "ended" => j # i /\ act'[j] = act[j]
    BY <1>5, <1>6
  <2> QED
    BY <1>8, <1>9, <2>1 DEF OutputIsOwn, In, Inv, DataInv
<1>16. ValuesGrow'
  <2>1. ASSUME NEW z \in Zones
        PROVE  /\ output'[z] <= input'[z] /\ input'[z] <= served' /\ input[z] <= input'[z]
    <3>1. /\ output[z] <= input[z] /\ input[z] <= served
          /\ output[z] \in Nat /\ input[z] \in Nat
      BY Numbers DEF Inv, ShowInv, ValuesGrow
    <3> QED
      BY <1>1, <1>9, <3>1
  <2>2. ASSUME NEW j \in Slot
        PROVE  /\ act'[j].rqst <= input'[Zone(act'[j].type, j)]
               /\ act'[j].state \in Coming \cup {"exec", "inter"} =>
                    output'[Zone(act'[j].type, j)] <= act'[j].rqst
    <3>1. CASE j = i
      <4>1. Zone(r, i) \in Zones
        BY ZoneApart
      <4>2. input'[Zone(r, i)] = n
        BY <1>9, <4>1
      <4>3. output[Zone(r, i)] \in Nat /\ input[Zone(r, i)] \in Nat
            /\ output[Zone(r, i)] <= input[Zone(r, i)] /\ input[Zone(r, i)] <= served
        BY <4>1, Numbers DEF Inv, ShowInv, ValuesGrow
      <4> QED
        BY <1>1, <1>5, <1>9, <3>1, <4>2, <4>3
    <3>2. CASE j # i
      <4>1. /\ act[j].rqst <= input[Zone(act[j].type, j)]
            /\ act[j].state \in Coming \cup {"exec", "inter"} =>
                 output[Zone(act[j].type, j)] <= act[j].rqst
        BY DEF Inv, ShowInv, ValuesGrow
      <4>2. act[j].rqst \in Nat /\ Zone(act[j].type, j) \in Zones
        BY Numbers DEF Inv
      <4>3. input[Zone(act[j].type, j)] \in Nat /\ input'[Zone(act[j].type, j)] \in Nat
            /\ input[Zone(act[j].type, j)] <= input'[Zone(act[j].type, j)]
        BY <1>1, <1>9, <2>1, <4>2, Numbers DEF Inv
      <4>4. act[j].rqst <= input'[Zone(act[j].type, j)]
        BY <4>1, <4>2, <4>3
      <4> QED
        BY <1>6, <1>9, <3>2, <4>1, <4>4 DEF Coming
    <3> QED
      BY <3>1, <3>2
  <2> QED
    BY <1>9, <2>1, <2>2 DEF Cycle, ValuesGrow, Zone, Inv, ShowInv
<1>17. TurnLocked'
  <2>1. ASSUME NEW c \in codel'
        PROVE  /\ act'[c[1]].state \in {"exec", "inter"} /\ act'[c[1]].type \in UnlockRqsts
    <3>1. /\ c[1] \in Slot /\ act[c[1]].state \in {"exec", "inter"}
          /\ act[c[1]].type \in UnlockRqsts
      BY DEF Cycle, turnVars, Inv, TypeOK, TypePosters, ShowInv, TurnLocked
    <3>2. c[1] # i /\ c[1] \notin over
      BY <1>4, <3>1 DEF over, In
    <3>3. act'[c[1]] = IF c[1] \in hit THEN [act[c[1]] EXCEPT !.state = "inter"]
                       ELSE act[c[1]]
      BY <1>3, <3>1, <3>2 DEF over
    <3> QED
      BY <1>2, <3>1, <3>3 DEF Activity
  <2> QED
    BY <1>9, <2>1, CycleShows DEF TurnLocked
<1> QED
  BY <1>9, <1>11, <1>12, <1>13, <1>14, <1>15, <1>16, <1>17, CycleShows
     DEF Inv, DataInv, ShowInv

-----------------------------------------------------------------------------
(* Codels *)

\* What a codel that returns keeps: its slot is that of an activity that runs, called
\* in the state it has, unless it gave the SDIs meanwhile.
LEMMA CodelReturns ==
  ASSUME Inv, NEW i \in Slot, NEW s \in Callable, act[i].state \in Callable,
         act[i].state = s \/ act[i].type \in UnlockRqsts,
         execTaskCallUserFunc(i, s), UNCHANGED <<input, served, replied>>
  PROVE  /\ act' \in [Slot -> Activity] /\ output' \in [Zones -> Values]
         /\ \A z \in Zones : output'[z] \in Nat /\ output[z] <= output'[z]
         /\ DataInv' /\ (poster' = poster => ValuesGrow')
<1> DEFINE z == Zone(act[i].type, i)
<1>1. act \in [Slot -> Activity] /\ output \in [Zones -> Values]
      /\ input \in [Zones -> Values]
  BY DEF Inv, TypeOK, TypeData
<1>2. /\ z \in Zones /\ act[i].rqst \in Nat /\ act[i].rqst \in Values
      /\ input[z] \in Nat /\ output[z] \in Nat /\ input[z] \in Values /\ output[z] \in Values
      /\ act[i].rqst <= input[z] /\ output[z] <= act[i].rqst
  BY <1>1, Numbers DEF Inv, ShowInv, ValuesGrow, Callable, Coming, Activity
<1>3. PICK v \in {act[i].rqst, input[z], output[z]} :
        /\ output' = [output EXCEPT ![z] = v]
        /\ \/ /\ s \in {"start", "exec"} /\ v = output[z]
              /\ act' = [act EXCEPT ![i].state = "exec"]
           \/ /\ s \in {"start", "exec"} /\ v \in {act[i].rqst, input[z]}
              /\ act' = [act EXCEPT ![i].state = "ended", ![i].done = TRUE]
           \/ s = "inter" /\ act' = [act EXCEPT ![i].state = "ended"]
  <2>1. output = [output EXCEPT ![z] = output[z]]
    BY <1>1, <1>2
  <2>2. CASE s \in {"start", "exec"} /\ act' = [act EXCEPT ![i].state = "exec"]
             /\ output' = output
    BY <2>1, <2>2
  <2>3. CASE ~ (s \in {"start", "exec"} /\ act' = [act EXCEPT ![i].state = "exec"]
                /\ output' = output)
    BY <2>3 DEF execTaskCallUserFunc
  <2> QED
    BY <2>2, <2>3
<1>4. /\ act' \in [Slot -> Activity]
      /\ \A j \in Slot : /\ act'[j].type = act[j].type /\ act'[j].rqst = act[j].rqst
                         /\ act'[j].incomp = act[j].incomp
                         /\ j # i => act'[j] = act[j]
      /\ \/ /\ s \in {"start", "exec"} /\ act'[i].state = "exec" /\ v = output[z]
            /\ act'[i].done = act[i].done
         \/ /\ s \in {"start", "exec"} /\ act'[i].state = "ended" /\ act'[i].done
            /\ v \in {act[i].rqst, input[z]}
         \/ s = "inter" /\ act'[i].state = "ended" /\ act'[i].done = act[i].done
  BY <1>1, <1>3 DEF Activity, States
<1>5. act[i].done = FALSE
  BY <1>1 DEF Inv, DataInv, DoneIsEnded, Callable, Activity
<1>6. /\ output' \in [Zones -> Values]
      /\ \A y \in Zones : output'[y] = IF y = z THEN v ELSE output[y]
  BY <1>1, <1>2, <1>3
<1>7. v \in Nat /\ output[z] <= v /\ v <= input[z]
  BY <1>2
<1> HIDE DEF z
<1>8. \A y \in Zones : /\ output'[y] \in Nat /\ output[y] <= output'[y]
                       /\ output'[y] <= input'[y] /\ input'[y] <= served'
  <2> SUFFICES ASSUME NEW y \in Zones
               PROVE  /\ output'[y] \in Nat /\ output[y] <= output'[y]
                      /\ output'[y] <= input'[y] /\ input'[y] <= served'
    OBVIOUS
  <2>1. output[y] \in Nat /\ input[y] \in Nat /\ served \in Nat
        /\ output[y] <= input[y] /\ input[y] <= served
    BY Numbers DEF Inv, ShowInv, ValuesGrow
  <2> QED
    BY <1>6, <1>7, <2>1
<1>9. InputHeld'
  <2> SUFFICES ASSUME NEW j \in Slot,
                      \/ act'[j].state \in Coming
                      \/ Guarded(act'[j].type) /\ act'[j].state = "exec"
                      \/ act'[j].type \in Reentrant /\ act'[j].state = "inter"
               PROVE  input[Zone(act[j].type, j)] = act[j].rqst
    BY <1>4 DEF InputHeld, Zone, Guarded
  <2>1. CASE j # i
    BY <1>4, <2>1 DEF InputHeld, Guarded, Inv, DataInv
  <2>2. CASE j = i
    <3>1. Guarded(act[i].type) /\ s \in {"start", "exec"}
      BY <1>4, <2>2 DEF Coming, Guarded
    <3>2. \/ act[i].state \in Coming
          \/ Guarded(act[i].type) /\ act[i].state = "exec"
          \/ act[i].type \in Reentrant /\ act[i].state = "inter"
      BY <3>1 DEF Guarded, Coming, Callable
    <3> QED
      BY <2>2, <3>2 DEF InputHeld, Inv, DataInv
  <2> QED
    BY <2>1, <2>2
<1>10. \A j \in Slot : /\ act'[j].state \in Coming => act[j].state = act'[j].state /\ j # i
                       /\ act'[j].state \in Running => act[j].state \in Running \cup {"start"}
                       /\ act'[j].state \in Running /\ j # i => act[j].state \in Running
  BY <1>4 DEF Coming, Running, Callable
<1>11. RunsAlone'
  <2> SUFFICES ASSUME NEW j \in Slot, NEW k \in Slot, j # k, act[j].type = act[k].type,
                      act[j].type \notin Reentrant
               PROVE  /\ ~ (act'[j].state \in Coming /\ act'[k].state \in Coming)
                      /\ ~ (act'[j].state \in Running \cup {"start"}
                              /\ act'[k].state \in Running)
                      /\ act'[j].state = "wait" /\ act'[k].state \in Running
                           => k \in act'[j].incomp
    BY <1>4 DEF RunsAlone
  <2>1. /\ ~ (act[j].state \in Coming /\ act[k].state \in Coming)
        /\ ~ (act[j].state \in Running \cup {"start"} /\ act[k].state \in Running)
        /\ ~ (act[k].state \in Running \cup {"start"} /\ act[j].state \in Running)
        /\ act[j].state = "wait" /\ act[k].state \in Running => k \in act[j].incomp
    BY DEF RunsAlone, Inv, DataInv
  <2> QED
    BY <1>4, <1>10, <2>1 DEF Coming
<1>12. DoneIsEnded'
  BY <1>4, <1>5 DEF DoneIsEnded, Inv, DataInv
<1>13. \A j \in Slot : j # i /\ act[j].type = act[i].type /\ act[j].type \notin Reentrant
         => act[j].state \in {"ether", "wait"}
  <2> SUFFICES ASSUME NEW j \in Slot, j # i, act[j].type = act[i].type,
                      act[j].type \notin Reentrant
               PROVE  act[j].state \in {"ether", "wait"}
    OBVIOUS
  <2>1. /\ ~ (act[i].state \in Coming /\ act[j].state \in Coming)
        /\ ~ (act[i].state \in Running \cup {"start"} /\ act[j].state \in Running)
        /\ ~ (act[j].state \in Running \cup {"start"} /\ act[i].state \in Running)
    BY DEF RunsAlone, Inv, DataInv
  <2>2. act[j].state \in States
    BY <1>1 DEF Activity
  <2> QED
    BY <2>1, <2>2 DEF Coming, Running, Callable, States
<1>14. \A j \in Slot : j # i /\ act[j].state \notin {"ether", "wait"}
         => output'[Zone(act[j].type, j)] = output[Zone(act[j].type, j)]
  <2> SUFFICES ASSUME NEW j \in Slot, j # i, act[j].state \notin {"ether", "wait"}
               PROVE  output'[Zone(act[j].type, j)] = output[Zone(act[j].type, j)]
    OBVIOUS
  <2>1. Zone(act[j].type, j) # z /\ Zone(act[j].type, j) \in Zones
    BY <1>1, <1>13, ZoneApart DEF z, Activity
  <2> QED
    BY <1>6, <2>1
<1>15. OutputIsOwn'
  <2>1. ASSUME NEW j \in Slot, act'[j].state = "ended", act'[j].done, Guarded(act[j].type)
        PROVE  output'[Zone(act[j].type, j)] = act[j].rqst
    <3>1. CASE j = i
      <4>1. v \in {act[i].rqst, input[z]} /\ s \in {"start", "exec"}
        BY <1>4, <1>5, <2>1, <3>1
      <4>2. \/ act[i].state \in Coming
            \/ Guarded(act[i].type) /\ act[i].state = "exec"
            \/ act[i].type \in Reentrant /\ act[i].state = "inter"
        BY <2>1, <3>1, <4>1 DEF Guarded, Coming, Callable
      <4>3. input[z] = act[i].rqst
        BY <4>2 DEF z, InputHeld, Inv, DataInv
      <4> QED
        BY <1>2, <1>6, <3>1, <4>1, <4>3 DEF z
    <3>2. CASE j # i
      BY <1>4, <1>14, <2>1, <3>2 DEF OutputIsOwn, In, Inv, DataInv
    <3> QED
      BY <3>1, <3>2
  <2> QED
    BY <1>4, <2>1 DEF OutputIsOwn, In, Zone, Guarded, Inv, DataInv
<1>16. ASSUME poster' = poster PROVE ValuesGrow'
  <2>1. \A m \in Members : poster[m] <= output'[m]
    <3> SUFFICES ASSUME NEW m \in Members PROVE poster[m] <= output'[m]
      OBVIOUS
    <3>1. m \in Zones /\ poster[m] \in Nat /\ output[m] \in Nat /\ poster[m] <= output[m]
      BY Numbers DEF Inv, ShowInv, ValuesGrow
    <3> QED
      BY <1>8, <3>1
  <2>2. ASSUME NEW j \in Slot
        PROVE  /\ act[j].rqst <= input[Zone(act[j].type, j)]
               /\ act'[j].state \in Coming \cup {"exec", "inter"} =>
                    output'[Zone(act[j].type, j)] <= act[j].rqst
    <3>1. /\ act[j].rqst <= input[Zone(act[j].type, j)]
          /\ act[j].state \in Coming \cup {"exec", "inter"} =>
               output[Zone(act[j].type, j)] <= act[j].rqst
      BY DEF Inv, ShowInv, ValuesGrow
    <3>2. CASE j = i
      <4>1. act'[i].state \in Coming \cup {"exec", "inter"} => output'[z] = output[z]
        BY <1>2, <1>4, <1>6 DEF Coming
      <4> QED
        BY <1>2, <3>1, <3>2, <4>1 DEF z
    <3>3. CASE j # i /\ act[j].state # "wait"
      BY <1>4, <1>14, <3>1, <3>3 DEF Coming
    <3>4. CASE j # i /\ act[j].state = "wait"
      <4>1. input[Zone(act[j].type, j)] = act[j].rqst
        BY <3>4 DEF InputHeld, Coming, Inv, DataInv
      <4>2. Zone(act[j].type, j) \in Zones
        BY Numbers DEF Inv
      <4> QED
        BY <1>8, <3>1, <4>1, <4>2
    <3> QED
      BY <3>2, <3>3, <3>4
  <2> QED
    BY <1>4, <1>8, <1>16, <2>1, <2>2 DEF ValuesGrow, Zone
<1> QED
  BY <1>4, <1>6, <1>8, <1>9, <1>11, <1>12, <1>15, <1>16 DEF DataInv

LEMMA ExecCodelInv ==
  ASSUME Inv, NEW i \in Slot, ExecCodel(i)
  PROVE  Inv'
<1>1. /\ turn = "codels" /\ act[i].state \in Callable /\ left' \in SUBSET Slot
      /\ execTaskCallUserFunc(i, act[i].state)
      /\ UNCHANGED <<input, served, replied, holder, turn, codel, poster, todo, readVars>>
  BY DEF ExecCodel, ComesTo, In, Inv, TypeOK, TypePosters
<1>2. /\ act' \in [Slot -> Activity] /\ output' \in [Zones -> Values]
      /\ \A z \in Zones : output'[z] \in Nat /\ output[z] <= output'[z]
      /\ DataInv' /\ ValuesGrow'
  BY <1>1, CodelReturns
<1>3. TypeOK'
  BY <1>1, <1>2 DEF readVars, Inv, TypeOK, TypeData, TypePosters
<1>4. ReadInv'
  BY <1>1, <1>2, ReadersKept, PosterAssumption
<1>5. TurnLocked' /\ PosterShows'
  BY <1>1 DEF TurnLocked, PosterShows, Inv, ShowInv
<1> QED
  BY <1>2, <1>3, <1>4, <1>5 DEF Inv, ShowInv

LEMMA ExecLockInv ==
  ASSUME Inv, ExecLock
  PROVE  Inv'
<1>1. /\ turn = "unlocked" /\ turn' = "codels" /\ holder' = "task" /\ codel' = {}
      /\ UNCHANGED <<input, served, replied, left, poster, todo, readVars>>
  BY DEF ExecLock
<1>2. /\ act' \in [Slot -> Activity] /\ output' \in [Zones -> Values]
      /\ \A z \in Zones : output'[z] \in Nat /\ output[z] <= output'[z]
      /\ DataInv' /\ ValuesGrow'
  <2>1. CASE UNCHANGED <<act, output>>
    <3>1. \A z \in Zones : output'[z] \in Nat /\ output[z] <= output'[z]
      BY <2>1, Numbers DEF Inv
    <3> QED
      BY <1>1, <2>1, <3>1 DEF Inv, TypeOK, TypeData, DataInv, InputHeld, RunsAlone,
                              DoneIsEnded, OutputIsOwn, In, Zone, ShowInv, ValuesGrow
  <2>2. ASSUME NEW c \in codel, execTaskCallUserFunc(c[1], c[2])
        PROVE  /\ act' \in [Slot -> Activity] /\ output' \in [Zones -> Values]
               /\ \A z \in Zones : output'[z] \in Nat /\ output[z] <= output'[z]
               /\ DataInv' /\ ValuesGrow'
    <3>1. /\ c[1] \in Slot /\ c[2] \in Callable /\ act[c[1]].state \in Callable
          /\ act[c[1]].type \in UnlockRqsts
      BY DEF Inv, TypeOK, TypePosters, ShowInv, TurnLocked, Callable
    <3> QED
      BY <1>1, <2>2, <3>1, CodelReturns
  <2> QED
    BY <2>1, <2>2 DEF ExecLock
<1>3. TypeOK'
  BY <1>1, <1>2 DEF readVars, Inv, TypeOK, TypeData, TypePosters
<1>4. ReadInv'
  BY <1>1, <1>2, ReadersKept, PosterAssumption
<1>5. TurnLocked' /\ PosterShows'
  BY <1>1 DEF TurnLocked, PosterShows
<1> QED
  BY <1>2, <1>3, <1>4, <1>5 DEF Inv, ShowInv

LEMMA ExecUnlockInv ==
  ASSUME Inv, NEW i \in Slot, ExecUnlock(i)
  PROVE  Inv'
<1>1. /\ turn = "codels" /\ turn' = "unlocked" /\ left' \in SUBSET Slot
      /\ codel' = {<<i, act[i].state>>} /\ act[i].state \in Callable
      /\ act[i].type \in UnlockRqsts /\ holder' = "none"
      /\ UNCHANGED <<input, output, served, replied, poster, todo, readVars>>
  BY DEF ExecUnlock, ComesTo, In, Inv, TypeOK, TypePosters
<1>2. act \in [Slot -> Activity]
  BY DEF Inv, TypeOK, TypeData
<1>3. /\ act' \in [Slot -> Activity]
      /\ \A j \in Slot : /\ act'[j].type = act[j].type /\ act'[j].rqst = act[j].rqst
                         /\ act'[j].incomp = act[j].incomp /\ act'[j].done = act[j].done
                         /\ j # i => act'[j] = act[j]
      /\ act'[i].state = IF act[i].state = "start" THEN "exec" ELSE act[i].state
  BY <1>2 DEF ExecUnlock, Activity, States
<1>4. TypeOK'
  <2>1. codel' \in SUBSET (Slot \X Callable)
    BY <1>1
  <2> QED
    BY <1>1, <1>3, <2>1 DEF readVars, Inv, TypeOK, TypeData, TypePosters
<1>5. InputHeld'
  BY <1>1, <1>3 DEF InputHeld, Coming, Callable, Zone, Guarded, Inv, DataInv
<1>6. RunsAlone'
  <2> SUFFICES ASSUME NEW j \in Slot, NEW k \in Slot, j # k, act[j].type = act[k].type,
                      act[j].type \notin Reentrant
               PROVE  /\ ~ (act'[j].state \in Coming /\ act'[k].state \in Coming)
                      /\ ~ (act'[j].state \in Running \cup {"start"}
                              /\ act'[k].state \in Running)
                      /\ act'[j].state = "wait" /\ act'[k].state \in Running
                           => k \in act'[j].incomp
    BY <1>3 DEF RunsAlone
  <2>1. /\ ~ (act[j].state \in Coming /\ act[k].state \in Coming)
        /\ ~ (act[j].state \in Running \cup {"start"} /\ act[k].state \in Running)
        /\ ~ (act[k].state \in Running \cup {"start"} /\ act[j].state \in Running)
        /\ act[j].state = "wait" /\ act[k].state \in Running => k \in act[j].incomp
    BY DEF RunsAlone, Inv, DataInv
  <2>2. \A l \in Slot : /\ act'[l].state \in Coming => act[l].state = act'[l].state
                        /\ act'[l].state \in Running =>
                             act[l].state \in Running \/ act[l].state = "start"
    BY <1>1, <1>3 DEF Coming, Running, Callable
  <2> QED
    BY <1>3, <2>1, <2>2 DEF Coming
<1>7. DoneIsEnded' /\ OutputIsOwn'
  BY <1>1, <1>3 DEF DoneIsEnded, OutputIsOwn, In, Callable, Zone, Guarded, Inv, DataInv
<1>8. ValuesGrow'
  BY <1>1, <1>3 DEF ValuesGrow, Coming, Zone, Inv, ShowInv
<1>9. TurnLocked' /\ PosterShows'
  BY <1>1, <1>3 DEF TurnLocked, PosterShows, Callable
<1>10. ReadInv'
  <2>1. \A m \in Members : output'[m] \in Nat /\ output[m] <= output'[m]
    BY <1>1, Numbers DEF Inv
  <2> QED
    BY <1>1, <2>1, ReadersKept
<1> QED
  BY <1>4, <1>5, <1>6, <1>7, <1>8, <1>9, <1>10 DEF Inv, DataInv, ShowInv

-----------------------------------------------------------------------------
(* The turn of the task, and its posters *)

\* The steps of a turn that leave the data alone.
LEMMA TurnInv ==
  ASSUME Inv,
         \/ ExecTake \/ ExecPosters \/ ExecGive \/ Suspend
         \/ \E after \in BOOLEAN : PermanentUnlock(after)
  PROVE  Inv'
<1>1. /\ UNCHANGED <<act, input, output, served, replied, codel, poster, readVars>>
      /\ todo' \in SUBSET Members
  BY DEF ExecTake, ExecPosters, ExecGive, Suspend, PermanentUnlock, dataVars, Shown, Inv,
         TypeOK, TypePosters
<1>2. /\ turn # "unlocked" /\ turn' \in {"out", "codels", "unlocked", "posters", "suspended"}
      /\ left' \in SUBSET Slot /\ holder' \in {"none", "cntrl", "served", "task"}
      /\ holder' = "task" <=> turn' \in {"codels", "posters"}
      /\ turn' = "out" => turn = "posters" /\ todo = {}
      /\ turn' = "posters" => todo' = Members
  <2>1. /\ turn \in {"codels", "posters"} => holder = "task"
        /\ holder \in {"none", "cntrl", "served", "task"} /\ left \in SUBSET Slot
    BY DEF Inv, ShowInv, TurnLocked, TypeOK, TypeData, TypePosters
  <2>2. CASE ExecTake
    BY <2>1, <2>2 DEF ExecTake
  <2>3. CASE ExecPosters
    BY <2>1, <2>3 DEF ExecPosters, dataVars, Shown
  <2>4. CASE ExecGive
    BY <2>1, <2>4 DEF ExecGive
  <2>5. CASE Suspend
    BY <2>1, <2>5 DEF Suspend
  <2>6. ASSUME NEW after \in BOOLEAN, PermanentUnlock(after)
        PROVE  /\ turn = "codels" /\ turn' = "unlocked" /\ left' \in SUBSET Slot
               /\ holder' = "none"
    BY <2>1, <2>6 DEF PermanentUnlock
  <2> QED
    BY <2>2, <2>3, <2>4, <2>5, <2>6
<1>3. TypeOK'
  BY <1>1, <1>2 DEF readVars, Inv, TypeOK, TypeData, TypePosters
<1>4. DataInv'
  BY <1>1 DEF Inv, DataInv, InputHeld, RunsAlone, DoneIsEnded, OutputIsOwn, In, Zone
<1>5. TurnLocked'
  BY <1>1, <1>2 DEF TurnLocked, Inv, ShowInv
<1>6. PosterShows'
  BY <1>1, <1>2 DEF PosterShows, Inv, ShowInv
<1>7. ValuesGrow'
  BY <1>1 DEF ValuesGrow, Zone, Inv, ShowInv
<1>8. ReadInv'
  <2>1. \A m \in Members : output'[m] \in Nat /\ output[m] <= output'[m]
    BY <1>1, Numbers DEF Inv
  <2> QED
    BY <1>1, <2>1, ReadersKept
<1> QED
  BY <1>3, <1>4, <1>5, <1>6, <1>7, <1>8 DEF Inv, ShowInv

LEMMA PosterUpdateInv ==
  ASSUME Inv, PosterUpdate
  PROVE  Inv'
<1>1. PICK m \in todo :
        /\ turn = "posters"
        /\ poster' = [poster EXCEPT ![m] = output[m]]
        /\ todo' = todo \ {m}
        /\ UNCHANGED <<dataVars, turnVars, readVars>>
  BY DEF PosterUpdate
<1>2. m \in Members /\ m \in Zones /\ poster \in [Members -> Values] /\ output[m] \in Values
  BY PosterAssumption DEF Inv, TypeOK, TypeData, TypePosters
<1>3. TypeOK'
  BY <1>1, <1>2 DEF dataVars, turnVars, readVars, Inv, TypeOK, TypeData, TypePosters
<1>4. DataInv' /\ TurnLocked'
  BY <1>1 DEF dataVars, turnVars, Inv, DataInv, InputHeld, RunsAlone, DoneIsEnded, OutputIsOwn,
              In, Zone, ShowInv, TurnLocked
<1>5. \A n \in Members : poster'[n] = IF n = m THEN output[m] ELSE poster[n]
  BY <1>1, <1>2
<1>6. PosterShows'
  BY <1>1, <1>5 DEF dataVars, turnVars, PosterShows, Inv, ShowInv
<1>7. ValuesGrow'
  <2>1. output[m] <= output[m]
    BY <1>2 DEF Values
  <2> QED
    BY <1>1, <1>5, <2>1 DEF dataVars, ValuesGrow, Zone, Inv, ShowInv
<1>8. ReadInv'
  <2>1. \A n \in Members : output'[n] \in Nat /\ output[n] <= output'[n]
    BY <1>1, Numbers DEF dataVars, Inv
  <2> QED
    BY <1>1, <2>1, ReadersKept
<1> QED
  BY <1>3, <1>4, <1>6, <1>7, <1>8 DEF Inv, ShowInv

-----------------------------------------------------------------------------
(* Readers *)

LEMMA PosterStepInv ==
  ASSUME Inv, PosterStep
  PROVE  Inv'
<1>1. PICK q \in Readers :
        \/ PosterInit(q) \/ PosterRead(q) \/ InPosterRead(q)
        \/ \E m \in Members : MemberRead(q, m)
  BY DEF PosterStep
<1>2. UNCHANGED <<dataVars, turnVars, poster, todo>>
  BY <1>1 DEF PosterInit, PosterRead, InPosterRead, MemberRead, Has
<1>3. DataInv' /\ ShowInv' /\ TypeData'
  BY <1>2 DEF dataVars, turnVars, Inv, TypeOK, TypeData, DataInv, InputHeld, RunsAlone,
              DoneIsEnded, OutputIsOwn, In, Zone, ShowInv, TurnLocked, PosterShows, ValuesGrow
<1>4. \A m \in Members : poster[m] <= output[m] /\ poster[m] \in Values
  BY DEF Inv, ShowInv, ValuesGrow, TypeOK, TypePosters
<1>5. TypePosters' /\ ReadInv'
  <2>1. CASE PosterInit(q)
    <3>1. PICK order \in {Order(q), reader[q].order} :
            reader' = [reader EXCEPT ![q] = [id |-> TRUE, order |-> order]]
      BY <2>1 DEF PosterInit
    <3>2. order \in {"unset", Order(q)} /\ order \in {"unset", "own", "other"}
      BY DEF Inv, ReadInv, OrderIsTrue, Order
    <3>3. got' = got
      BY <2>1 DEF PosterInit
    <3>4. /\ reader' \in [Readers -> [id : BOOLEAN, order : {"unset", "own", "other"}]]
          /\ \A p \in Readers : reader'[p].order \in {"unset", Order(p)}
      BY <3>1, <3>2 DEF Inv, TypeOK, TypePosters, ReadInv, OrderIsTrue
    <3> QED
      BY <1>2, <3>3, <3>4 DEF dataVars, turnVars, TypePosters, Inv, TypeOK, ReadInv, OrderIsTrue,
                              Order, ReadIsComputed
  <2>2. ASSUME NEW data \in [Members -> Values], \A m \in Members : data[m] <= output[m],
               NEW local \in BOOLEAN, NEW known \in BOOLEAN, known => local,
               got' = [got EXCEPT ![q] = [data |-> data, local |-> local, known |-> known]],
               reader' = reader
        PROVE  TypePosters' /\ ReadInv'
    <3>1. OrderIsTrue'
      BY <2>2 DEF OrderIsTrue, Order, Inv, ReadInv
    <3>2. TypePosters' /\ ReadIsComputed'
      BY <1>2, <2>2 DEF dataVars, turnVars, TypePosters, Inv, TypeOK, ReadInv, ReadIsComputed
    <3> QED
      BY <3>1, <3>2 DEF ReadInv
  <2>3. ASSUME NEW data \in [Members -> Values], \A m \in Members : data[m] <= output[m],
               Has(q, data)
        PROVE  TypePosters' /\ ReadInv'
    <3>1. PICK local \in Swapped(q) :
            got' = [got EXCEPT ![q] = [data |-> data, local |-> local,
                                       known |-> reader[q].order # "unset"]]
      BY <2>3 DEF Has
    <3>2. local \in BOOLEAN /\ (reader[q].order # "unset" => local)
      BY DEF Swapped, Inv, ReadInv, OrderIsTrue
    <3>3. reader' = reader /\ (reader[q].order # "unset") \in BOOLEAN
      BY <2>3 DEF Has
    <3> QED
      BY <2>2, <2>3, <3>1, <3>2, <3>3
  <2>4. CASE PosterRead(q)
    BY <1>4, <2>3, <2>4 DEF PosterRead, Inv, TypeOK, TypePosters
  <2>5. CASE InPosterRead(q)
    BY <1>4, <2>2, <2>5 DEF InPosterRead, Inv, TypeOK, TypePosters
  <2>6. ASSUME NEW m \in Members, MemberRead(q, m)
        PROVE  TypePosters' /\ ReadInv'
    <3> DEFINE data == [got[q].data EXCEPT ![m] = poster[m]]
    <3>1. got[q] \in [data : [Members -> Values], local : BOOLEAN, known : BOOLEAN]
      BY DEF Inv, TypeOK, TypePosters
    <3>2. data \in [Members -> Values] /\ \A n \in Members : data[n] <= output[n]
      BY <1>4, <3>1 DEF Inv, ReadInv, ReadIsComputed
    <3> QED
      BY <2>3, <2>6, <3>2 DEF MemberRead
  <2> QED
    BY <1>1, <2>1, <2>4, <2>5, <2>6
<1> QED
  BY <1>3, <1>5 DEF Inv, TypeOK

LEMMA NextInv == Inv /\ [Next]_vars => Inv'
<1> SUFFICES ASSUME Inv, [Next]_vars PROVE Inv'
  OBVIOUS
<1>1. CASE Control
  BY <1>1, CntrlIntEvnExecInv, CntrlRequestInv, SpawnActivitiesInv DEF Control, Cycle
<1>2. CASE Task
  BY <1>2, ExecLockInv, TurnInv, PosterUpdateInv, ExecCodelInv, ExecUnlockInv DEF Task
<1>3. CASE PosterStep
  BY <1>3, PosterStepInv
<1>4. CASE UNCHANGED vars
  <2>1. TypeOK' /\ DataInv'
    BY <1>4 DEF vars, dataVars, turnVars, readVars, Inv, TypeOK, TypeData, TypePosters,
                DataInv, InputHeld, RunsAlone, DoneIsEnded, OutputIsOwn, In, Zone
  <2>2. ShowInv' /\ ReadInv'
    BY <1>4 DEF vars, dataVars, turnVars, readVars, Inv, ShowInv, TurnLocked, PosterShows,
                ValuesGrow, Zone, ReadInv, OrderIsTrue, Order, ReadIsComputed
  <2> QED
    BY <2>1, <2>2 DEF Inv
<1> QED
  BY <1>1, <1>2, <1>3, <1>4 DEF Next

-----------------------------------------------------------------------------
\* The invariant holds for every table, request set and poster.
THEOREM Invariant == Spec => []Inv
<1>1. Init => Inv
  BY InitInv
<1>2. Inv /\ [Next]_vars => Inv'
  BY NextInv
<1> QED
  BY <1>1, <1>2, PTL DEF Spec

\* The variables keep their types.
THEOREM TypeCorrect == Spec => []TypeOK
<1>1. Inv => TypeOK
  BY DEF Inv
<1> QED
  BY <1>1, Invariant, PTL

\* The codels of an activity find the input its own client sent, until it is
\* interrupted: the zone of a request that is not reentrant is written again only
\* by a request that interrupts the activity.
THEOREM InputIsOwnHolds == Spec => []InputIsOwn
<1>1. Inv => InputIsOwn
  BY DEF Inv, DataInv, InputHeld, InputIsOwn, In, Coming
<1> QED
  BY <1>1, Invariant, PTL

\* The final reply of an activity that ended by itself carries its own output:
\* those of its type that share its zone wait for it to be answered.
THEOREM OutputIsOwnHolds == Spec => []OutputIsOwn
<1>1. Inv => OutputIsOwn
  BY DEF Inv, DataInv
<1> QED
  BY <1>1, Invariant, PTL

\* A reader has only values the module computed, in its own byte order once it
\* knows that of the module.
THEOREM ReadIsComputedHolds == Spec => []ReadIsComputed
<1>1. Inv => ReadIsComputed
  BY DEF Inv, ReadInv
<1> QED
  BY <1>1, Invariant, PTL

\* The result of a request is in the poster before its client has the reply, when
\* the task has not given the SDIs in the middle of its turn.
THEOREM ReplyAfterPosterHolds == Spec => ReplyAfterPoster
<1> DEFINE Step == turn \notin {"unlocked", "suspended"} =>
                     \A i \in Slot : Answered(i) => ReplyShown(i)
<1>1. Inv /\ [Next]_vars => Step
  <2> SUFFICES ASSUME Inv, [Next]_vars, turn \notin {"unlocked", "suspended"}, NEW i \in Slot,
                      act[i].state = "ended", act[i].done, act'[i].state = "ether",
                      Zone(act[i].type, i) \in Members
               PROVE  [type |-> act[i].type, rqst |-> act[i].rqst, done |-> TRUE,
                       out |-> poster[Zone(act[i].type, i)]] \in replied'
    BY DEF Answered, ReplyShown
  <2>1. act \in [Slot -> Activity]
    BY DEF Inv, TypeOK, TypeData
  <2>2. act[i].done = TRUE
    BY <2>1 DEF Activity
  <2>3. ASSUME holder # "task", NEW over \in SUBSET Slot, i \in over, SendFinalReply(over)
        PROVE  [type |-> act[i].type, rqst |-> act[i].rqst, done |-> TRUE,
                out |-> poster[Zone(act[i].type, i)]] \in replied'
    <3>1. turn = "out"
      BY <2>3 DEF Inv, TypeOK, TypePosters, ShowInv, TurnLocked
    <3>2. poster[Zone(act[i].type, i)] = output[Zone(act[i].type, i)]
      BY <3>1 DEF Inv, ShowInv, PosterShows
    <3> QED
      BY <2>2, <2>3, <3>2 DEF SendFinalReply
  <2>4. CASE CntrlIntEvnExec
    BY <2>3, <2>4 DEF CntrlIntEvnExec, In
  <2>5. ASSUME NEW j \in Slot, NEW r \in Types, CntrlRequest(j, r)
        PROVE  [type |-> act[i].type, rqst |-> act[i].rqst, done |-> TRUE,
                out |-> poster[Zone(act[i].type, i)]] \in replied'
    <3> DEFINE hit == {k \in Slot \ In({"ether"}) : act[k].type \in Incompatible[r]}
               over == hit \cap In({"wait", "start", "ended"})
    <3>1. SendFinalReply(over) /\ holder = "cntrl" /\ over \in SUBSET Slot
      BY <2>5 DEF CntrlRequest
    <3>2. i \in over
      <4>1. act'[i] = CASE i = j -> [type |-> r, rqst |-> served + 1, state |-> "wait",
                                     incomp |-> hit \ over, done |-> FALSE]
                        [] i \in over -> freeActivity(act[i])
                        [] i \in hit \ over -> [act[i] EXCEPT !.state = "inter"]
                        [] OTHER -> act[i]
        BY <2>5 DEF CntrlRequest
      <4>2. i # j /\ i \notin hit \ over
        BY <2>1, <2>5 DEF CntrlRequest, In
      <4> HIDE DEF hit, over
      <4> QED
        BY <4>1, <4>2
    <3> HIDE DEF over
    <3> QED
      BY <2>3, <3>1, <3>2
  <2>6. CASE SpawnActivities
    BY <2>6 DEF SpawnActivities
  <2>7. ASSUME NEW j \in Slot, ExecCodel(j) \/ ExecUnlock(j)
        PROVE  FALSE
    <3>1. act[j].state \in Callable /\ j # i
      BY <2>7 DEF ExecCodel, ExecUnlock, ComesTo, In, Callable
    <3>2. act'[i] = act[i]
      BY <2>1, <2>7, <3>1 DEF ExecCodel, ExecUnlock, execTaskCallUserFunc
    <3> QED
      BY <3>2
  <2>8. CASE \/ ExecTake \/ ExecPosters \/ PosterUpdate \/ ExecGive \/ Suspend
             \/ \E after \in BOOLEAN : PermanentUnlock(after)
             \/ PosterStep \/ UNCHANGED vars
    BY <2>8 DEF ExecTake, ExecPosters, PosterUpdate, ExecGive, Suspend, PermanentUnlock,
                PosterStep, PosterInit, PosterRead, InPosterRead, MemberRead, Has, dataVars,
                vars
  <2>9. CASE ExecLock
    BY <2>9 DEF ExecLock
  <2> QED
    BY <2>4, <2>5, <2>6, <2>7, <2>8, <2>9 DEF Next, Control, Task
<1> QED
  BY <1>1, Invariant, PTL DEF Spec, ReplyAfterPoster
=============================================================================
