------------------------ MODULE ActivityServiceProofs ------------------------
(***************************************************************************)
(* Proofs about ActivityService: its types, that two launched activities   *)
(* never conflict, and that a request has one fate, for any number of      *)
(* requests and any incompatibilities between request types.               *)
(***************************************************************************)
EXTENDS ActivityService, TLAPS

\* Requests are numbered in the order in which they are received.
Ages == \A a \in waiting \cup running : a.rqst <= received

\* A waiting activity conflicts with no newer one, which would have ended it.
WaitersSpared ==
  \A a \in waiting, b \in waiting \cup running :
    a.rqst < b.rqst => a.type \notin Incompatible[b.type]

\* The sets of the service hold what they should, in every reachable state.
THEOREM TypeCorrect == Spec => []TypeOK
<1> USE ServiceAssumption
<1>1. Init => TypeOK
  BY DEF Init, TypeOK
<1>2. TypeOK /\ [Next]_vars => TypeOK'
  <2> SUFFICES ASSUME TypeOK, [Next]_vars PROVE TypeOK'
    OBVIOUS
  <2> USE DEF TypeOK, Activities, RqstIds, Rqsts, Conflicts
  <2>1. ASSUME NEW r \in RqstIds, NEW x \in ExecRqsts, NEW E \in SUBSET running,
               Admit(r, x, E)
        PROVE TypeOK'
    <3>1. Receive(r)
      BY <2>1 DEF Admit
    <3>2. received' \in 0 .. MaxRqst
      BY <3>1 DEF Receive
    <3>3. waiting' \subseteq Activities /\ running' \subseteq Activities
      BY <2>1 DEF Admit
    <3>4. answered' \subseteq RqstIds /\ frozen' = frozen /\ closing' = closing
      BY <2>1 DEF Admit
    <3> QED BY <3>2, <3>3, <3>4
  <2>2. ASSUME NEW r \in RqstIds, NEW S \in SUBSET (waiting \cup running),
               NEW F \in SUBSET frozen, Reply(r, S, F)
        PROVE TypeOK'
    <3>1. received' \in 0 .. MaxRqst
      BY <2>2 DEF Reply, Receive
    <3>2. waiting' \subseteq Activities /\ running' \subseteq Activities
      BY <2>2 DEF Reply
    <3>3. answered' \subseteq RqstIds /\ frozen' \subseteq RqstIds /\ closing' = closing
      BY <2>2 DEF Reply
    <3> QED BY <3>1, <3>2, <3>3
  <2>3. ASSUME NEW r \in RqstIds, End(r) PROVE TypeOK'
    BY <2>3 DEF End, Receive
  <2>4. ASSUME NEW S \in SUBSET waiting, Launch(S) PROVE TypeOK'
    BY <2>4 DEF Launch
  <2>5. ASSUME NEW E \in SUBSET running, NEW F \in SUBSET running, Finish(E, F)
        PROVE TypeOK'
    BY <2>5 DEF Finish
  <2>6. ASSUME Exit PROVE TypeOK'
    BY <2>6 DEF Exit
  <2>7. ASSUME UNCHANGED vars PROVE TypeOK'
    BY <2>7 DEF vars
  <2> QED
    BY <2>1, <2>2, <2>3, <2>4, <2>5, <2>6, <2>7 DEF Next
<1> QED
  BY <1>1, <1>2, PTL DEF Spec

\* No two launched activities of the service are incompatible: the newer of the
\* two was launched only once the older was over.
THEOREM NoConflictHolds == Spec => []NoConflict
<1> DEFINE Inv == Ages /\ WaitersSpared /\ NoConflict
<1>1. Init => Inv
  BY DEF Init, Ages, WaitersSpared, NoConflict
<1>2. Inv /\ TypeOK /\ [Next]_vars => Inv'
  <2> SUFFICES ASSUME Inv, TypeOK, [Next]_vars PROVE Inv'
    OBVIOUS
  <2> USE DEF TypeOK, Activities, RqstIds, Ages, WaitersSpared, NoConflict
  <2> USE ServiceAssumption
  <2>1. ASSUME NEW r \in RqstIds, NEW x \in ExecRqsts, NEW E \in SUBSET running,
               Admit(r, x, E)
        PROVE Inv'
    <3> DEFINE new == [rqst |-> r, type |-> x]
    <3>1. r = received + 1 /\ received' = r
      BY <2>1 DEF Admit, Receive
    <3>2. \A a \in waiting' : a = new \/ (a \in waiting /\ a.type \notin Incompatible[x])
      BY <2>1 DEF Admit, Conflicts
    <3>3. running' \subseteq running
      BY <2>1 DEF Admit
    <3>4. Ages'
      BY <3>1, <3>2, <3>3
    <3>5. WaitersSpared'
      <4> SUFFICES ASSUME NEW a \in waiting', NEW b \in waiting' \cup running',
                          a.rqst < b.rqst
                   PROVE a.type \notin Incompatible[b.type]
        OBVIOUS
      <4>1. CASE a = new
        <5>1. b.rqst \in Nat /\ b.rqst <= r /\ a.rqst = r
          BY <4>1, <3>1, <3>2, <3>3
        <5> QED BY <5>1
      <4>2. CASE a # new /\ b = new
        BY <4>2, <3>2
      <4>3. CASE a # new /\ b # new
        BY <4>3, <3>2, <3>3
      <4> QED BY <4>1, <4>2, <4>3
    <3>6. NoConflict'
      BY <3>3
    <3> QED BY <3>4, <3>5, <3>6
  <2>2. ASSUME NEW r \in RqstIds, NEW S \in SUBSET (waiting \cup running),
               NEW F \in SUBSET frozen, Reply(r, S, F)
        PROVE Inv'
    <3>1. waiting' \subseteq waiting /\ running' \subseteq running
      BY <2>2 DEF Reply
    <3>2. received' = received + 1
      BY <2>2 DEF Reply, Receive
    <3> QED BY <3>1, <3>2
  <2>3. ASSUME NEW r \in RqstIds, End(r) PROVE Inv'
    BY <2>3 DEF End, Receive
  <2>4. ASSUME NEW S \in SUBSET waiting, Launch(S) PROVE Inv'
    <3>1. waiting' \subseteq waiting /\ running' = running \cup S /\ received' = received
      BY <2>4 DEF Launch
    <3>2. Ages'
      BY <3>1
    <3>3. WaitersSpared'
      BY <3>1
    <3>4. NoConflict'
      <4> SUFFICES ASSUME NEW a \in running', NEW b \in running', b.rqst < a.rqst
                   PROVE b.type \notin Incompatible[a.type]
        OBVIOUS
      <4>1. CASE b \in S
        BY <4>1, <3>1
      <4>2. CASE a \in S /\ b \in running
        BY <4>2, <2>4 DEF Launch
      <4>3. CASE a \in running /\ b \in running
        BY <4>3
      <4> QED BY <4>1, <4>2, <4>3, <3>1
    <3> QED BY <3>2, <3>3, <3>4
  <2>5. ASSUME NEW E \in SUBSET running, NEW F \in SUBSET running, Finish(E, F)
        PROVE Inv'
    BY <2>5 DEF Finish
  <2>6. ASSUME Exit PROVE Inv'
    BY <2>6 DEF Exit
  <2>7. ASSUME UNCHANGED vars PROVE Inv'
    BY <2>7 DEF vars
  <2> QED
    BY <2>1, <2>2, <2>3, <2>4, <2>5, <2>6, <2>7 DEF Next
<1>3. Inv => NoConflict
  OBVIOUS
<1> QED
  BY <1>1, <1>2, <1>3, TypeCorrect, PTL DEF Spec
-----------------------------------------------------------------------------
Held == waiting \cup running

\* A request is held by one activity, that waits or is launched.
OneActivity ==
  /\ \A a, b \in Held : a.rqst = b.rqst => a = b
  /\ waiting \cap running = {}

\* Only requests that were received are answered or end the module.
OnlyReceived == answered \subseteq 1 .. received /\ closing <= received

\* A module that ends has no activity.
ClosingAlone == closing # 0 => Held = {}

Fates == Ages /\ OneActivity /\ OnlyReceived /\ ClosingAlone /\ OneFate

\* When some activities go and exactly their requests are answered, the requests
\* received before have one fate still, whoever moved from waiting to running.
LEMMA LeaversAnswered ==
  ASSUME Fates, TypeOK, closing' = closing,
         NEW G \in SUBSET Held, NEW N,
         \A a \in N : a.rqst > received,
         waiting' \cup running' = (Held \ G) \cup N,
         waiting' \cap running' = {},
         NEW A, \A q \in A : q > received,
         answered' = answered \cup Rqsts(G) \cup A,
         NEW r \in 1 .. received,
         \A a, b \in waiting' \cup running' : a.rqst = b.rqst => a = b
  PROVE  /\ r \in answered' <=> r \notin Rqsts(waiting' \cup running') \cup {closing'}
         /\ r \in Rqsts(waiting') => r \notin Rqsts(running')
<1> USE DEF TypeOK, Activities, RqstIds, Rqsts, Fates, OneActivity, Held
<1>1. r \notin A /\ \A a \in N : a.rqst # r
  OBVIOUS
<1>2. r \in Rqsts(G) <=> r \in Rqsts(Held) /\ r \notin Rqsts(Held \ G)
  OBVIOUS
<1>3. r \in Rqsts(waiting' \cup running') <=> r \in Rqsts(Held \ G)
  BY <1>1
<1>4. r \in answered' <=> r \in answered \/ r \in Rqsts(G)
  BY <1>1
<1>5. r \in answered <=> r \notin Rqsts(Held) \cup {closing}
  BY DEF OneFate
<1>6. r \in Rqsts(Held) => r # closing
  BY DEF ClosingAlone
<1>7. r \in Rqsts(waiting') => r \notin Rqsts(running')
  OBVIOUS
<1> QED
  BY <1>2, <1>3, <1>4, <1>5, <1>6, <1>7

\* Every request received has one fate at any time: it waits, runs, was answered,
\* or is the End request that the module answers when it exits.
THEOREM OneFateHolds == Spec => []OneFate
<1>1. Init => Fates
  BY DEF Init, Fates, Ages, OneActivity, OnlyReceived, ClosingAlone, OneFate, Held, Rqsts
<1>2. Fates /\ TypeOK /\ TypeOK' /\ [Next]_vars => Fates'
  <2> SUFFICES ASSUME Fates, TypeOK, TypeOK', [Next]_vars PROVE Fates'
    OBVIOUS
  <2> USE DEF TypeOK, Activities, RqstIds
  <2> USE ServiceAssumption
  <2>1. ASSUME NEW r \in RqstIds, NEW x \in ExecRqsts, NEW E \in SUBSET running,
               Admit(r, x, E)
        PROVE Fates'
    <3> DEFINE new == [rqst |-> r, type |-> x]
               G == Conflicts(waiting, x) \cup E
    <3>1. r = received + 1 /\ received' = r /\ closing' = 0 /\ closing = 0
      BY <2>1 DEF Admit, Receive
    <3>2. G \subseteq Held /\ waiting' \cup running' = (Held \ G) \cup {new}
      BY <2>1 DEF Admit, Conflicts, Held, Fates, OneActivity
    <3>3. new.rqst = r /\ \A a \in Held : a.rqst <= received
      BY DEF Fates, Ages, Held
    <3>4. Ages' /\ ClosingAlone' /\ OneActivity'
      <4>1. waiting' \cap running' = {}
        BY <2>1, <3>1, <3>3 DEF Admit, Held, Fates, OneActivity
      <4>2. Ages'
        BY <3>1, <3>2, <3>3 DEF Ages
      <4>3. \A a, b \in waiting' \cup running' : a.rqst = b.rqst => a = b
        BY <3>1, <3>2, <3>3 DEF Fates, OneActivity, Held
      <4> QED BY <4>1, <4>2, <4>3, <3>1 DEF OneActivity, ClosingAlone, Held
    <3>5. answered' = answered \cup Rqsts(G) \cup {}
      BY <2>1 DEF Admit
    <3>6. r \notin answered' /\ OnlyReceived'
      BY <3>1, <3>2, <3>3, <3>5 DEF Fates, OnlyReceived, Rqsts
    <3>7. new \in waiting' /\ \A a \in running' : a.rqst # r
      BY <2>1, <3>1, <3>3 DEF Admit, Held
    <3>8. r \in Rqsts(waiting') /\ r \notin Rqsts(running')
      BY <3>3, <3>7 DEF Rqsts
    <3>9. r \in Rqsts(waiting' \cup running')
      BY <3>8 DEF Rqsts
    <3>10. OneFate'
      <4> SUFFICES ASSUME NEW q \in 1 .. received'
                   PROVE /\ q \in answered' <=> q \notin Rqsts(waiting' \cup running') \cup {closing'}
                         /\ q \in Rqsts(waiting') => q \notin Rqsts(running')
        BY DEF OneFate, Rqsts
      <4>1. CASE q = r
        BY <4>1, <3>6, <3>8, <3>9
      <4>2. CASE q # r
        <5>1. q \in 1 .. received
          BY <4>2, <3>1
        <5>2. \A a \in {new} : a.rqst > received
          BY <3>1, <3>3
        <5> HIDE DEF new, G
        <5> QED
          BY <5>1, <5>2, <3>1, <3>2, <3>4, <3>5, LeaversAnswered DEF OneActivity, Held
      <4> QED BY <4>1, <4>2
    <3> QED BY <3>4, <3>6, <3>10 DEF Fates
  <2>2. ASSUME NEW r \in RqstIds, NEW S \in SUBSET (waiting \cup running),
               NEW F \in SUBSET frozen, Reply(r, S, F)
        PROVE Fates'
    <3>1. r = received + 1 /\ received' = r /\ closing' = 0 /\ closing = 0
      BY <2>2 DEF Reply, Receive
    <3>2. S \subseteq Held /\ waiting' \cup running' = (Held \ S) \cup {}
      BY <2>2 DEF Reply, Held
    <3>3. \A a \in Held : a.rqst <= received
      BY DEF Fates, Ages, Held
    <3>4. Ages' /\ ClosingAlone' /\ OneActivity'
      BY <2>2, <3>1, <3>2, <3>3 DEF Reply, Ages, ClosingAlone, Fates, OneActivity, Held
    <3>5. answered' = answered \cup Rqsts(S) \cup {r}
      BY <2>2 DEF Reply
    <3>6. r \in answered' /\ OnlyReceived'
      BY <3>1, <3>2, <3>3, <3>5 DEF Fates, OnlyReceived, Rqsts
    <3>7. r \notin Rqsts(waiting' \cup running') /\ r \notin Rqsts(waiting')
      BY <3>1, <3>2, <3>3 DEF Rqsts
    <3>8. OneFate'
      <4> SUFFICES ASSUME NEW q \in 1 .. received'
                   PROVE /\ q \in answered' <=> q \notin Rqsts(waiting' \cup running') \cup {closing'}
                         /\ q \in Rqsts(waiting') => q \notin Rqsts(running')
        BY DEF OneFate, Rqsts
      <4>1. CASE q = r
        BY <4>1, <3>1, <3>6, <3>7
      <4>2. CASE q # r
        <5>1. q \in 1 .. received
          BY <4>2, <3>1
        <5> DEFINE A == {r}
        <5>2. \A p \in A : p > received
          BY <3>1
        <5>3. \A a \in {} : a.rqst > received
          OBVIOUS
        <5>4. closing' = closing
          BY <3>1
        <5>5. /\ waiting' \cap running' = {}
              /\ \A a, b \in waiting' \cup running' : a.rqst = b.rqst => a = b
          BY <3>4 DEF OneActivity, Held
        <5>6. S \in SUBSET Held
          BY <3>2
        <5>7. answered' = answered \cup Rqsts(S) \cup A
          BY <3>5
        <5> HIDE DEF TypeOK, Activities, RqstIds, A
        <5> QED
          BY <5>1, <5>2, <5>3, <5>4, <5>5, <5>6, <5>7, <3>2, LeaversAnswered
      <4> QED BY <4>1, <4>2
    <3> QED BY <3>4, <3>6, <3>8 DEF Fates
  <2>3. ASSUME NEW r \in RqstIds, End(r) PROVE Fates'
    BY <2>3 DEF End, Receive, Fates, Ages, OneActivity, OnlyReceived, ClosingAlone,
                OneFate, Held, Rqsts
  <2>4. ASSUME NEW S \in SUBSET waiting, Launch(S) PROVE Fates'
    <3>1. waiting' \cup running' = (Held \ {}) \cup {} /\ Held' = Held
      BY <2>4 DEF Launch, Held
    <3>2. waiting' \cap running' = {}
      BY <2>4 DEF Launch, Fates, OneActivity
    <3>3. UNCHANGED <<answered, received, closing>>
      BY <2>4 DEF Launch
    <3>4. Ages' /\ ClosingAlone' /\ OneActivity' /\ OnlyReceived'
      BY <3>1, <3>2, <3>3
         DEF Fates, Ages, ClosingAlone, OneActivity, OnlyReceived, Held
    <3>5. OneFate'
      BY <3>1, <3>2, <3>3, <3>4
         DEF Fates, OneFate, OneActivity, Held, Rqsts
    <3> QED BY <3>4, <3>5 DEF Fates
  <2>5. ASSUME NEW E \in SUBSET running, NEW F \in SUBSET running, Finish(E, F)
        PROVE Fates'
    <3> DEFINE G == E \cup F
    <3>1. /\ waiting' = waiting /\ running' = running \ G
          /\ received' = received /\ closing' = closing
          /\ answered' = answered \cup Rqsts(G) \cup {}
      BY <2>5 DEF Finish
    <3>2. G \subseteq Held /\ waiting' \cup running' = (Held \ G) \cup {}
      BY <3>1 DEF Held, Fates, OneActivity
    <3>3. Ages' /\ ClosingAlone' /\ OneActivity'
      BY <3>1, <3>2 DEF Fates, Ages, ClosingAlone, OneActivity, Held
    <3>4. OnlyReceived'
      BY <3>1, <3>2 DEF Fates, Ages, OnlyReceived, Held, Rqsts
    <3>5. OneFate'
      <4> SUFFICES ASSUME NEW q \in 1 .. received'
                   PROVE /\ q \in answered' <=> q \notin Rqsts(waiting' \cup running') \cup {closing'}
                         /\ q \in Rqsts(waiting') => q \notin Rqsts(running')
        BY DEF OneFate, Rqsts
      <4>1. q \in 1 .. received /\ \A a \in {} : a.rqst > received
        BY <3>1
      <4>2. \A p \in {} : p > received
        OBVIOUS
      <4> HIDE DEF G
      <4> QED
        BY <4>1, <4>2, <3>1, <3>2, <3>3, LeaversAnswered DEF OneActivity, Held
    <3> QED BY <3>3, <3>4, <3>5 DEF Fates
  <2>6. ASSUME Exit PROVE Fates'
    <3>1. Held = {} /\ Held' = {}
      BY <2>6 DEF Exit, Fates, ClosingAlone, Held
    <3>2. Rqsts(waiting \cup running) = {} /\ Rqsts(waiting' \cup running') = {}
      BY <3>1 DEF Held, Rqsts
    <3>3. Ages' /\ ClosingAlone' /\ OneActivity' /\ OnlyReceived'
      BY <3>1, <2>6 DEF Exit, Fates, Ages, ClosingAlone, OneActivity, OnlyReceived, Held
    <3>4. OneFate'
      BY <3>1, <3>2, <2>6 DEF Exit, Fates, OneFate, OnlyReceived, Held, Rqsts
    <3> QED BY <3>3, <3>4 DEF Fates
  <2>7. ASSUME UNCHANGED vars PROVE Fates'
    BY <2>7 DEF vars, Fates, Ages, OneActivity, OnlyReceived, ClosingAlone, OneFate, Held,
                Rqsts
  <2> QED
    BY <2>1, <2>2, <2>3, <2>4, <2>5, <2>6, <2>7 DEF Next
<1>3. Fates => OneFate
  BY DEF Fates
<1> QED
  BY <1>1, <1>2, <1>3, TypeCorrect, PTL DEF Spec
=============================================================================
