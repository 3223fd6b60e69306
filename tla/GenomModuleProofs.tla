-------------------------- MODULE GenomModuleProofs --------------------------
(***************************************************************************)
(* Proofs about GenomModule, for any number of tasks, slots, request       *)
(* types and requests, whatever the codels return: the types of the state; *)
(* incompatible activities never run together and the init request comes   *)
(* first; the counters of the control task are exact, a number designates  *)
(* one activity and waiting activities wait in no circle.                  *)
(***************************************************************************)
EXTENDS GenomModule, FiniteSetTheorems, SequenceTheorems, TLAPS

ReplyRecords == [rqst : Int, reply : Replies]

LEMMA CardinalityType ==
  ASSUME NEW S \in SUBSET Slots
  PROVE  Cardinality(S) \in Nat
<1>1. IsFiniteSet(Slots)
  <2>1. 0 \in Int /\ MaxActivities - 1 \in Int
    BY ConstantsAssumption
  <2> QED BY <2>1, FS_Interval DEF Slots
<1>2. IsFiniteSet(S)
  BY <1>1, FS_Subset
<1> QED
  BY <1>2, FS_CardinalityType

LEMMA RepliedType ==
  ASSUME replies \in [RqstIds -> Seq(Replies)],
         NEW R \in SUBSET ReplyRecords
  PROVE  Replied(R) \in [RqstIds -> Seq(Replies)]
<1> SUFFICES ASSUME NEW r \in RqstIds
             PROVE  Replied(R)[r] \in Seq(Replies)
  BY DEF Replied
<1>1. CASE \E m \in R : m.rqst = r
  <2> DEFINE m == CHOOSE m \in R : m.rqst = r
  <2>1. m \in R
    BY <1>1
  <2>2. m.reply \in Replies
    BY <2>1 DEF ReplyRecords
  <2>3. Replied(R)[r] = Append(replies[r], m.reply)
    BY <1>1 DEF Replied
  <2> HIDE DEF m
  <2> QED BY <2>2, <2>3
<1>2. CASE ~ \E m \in R : m.rqst = r
  BY <1>2 DEF Replied
<1> QED BY <1>1, <1>2

LEMMA SignalledType ==
  ASSUME signal \in [Tasks \cup {Cntrl} -> BOOLEAN], NEW S
  PROVE  Signalled(S) \in [Tasks \cup {Cntrl} -> BOOLEAN]
BY DEF Signalled

LEMMA FinalReplyType ==
  ASSUME NEW a \in Activity
  PROVE  FinalReply(a) \in Finals
BY DEF FinalReply, Activity, Bilans, Finals, Refusals

LEMMA FinalRepliesType ==
  ASSUME TypeSDI, NEW S \in SUBSET Slots
  PROVE  FinalReplies(S) \in SUBSET ReplyRecords
<1> SUFFICES ASSUME NEW i \in S
             PROVE  [rqst |-> act[i].rqst, reply |-> FinalReply(act[i])] \in ReplyRecords
  BY DEF FinalReplies
<1>1. act[i] \in Activity
  BY DEF TypeSDI
<1>2. act[i].rqst \in Int
  BY <1>1 DEF Activity
<1>3. FinalReply(act[i]) \in Replies
  BY <1>1, FinalReplyType DEF Replies
<1> QED BY <1>2, <1>3 DEF ReplyRecords

\* An activity to which some event, state or task is given is still one.
LEMMA FreedType ==
  ASSUME NEW a \in Activity
  PROVE  Freed(a) \in Activity
BY DEF Freed, Activity, States, Events

LEMMA AbortTableType ==
  ASSUME TypeSDI, NEW S \in SUBSET Slots
  PROVE  AbortTable(S) \in [Slots -> Activity]
<1> SUFFICES ASSUME NEW i \in Slots
             PROVE  AbortTable(S)[i] \in Activity
  BY DEF AbortTable
<1>1. act[i] \in Activity
  BY DEF TypeSDI
<1>2. [act[i] EXCEPT !.evn = "INTER"] \in Activity
  BY <1>1 DEF Activity, Events, States, CodelStates
<1> QED
  BY <1>1, <1>2, FreedType DEF AbortTable

LEMMA FreeCountersType ==
  ASSUME TypeSDI, NEW S \in SUBSET Slots, FreeCounters(S)
  PROVE  nbActivities' \in Int /\ taskNbActi' \in [Tasks -> Int]
<1>1. nbActivities' \in Int
  BY CardinalityType DEF FreeCounters, TypeSDI
<1>2. ASSUME NEW t \in Tasks
      PROVE  taskNbActi[t] - Cardinality({i \in S : act[i].task = t}) \in Int
  <2>1. {i \in S : act[i].task = t} \in SUBSET Slots
    OBVIOUS
  <2> QED BY <2>1, CardinalityType DEF TypeSDI
<1> QED
  BY <1>1, <1>2 DEF FreeCounters

LEMMA NewActivityType ==
  ASSUME TypeOK, NEW x \in ExecRqsts, NEW r \in RqstIds, NEW I \in SUBSET Slots
  PROVE  NewActivity(x, r, I) \in Activity
BY ConstantsAssumption
   DEF NewActivity, Activity, States, CodelStates, Events, Bilans, RqstIds, TypeOK,
       TypeCntrl

LEMMA ServeType ==
  ASSUME TypeOK, NEW r \in RqstIds, Serve(r), nbSent' = nbSent
  PROVE  nbSent' \in 0 .. MaxRqst /\ nbRcvd' \in 0 .. nbSent'
BY ConstantsAssumption DEF TypeOK, TypeSDI, Serve, RqstIds

-----------------------------------------------------------------------------
(* Types *)

LEMMA InitTypes == Init => TypeOK
<1> SUFFICES ASSUME Init PROVE TypeOK
  OBVIOUS
<1> USE DEF Init
<1>0. MaxRqst \in Nat /\ MaxActivities \in Nat /\ InitRqst \in ExecRqsts \cup {NoRqst}
  BY ConstantsAssumption
<1>1. TypeSDI
  <2>1. act \in [Slots -> Activity]
    BY ConstantsAssumption
       DEF InitSDI, Activity, States, CodelStates, Events, Bilans
  <2>2. replies \in [RqstIds -> Seq(Replies)]
    BY DEF InitSDI
  <2>3. signal \in [Tasks \cup {Cntrl} -> BOOLEAN]
    BY DEF InitSDI
  <2>4. stopModule \in BOOLEAN /\ sdiFree \in BOOLEAN
        /\ suspending \subseteq Tasks /\ suspended \subseteq Tasks
    BY Zenon DEF InitSDI
  <2>5. nbActivities \in Int /\ taskNbActi \in [Tasks -> Int]
    BY DEF InitSDI
  <2>6. taskStatus \in [Tasks -> BOOLEAN] /\ wakeUp \in [Tasks -> BOOLEAN]
    BY DEF InitSDI
  <2>7. /\ initRqst \in ExecRqsts \cup {NoRqst}
        /\ nbSent \in 0 .. MaxRqst /\ nbRcvd \in 0 .. nbSent
    BY <1>0 DEF InitSDI
  <2> QED
    BY <2>1, <2>2, <2>3, <2>4, <2>5, <2>6, <2>7 DEF TypeSDI
<1>2. TypeCntrl
  <2>1. nbZombie \in Int /\ lastId \in Int /\ endRqst \in 0 .. MaxRqst
    BY <1>0 DEF InitCntrl
  <2>2. signalAbort \in BOOLEAN /\ awaited \subseteq Tasks /\ cntrlPc = "susp"
    BY Zenon DEF InitCntrl
  <2>3. lastActivity \in Slots \cup {-1}
    BY DEF InitCntrl
  <2> QED
    BY <2>1, <2>2, <2>3 DEF TypeCntrl
<1>3. TypeExec
  BY <1>0 DEF InitExec, TypeExec, Idle
<1> QED
  BY <1>1, <1>2, <1>3 DEF TypeOK

LEMMA AbortAndAnswerTypes ==
  ASSUME TypeOK, NEW S \in SUBSET Slots, NEW r \in RqstIds, NEW b \in Finals,
         Serve(r), AbortAndAnswer(S, r, b), UNCHANGED exec
  PROVE  TypeOK'
<1> USE DEF AbortAndAnswer, aside, kept, halts, endVars
<1>1. Ended(S) \in SUBSET Slots /\ Ended(S) \cap Zombie \in SUBSET Slots
  BY DEF Ended
<1>2. act' \in [Slots -> Activity]
  BY AbortTableType DEF TypeOK
<1>3. nbActivities' \in Int /\ taskNbActi' \in [Tasks -> Int]
  BY <1>1, FreeCountersType DEF TypeOK
<1>4. nbZombie' \in Int
  BY <1>1, CardinalityType DEF TypeOK, TypeCntrl
<1>5. replies' \in [RqstIds -> Seq(Replies)]
  <2>1. AbortReplies(S) \in SUBSET ReplyRecords
    BY <1>1, FinalRepliesType DEF AbortReplies, TypeOK
  <2>2. [rqst |-> r, reply |-> b] \in ReplyRecords
    BY DEF ReplyRecords, Replies, RqstIds
  <2> QED
    BY <2>1, <2>2, RepliedType DEF TypeOK, TypeSDI
<1>6. signal' \in [Tasks \cup {Cntrl} -> BOOLEAN]
  BY SignalledType DEF TypeOK, TypeSDI
<1>7. TypeSDI'
  BY <1>2, <1>3, <1>5, <1>6, ServeType DEF TypeOK, TypeSDI
<1>8. TypeCntrl'
  BY <1>4 DEF TypeOK, TypeCntrl
<1> QED
  BY <1>7, <1>8 DEF TypeOK, TypeExec

LEMMA AnswerTypes ==
  ASSUME TypeOK, NEW r \in RqstIds, NEW b \in Finals, Serve(r), Answer(r, b),
         UNCHANGED exec
  PROVE  TypeOK'
<1> USE DEF Answer, aside, kept, halts, endVars
<1>1. replies' \in [RqstIds -> Seq(Replies)]
  <2>1. {[rqst |-> r, reply |-> b]} \in SUBSET ReplyRecords
    BY DEF ReplyRecords, Replies, RqstIds
  <2> QED
    BY <2>1, RepliedType DEF TypeOK, TypeSDI
<1>2. TypeSDI'
  BY <1>1, ServeType DEF TypeOK, TypeSDI
<1>3. TypeCntrl'
  BY DEF TypeOK, TypeCntrl
<1> QED
  BY <1>2, <1>3 DEF TypeOK, TypeExec

LEMMA RqstExecTypes ==
  ASSUME TypeOK, NEW x \in ExecRqsts, NEW r \in RqstIds, NEW s \in Slots,
         RqstExec(x, r, s), UNCHANGED exec
  PROVE  TypeOK'
<1> DEFINE S == Targets(x)
           E == Ended(S)
<1> USE DEF aside, kept, halts, endVars
<1>1. S \in SUBSET Slots /\ E \in SUBSET Slots /\ E \cap Zombie \in SUBSET Slots
  BY DEF Targets, Live, Ended
<1>2. act' \in [Slots -> Activity]
  <2>1. AbortTable(S) \in [Slots -> Activity]
    BY <1>1, AbortTableType DEF TypeOK
  <2>2. NewActivity(x, r, S \ E) \in Activity
    BY <1>1, NewActivityType
  <2>3. act' = [AbortTable(S) EXCEPT ![s] = NewActivity(x, r, S \ E)]
    BY DEF RqstExec
  <2> QED
    BY <2>1, <2>2, <2>3
<1>3. nbActivities' \in Int
  <2>1. Cardinality(E) \in Nat
    BY <1>1, CardinalityType
  <2>2. nbActivities' = nbActivities + 1 - Cardinality(E)
    BY DEF RqstExec
  <2> QED
    BY <2>1, <2>2 DEF TypeOK, TypeSDI
<1>4. taskNbActi' \in [Tasks -> Int]
  <2>1. ASSUME NEW t \in Tasks
        PROVE  taskNbActi[t] + (IF t = TaskOf[x] THEN 1 ELSE 0)
                 - Cardinality({i \in E : act[i].task = t}) \in Int
    <3>1. {i \in E : act[i].task = t} \in SUBSET Slots
      BY <1>1
    <3>2. Cardinality({i \in E : act[i].task = t}) \in Nat
      BY <3>1, CardinalityType
    <3>3. taskNbActi[t] \in Int
      BY DEF TypeOK, TypeSDI
    <3> HIDE DEF E
    <3> QED BY <3>2, <3>3
  <2> QED
    BY <2>1 DEF RqstExec
<1>5. nbZombie' \in Int
  BY <1>1, CardinalityType DEF RqstExec, TypeOK, TypeCntrl
<1>6. replies' \in [RqstIds -> Seq(Replies)]
  <2>1. AbortReplies(S) \in SUBSET ReplyRecords
    BY <1>1, FinalRepliesType DEF AbortReplies, TypeOK
  <2> QED
    BY <2>1, RepliedType DEF RqstExec, TypeOK, TypeSDI
<1>7. signal' \in [Tasks \cup {Cntrl} -> BOOLEAN]
  BY SignalledType DEF RqstExec, TypeOK, TypeSDI
<1>8. nbSent' \in 0 .. MaxRqst /\ nbRcvd' \in 0 .. nbSent'
  BY ServeType DEF RqstExec
<1>9. TypeSDI'
  BY <1>2, <1>3, <1>4, <1>6, <1>7, <1>8 DEF RqstExec, TypeOK, TypeSDI
<1>10. TypeCntrl'
  BY <1>5 DEF RqstExec, TypeOK, TypeCntrl
<1> QED
  BY <1>9, <1>10 DEF TypeOK, TypeExec

LEMMA RqstExecCodelErrorTypes ==
  ASSUME TypeOK, NEW x \in ExecRqsts, NEW r \in RqstIds, NEW s \in Slots,
         RqstExecCodelError(x, r, s), UNCHANGED exec
  PROVE  TypeOK'
<1> USE DEF aside, kept, halts, endVars
<1>1. act' \in [Slots -> Activity]
  <2>1. Freed(NewActivity(x, r, {})) \in Activity
    BY NewActivityType, FreedType
  <2>2. act' = [act EXCEPT ![s] = Freed(NewActivity(x, r, {}))]
    BY DEF RqstExecCodelError
  <2> QED
    BY <2>1, <2>2 DEF TypeOK, TypeSDI
<1>2. replies' \in [RqstIds -> Seq(Replies)]
  <2>1. {[rqst |-> r, reply |-> "CONTROL_CODEL_ERROR"]} \in SUBSET ReplyRecords
    BY DEF ReplyRecords, Replies, RqstIds, Finals, Refusals
  <2> QED
    BY <2>1, RepliedType DEF RqstExecCodelError, TypeOK, TypeSDI
<1>3. nbSent' \in 0 .. MaxRqst /\ nbRcvd' \in 0 .. nbSent'
  BY ServeType DEF RqstExecCodelError
<1>4. TypeSDI'
  BY <1>1, <1>2, <1>3 DEF RqstExecCodelError, TypeOK, TypeSDI
<1>5. TypeCntrl'
  BY DEF RqstExecCodelError, TypeOK, TypeCntrl
<1> QED
  BY <1>4, <1>5 DEF TypeOK, TypeExec

LEMMA CntrlIntEvnExecTypes ==
  ASSUME TypeOK, CntrlIntEvnExec, UNCHANGED exec
  PROVE  TypeOK'
<1> DEFINE over   == {i \in Slots : act[i].evn = "ETHER"}
           failed == {i \in Slots : act[i].evn = "ZOMBIE"}
<1> USE DEF halts, endVars
<1>1. /\ over \in SUBSET Slots /\ over \cup failed \in SUBSET Slots
      /\ failed \in SUBSET Slots /\ over \cap Zombie \in SUBSET Slots
  OBVIOUS
<1>2. act' \in [Slots -> Activity]
  <2>1. ASSUME NEW i \in Slots PROVE act'[i] \in Activity
    <3>1. act[i] \in Activity
      BY DEF TypeOK, TypeSDI
    <3>2. \/ act'[i] = Freed(act[i])
          \/ act[i].evn \in {"ZOMBIE", "SLEEP"}
             /\ act'[i] = [act[i] EXCEPT !.status = act[i].evn, !.evn = "NO_EVENT"]
          \/ act'[i] = act[i]
      BY DEF CntrlIntEvnExec
    <3> QED
      BY <3>1, <3>2, FreedType DEF Activity, States, Events
  <2> QED
    BY <2>1 DEF CntrlIntEvnExec
<1>3. nbActivities' \in Int /\ taskNbActi' \in [Tasks -> Int]
  <2>1. FreeCounters(over)
    BY DEF CntrlIntEvnExec
  <2> QED
    BY <1>1, <2>1, FreeCountersType DEF TypeOK
<1>4. nbZombie' \in Int
  <2>1. Cardinality(failed) \in Nat /\ Cardinality(over \cap Zombie) \in Nat
    BY <1>1, CardinalityType
  <2>2. nbZombie' = nbZombie + Cardinality(failed) - Cardinality(over \cap Zombie)
    BY DEF CntrlIntEvnExec
  <2> QED
    BY <2>1, <2>2 DEF TypeOK, TypeCntrl
<1>5. replies' \in [RqstIds -> Seq(Replies)]
  <2>1. FinalReplies(over \cup failed) \in SUBSET ReplyRecords
    BY <1>1, FinalRepliesType DEF TypeOK
  <2>2. replies' = Replied(FinalReplies(over \cup failed))
    BY DEF CntrlIntEvnExec
  <2> QED
    BY <2>1, <2>2, RepliedType DEF TypeOK, TypeSDI
<1>6. initRqst' \in ExecRqsts \cup {NoRqst}
  BY DEF CntrlIntEvnExec, TypeOK, TypeSDI
<1>7. sdiFree' \in BOOLEAN
  BY Zenon DEF CntrlIntEvnExec, TakeSDIs
<1>8. TypeSDI'
  BY <1>2, <1>3, <1>5, <1>6, <1>7 DEF CntrlIntEvnExec, TypeOK, TypeSDI
<1>9. TypeCntrl'
  BY <1>4 DEF CntrlIntEvnExec, TypeOK, TypeCntrl
<1> QED
  BY <1>8, <1>9 DEF TypeOK, TypeExec

LEMMA SpawnActivitiesTypes ==
  ASSUME TypeOK, SpawnActivities, UNCHANGED exec
  PROVE  TypeOK'
<1> DEFINE over(j) == act[j].status \in {"ETHER", "ZOMBIE"}
           ready   == {i \in Slots : Waiting(act[i]) /\ \A j \in act[i].incomp : over(j)}
<1> USE DEF halts, endVars
<1>1. act' \in [Slots -> Activity]
  <2>1. ASSUME NEW i \in Slots PROVE act'[i] \in Activity
    <3>1. act[i] \in Activity
      BY DEF TypeOK, TypeSDI
    <3> DEFINE e == IF i \in ready THEN "START" ELSE act[i].evn
               I == {j \in act[i].incomp : ~over(j)}
    <3>2. act'[i] = act[i] \/ act'[i] = [act[i] EXCEPT !.evn = e, !.incomp = I]
      BY DEF SpawnActivities
    <3>3. e \in Events /\ I \in SUBSET Slots
      BY <3>1 DEF Activity, Events, States, CodelStates
    <3> HIDE DEF e, I
    <3> QED
      BY <3>1, <3>2, <3>3 DEF Activity
  <2> QED
    BY <2>1 DEF SpawnActivities
<1>2. replies' \in [RqstIds -> Seq(Replies)]
  <2> DEFINE R == {[rqst |-> act[i].rqst, reply |-> "INTERMED"] : i \in ready}
  <2>1. R \in SUBSET ReplyRecords
    <3>1. \A i \in ready : act[i].rqst \in Int
      BY DEF TypeOK, TypeSDI, Activity
    <3> QED
      BY <3>1 DEF ReplyRecords, Replies
  <2>2. replies' = Replied(R)
    BY DEF SpawnActivities
  <2> QED
    BY <2>1, <2>2, RepliedType DEF TypeOK, TypeSDI
<1>3. signal' \in [Tasks \cup {Cntrl} -> BOOLEAN]
  BY SignalledType DEF SpawnActivities, TypeOK, TypeSDI
<1>4. sdiFree' \in BOOLEAN
  BY Zenon DEF SpawnActivities, GiveSDIs
<1>5. TypeSDI'
  BY <1>1, <1>2, <1>3, <1>4 DEF SpawnActivities, TypeOK, TypeSDI
<1>6. TypeCntrl'
  BY DEF SpawnActivities, TypeOK, TypeCntrl
<1> QED
  BY <1>5, <1>6 DEF TypeOK, TypeExec

\* StopTasks is common to the End request and to the SIGTERM.
LEMMA StopTasksTypes ==
  ASSUME TypeOK, StopTasks, UNCHANGED exec, nbSent' = nbSent,
         nbRcvd' \in 0 .. nbSent, endRqst' \in 0 .. MaxRqst
  PROVE  TypeOK'
<1>1. signal' \in [Tasks \cup {Cntrl} -> BOOLEAN]
  BY SignalledType DEF StopTasks, TypeOK, TypeSDI
<1>2. stopModule' \in BOOLEAN /\ sdiFree' \in BOOLEAN
  BY Zenon DEF StopTasks, GiveSDIs
<1>3. wakeUp' \in [Tasks -> BOOLEAN]
  BY DEF StopTasks
<1>4. TypeSDI'
  BY <1>1, <1>2, <1>3 DEF StopTasks, TypeOK, TypeSDI
<1>5. TypeCntrl'
  BY DEF StopTasks, TypeOK, TypeCntrl
<1> QED
  BY <1>4, <1>5 DEF TypeOK, TypeExec

LEMMA CntrlRqstTypes ==
  ASSUME TypeOK, CntrlRqst, UNCHANGED exec
  PROVE  TypeOK'
<1>1. PICK r \in RqstIds :
        \/ \E x \in ExecRqsts : \/ RqstExecRefused(x, r)
                                \/ \E s \in Slots : RqstExecCodelError(x, r, s)
                                \/ \E s \in Slots : RqstExec(x, r, s)
        \/ \E x \in CntrlRqsts : RqstCntrlRefused(r)
        \/ \E x \in CntrlRqsts, b \in {"OK", "CONTROL_CODEL_ERROR"} : RqstCntrl(x, r, b)
        \/ \E n \in AbortArgs : \/ RqstAbortActivity(n, r)
                                \/ RqstAbortEnded(n, r)
                                \/ RqstAbortUnknown(n, r)
                                \/ RqstAbortOther(n, r)
                                \/ RqstResume(n, r)
                                \/ RqstEndRefused(n, r)
                                \/ RqstEndModule(n, r)
  BY DEF CntrlRqst
<1>2. ASSUME NEW x \in ExecRqsts, RqstExecRefused(x, r) PROVE TypeOK'
  <2>1. Refusal(x) \in Finals
    BY <1>2 DEF RqstExecRefused, Refusal, Finals, Refusals
  <2> QED
    BY <1>2, <2>1, AnswerTypes DEF RqstExecRefused
<1>3. ASSUME NEW x \in ExecRqsts, NEW s \in Slots, RqstExecCodelError(x, r, s)
      PROVE TypeOK'
  BY <1>3, RqstExecCodelErrorTypes
<1>4. ASSUME NEW x \in ExecRqsts, NEW s \in Slots, RqstExec(x, r, s)
      PROVE TypeOK'
  BY <1>4, RqstExecTypes
<1>5. ASSUME RqstCntrlRefused(r) PROVE TypeOK'
  <2>1. "SYSTEM_ERROR" \in Finals
    BY DEF Finals, Refusals
  <2> QED
    BY <1>5, <2>1, AnswerTypes DEF RqstCntrlRefused
<1>6. ASSUME NEW x \in CntrlRqsts, NEW b \in {"OK", "CONTROL_CODEL_ERROR"},
             RqstCntrl(x, r, b)
      PROVE TypeOK'
  <2>1. b \in Finals /\ Targets(x) \in SUBSET Slots
    BY DEF Finals, Refusals, Targets, Live
  <2> QED
    BY <1>6, <2>1, AbortAndAnswerTypes DEF RqstCntrl
<1>7. ASSUME NEW n \in AbortArgs, RqstAbortActivity(n, r) PROVE TypeOK'
  <2>1. "OK" \in Finals /\ HoldsId(n) \in SUBSET Slots
    BY DEF Finals, HoldsId
  <2> QED
    BY <1>7, <2>1, AbortAndAnswerTypes DEF RqstAbortActivity
<1>8. ASSUME NEW n \in AbortArgs, RqstAbortEnded(n, r) PROVE TypeOK'
  <2>1. "ALREADY_ENDED" \in Finals
    BY DEF Finals, Refusals
  <2> QED
    BY <1>8, <2>1, AnswerTypes DEF RqstAbortEnded
<1>9. ASSUME NEW n \in AbortArgs, RqstAbortUnknown(n, r) PROVE TypeOK'
  <2>1. "UNKNOWN_ACTIVITY" \in Finals
    BY DEF Finals, Refusals
  <2> QED
    BY <1>9, <2>1, AnswerTypes DEF RqstAbortUnknown
<1>10. ASSUME NEW n \in AbortArgs, RqstAbortOther(n, r) PROVE TypeOK'
  <2> DEFINE b == IF n \in GENOM_FLAG_RQSTS THEN "OK" ELSE "UNKNOWN_ACTIVITY"
  <2>1. b \in Finals
    BY DEF Finals, Refusals
  <2>2. Serve(r) /\ Answer(r, b)
    BY <1>10 DEF RqstAbortOther
  <2> HIDE DEF b
  <2> QED
    BY <2>1, <2>2, AnswerTypes
<1>11. ASSUME NEW n \in AbortArgs, RqstResume(n, r) PROVE TypeOK'
  <2> USE <1>11 DEF aside, kept, endVars
  <2>1. replies' \in [RqstIds -> Seq(Replies)]
    <3>1. {[rqst |-> r, reply |-> "OK"]} \in SUBSET ReplyRecords
      BY DEF ReplyRecords, Replies, Finals, RqstIds
    <3> QED
      BY <3>1, RepliedType DEF RqstResume, TypeOK, TypeSDI
  <2>2. nbSent' \in 0 .. MaxRqst /\ nbRcvd' \in 0 .. nbSent'
    BY ServeType DEF RqstResume
  <2>3. taskStatus' \in [Tasks -> BOOLEAN]
    BY DEF RqstResume
  <2>4. TypeSDI'
    BY <2>1, <2>2, <2>3 DEF RqstResume, TypeOK, TypeSDI
  <2>5. TypeCntrl'
    BY DEF RqstResume, TypeOK, TypeCntrl
  <2> QED
    BY <2>4, <2>5 DEF TypeOK, TypeExec
<1>12. ASSUME NEW n \in AbortArgs, RqstEndRefused(n, r) PROVE TypeOK'
  <2>1. "WAIT_ABORT_ZOMBIE" \in Finals
    BY DEF Finals, Refusals
  <2> QED
    BY <1>12, <2>1, AnswerTypes DEF RqstEndRefused
<1>13. ASSUME NEW n \in AbortArgs, RqstEndModule(n, r) PROVE TypeOK'
  <2>1. Serve(r) /\ StopTasks /\ endRqst' = r
    BY <1>13 DEF RqstEndModule
  <2>2. nbSent' = nbSent
    BY <2>1 DEF StopTasks
  <2>3. nbRcvd' \in 0 .. nbSent
    BY <2>1, <2>2, ServeType
  <2>4. endRqst' \in 0 .. MaxRqst
    BY <2>1 DEF RqstIds
  <2> QED
    BY <2>1, <2>2, <2>3, <2>4, StopTasksTypes
<1> QED
  BY <1>1, <1>2, <1>3, <1>4, <1>5, <1>6, <1>7, <1>8, <1>9, <1>10, <1>11, <1>12, <1>13

LEMMA CntrlStepTypes ==
  ASSUME TypeOK, CntrlStep, UNCHANGED exec
  PROVE  TypeOK'
<1> USE DEF halts, endVars, sdiVars
<1>1. ASSUME CntrlWakeUp PROVE TypeOK'
  <2>1. TypeSDI'
    BY <1>1 DEF CntrlWakeUp, TypeOK, TypeSDI
  <2>2. TypeCntrl'
    BY <1>1 DEF CntrlWakeUp, TypeOK, TypeCntrl
  <2> QED
    BY <2>1, <2>2 DEF TypeOK, TypeExec
<1>2. ASSUME SignalEnd PROVE TypeOK'
  <2>1. StopTasks /\ nbRcvd' = nbRcvd /\ endRqst' = endRqst
    BY <1>2 DEF SignalEnd
  <2>2. nbSent' = nbSent
    BY <2>1 DEF StopTasks
  <2> QED
    BY <2>1, <2>2, StopTasksTypes DEF TypeOK, TypeSDI, TypeCntrl
<1>3. ASSUME NEW t \in Tasks, CntrlWaitEnd(t) PROVE TypeOK'
  <2>1. TypeSDI'
    BY <1>3 DEF CntrlWaitEnd, TypeOK, TypeSDI
  <2>2. TypeCntrl'
    BY <1>3 DEF CntrlWaitEnd, TypeOK, TypeCntrl
  <2> QED
    BY <2>1, <2>2 DEF TypeOK, TypeExec
<1>4. ASSUME CntrlWakeUpEnd PROVE TypeOK'
  <2>1. TypeSDI'
    BY <1>4 DEF CntrlWakeUpEnd, TypeOK, TypeSDI
  <2>2. TypeCntrl'
    BY <1>4 DEF CntrlWakeUpEnd, TypeOK, TypeCntrl
  <2> QED
    BY <2>1, <2>2 DEF TypeOK, TypeExec
<1>5. ASSUME CntrlExit PROVE TypeOK'
  <2> DEFINE R == {[rqst |-> r, reply |-> "OK"] : r \in {endRqst} \ {0}}
  <2>1. R \in SUBSET ReplyRecords
    BY DEF ReplyRecords, Replies, Finals, TypeOK, TypeCntrl
  <2>2. replies' = Replied(R)
    BY <1>5 DEF CntrlExit
  <2>3. replies' \in [RqstIds -> Seq(Replies)]
    BY <2>1, <2>2, RepliedType DEF TypeOK, TypeSDI
  <2>4. TypeSDI'
    BY <1>5, <2>3 DEF CntrlExit, TypeOK, TypeSDI
  <2>5. TypeCntrl'
    BY <1>5 DEF CntrlExit, TypeOK, TypeCntrl
  <2> QED
    BY <2>4, <2>5 DEF TypeOK, TypeExec
<1> QED
  BY <1>1, <1>2, <1>3, <1>4, <1>5, CntrlIntEvnExecTypes, CntrlRqstTypes,
     SpawnActivitiesTypes DEF CntrlStep

ExecRecords ==
  [pc : {"wait", "take", "begin", "loop", "codel", "unlocked", "relock", "end", "dead"},
   i : 0 .. MaxActivities, nb : Int, nbActi : Int, wakeUpCntrl : BOOLEAN]

InCodel(t) == exec[t].pc \in {"codel", "unlocked", "relock"}

\* While a codel runs, the loop stands at a slot of the table.
CodelInTable == \A t \in Tasks : InCodel(t) => exec[t].i \in Slots

LEMMA GotoType ==
  ASSUME TypeExec, NEW t \in Tasks, NEW p, Goto(t, p),
         p \in {"wait", "take", "begin", "loop", "codel", "unlocked", "relock", "end",
                "dead"}
  PROVE  TypeExec'
<1>1. exec[t] \in ExecRecords
  BY DEF TypeExec, ExecRecords
<1>2. [exec[t] EXCEPT !.pc = p] \in ExecRecords
  BY <1>1 DEF ExecRecords
<1>3. exec' = [exec EXCEPT ![t] = [exec[t] EXCEPT !.pc = p]]
  BY DEF Goto
<1> QED
  BY <1>2, <1>3 DEF TypeExec, ExecRecords

LEMMA SuspendType ==
  ASSUME TypeSDI, NEW t \in Tasks, Suspend(t)
  PROVE  /\ taskStatus' \in [Tasks -> BOOLEAN]
         /\ suspending' \subseteq Tasks /\ suspended' \subseteq Tasks
         /\ signal' \in [Tasks \cup {Cntrl} -> BOOLEAN]
         /\ sdiFree' \in BOOLEAN
<1>1. signal' \in [Tasks \cup {Cntrl} -> BOOLEAN]
  BY SignalledType DEF Suspend, TypeSDI
<1>2. sdiFree' \in BOOLEAN
  BY Zenon DEF Suspend, GiveSDIs
<1>3. taskStatus' \in [Tasks -> BOOLEAN]
  BY DEF Suspend, TypeSDI
<1> QED
  BY <1>1, <1>2, <1>3 DEF Suspend, TypeSDI

LEMMA ExecStepTypes ==
  ASSUME TypeOK, CodelInTable, NEW t \in Tasks, ExecStep(t), UNCHANGED cntrlVars
  PROVE  TypeOK'
<1> USE DEF halts, sdiVars
<1>0. TypeCntrl'
  BY DEF TypeOK, TypeCntrl, cntrlVars, endVars
<1>1. /\ MaxActivities \in Nat
      /\ exec[t] \in ExecRecords /\ Idle \in ExecRecords
  BY ConstantsAssumption DEF TypeOK, TypeExec, ExecRecords, Idle
<1>2. ASSUME ExecSuspend(t) PROVE TypeOK'
  BY <1>2, <1>0 DEF ExecSuspend, TypeOK, TypeSDI, TypeExec
<1>3. ASSUME ExecBegin(t) PROVE TypeOK'
  <2> DEFINE e == [Idle EXCEPT !.pc = "loop", !.nbActi = taskNbActi[t]]
  <2>1. TypeSDI'
    BY <1>3 DEF ExecBegin, TypeOK, TypeSDI
  <2>2. e \in ExecRecords
    BY <1>1 DEF ExecRecords, TypeOK, TypeSDI
  <2>3. exec' = [exec EXCEPT ![t] = e]
    BY <1>3 DEF ExecBegin
  <2> HIDE DEF e
  <2> QED
    BY <1>0, <2>1, <2>2, <2>3 DEF TypeOK, TypeExec, ExecRecords
<1>4. ASSUME NEW i \in Slots, ExecSkip(t, i) PROVE TypeOK'
  <2> DEFINE e == [exec[t] EXCEPT !.i = i + 1, !.nb = exec[t].nb + 1]
  <2>1. TypeSDI'
    BY <1>4 DEF ExecSkip, TypeOK, TypeSDI
  <2>2. e \in ExecRecords
    <3>1. i + 1 \in 0 .. MaxActivities
      BY <1>1 DEF Slots
    <3>2. exec[t].nb + 1 \in Int
      BY <1>1 DEF ExecRecords
    <3> QED
      BY <1>1, <3>1, <3>2 DEF ExecRecords
  <2>3. exec' = [exec EXCEPT ![t] = e]
    BY <1>4 DEF ExecSkip, TypeOK, TypeExec
  <2> HIDE DEF e
  <2> QED
    BY <1>0, <2>1, <2>2, <2>3 DEF TypeOK, TypeExec, ExecRecords
<1>5. ASSUME NEW i \in Slots, ExecCallUserFunc(t, i) PROVE TypeOK'
  <2> DEFINE e == [exec[t] EXCEPT !.pc = "codel", !.i = i, !.nb = exec[t].nb + 1]
             a == [act[i] EXCEPT !.status = EventOf(i), !.evn = EventOf(i)]
  <2>1. a \in Activity
    <3>1. act[i] \in Activity
      BY DEF TypeOK, TypeSDI
    <3>2. EventOf(i) \in States /\ EventOf(i) \in Events
      BY <1>5 DEF ExecCallUserFunc, Events, States
    <3> QED
      BY <3>1, <3>2 DEF Activity
  <2>2. act' = [act EXCEPT ![i] = a]
    BY <1>5 DEF ExecCallUserFunc, TypeOK, TypeSDI
  <2>3. e \in ExecRecords
    <3>1. i \in 0 .. MaxActivities
      BY <1>1 DEF Slots
    <3>2. exec[t].nb + 1 \in Int
      BY <1>1 DEF ExecRecords
    <3> QED
      BY <1>1, <3>1, <3>2 DEF ExecRecords
  <2>4. exec' = [exec EXCEPT ![t] = e]
    BY <1>5 DEF ExecCallUserFunc, TypeOK, TypeExec
  <2> HIDE DEF e, a
  <2>5. TypeSDI'
    BY <1>5, <2>1, <2>2 DEF ExecCallUserFunc, TypeOK, TypeSDI
  <2> QED
    BY <1>0, <2>3, <2>4, <2>5 DEF TypeOK, TypeExec, ExecRecords
<1>6. ASSUME GenomGiveSDIs(t) PROVE TypeOK'
  <2>1. sdiFree' \in BOOLEAN
    BY <1>6, Zenon DEF GenomGiveSDIs, GiveSDIs
  <2>2. TypeSDI'
    BY <1>6, <2>1 DEF GenomGiveSDIs, TypeOK, TypeSDI
  <2> QED
    BY <1>6, <1>0, <2>2, GotoType DEF GenomGiveSDIs, TypeOK
<1>7. ASSUME GenomTakeSDIs(t) PROVE TypeOK'
  <2>1. sdiFree' \in BOOLEAN
    BY <1>7, Zenon DEF GenomTakeSDIs, TakeSDIs
  <2>2. TypeSDI'
    BY <1>7, <2>1 DEF GenomTakeSDIs, TypeOK, TypeSDI
  <2> QED
    BY <1>7, <1>0, <2>2, GotoType DEF GenomTakeSDIs, TypeOK
<1>8. ASSUME NEW e \in Events, NEW b \in CodelBilans,
             act' = [act EXCEPT ![exec[t].i].evn = e, ![exec[t].i].bilan = b]
      PROVE  act' \in [Slots -> Activity]
  <2>1. b \in Bilans
    BY ExecAssumption
  <2>2. ASSUME NEW j \in Slots PROVE act'[j] \in Activity
    <3>1. act[j] \in Activity
      BY DEF TypeOK, TypeSDI
    <3>2. act'[j] = act[j] \/ act'[j] = [act[j] EXCEPT !.evn = e, !.bilan = b]
      BY <1>8 DEF TypeOK, TypeSDI
    <3> QED
      BY <2>1, <3>1, <3>2 DEF Activity
  <2> QED
    BY <1>8, <2>2 DEF TypeOK, TypeSDI
<1>9. ASSUME NEW e \in Events, NEW b \in CodelBilans, NEW W \in CodelWakeUps,
             ExecCodelReturn(t, e, b, W)
      PROVE  TypeOK'
  <2> DEFINE i == exec[t].i
             c == exec[t].wakeUpCntrl \/ e # act[i].status
             x == [exec[t] EXCEPT !.pc = "loop", !.i = i + 1, !.wakeUpCntrl = c]
  <2>1. i \in Slots
    BY <1>9 DEF ExecCodelReturn, CodelInTable, InCodel, At
  <2>2. act' \in [Slots -> Activity]
    BY <1>8, <1>9 DEF ExecCodelReturn
  <2>3. x \in ExecRecords
    <3>1. c \in BOOLEAN /\ i + 1 \in 0 .. MaxActivities
      BY <1>1, <2>1 DEF Slots
    <3> HIDE DEF c, i
    <3> QED BY <1>1, <3>1 DEF ExecRecords
  <2>4. exec' = [exec EXCEPT ![t] = x]
    BY <1>9 DEF ExecCodelReturn, TypeOK, TypeExec
  <2>5. wakeUp' \in [Tasks -> BOOLEAN]
    BY <1>9 DEF ExecCodelReturn
  <2>6. signal' \in [Tasks \cup {Cntrl} -> BOOLEAN]
    BY <1>9, SignalledType DEF ExecCodelReturn, TypeOK, TypeSDI
  <2> HIDE DEF x
  <2>7. TypeSDI'
    BY <1>9, <2>2, <2>5, <2>6 DEF ExecCodelReturn, TypeOK, TypeSDI
  <2> QED
    BY <1>0, <2>3, <2>4, <2>7 DEF TypeOK, TypeExec, ExecRecords
<1>10. ASSUME NEW e \in Events, NEW b \in CodelBilans, ExecForbidden(t, e, b)
       PROVE  TypeOK'
  <2> DEFINE i == exec[t].i
             x == [exec[t] EXCEPT !.pc = "loop", !.i = i + 1]
  <2>1. i \in Slots
    BY <1>10 DEF ExecForbidden, CodelInTable, InCodel, At
  <2>2. act' \in [Slots -> Activity]
    BY <1>8, <1>10 DEF ExecForbidden
  <2>3. x \in ExecRecords
    <3>1. i + 1 \in 0 .. MaxActivities
      BY <1>1, <2>1 DEF Slots
    <3> HIDE DEF i
    <3> QED BY <1>1, <3>1 DEF ExecRecords
  <2>4. exec' = [exec EXCEPT ![t] = x]
    BY <1>10 DEF ExecForbidden, TypeOK, TypeExec
  <2>5. Suspend(t)
    BY <1>10 DEF ExecForbidden
  <2> HIDE DEF x
  <2>6. TypeSDI'
    BY <1>10, <2>2, <2>5, SuspendType DEF ExecForbidden, TypeOK, TypeSDI
  <2> QED
    BY <1>0, <2>3, <2>4, <2>6 DEF TypeOK, TypeExec, ExecRecords
<1>11. ASSUME NEW newBilan \in BOOLEAN, ExecEnd(t, newBilan) PROVE TypeOK'
  <2>1. signal' \in [Tasks \cup {Cntrl} -> BOOLEAN]
    BY <1>11, SignalledType DEF ExecEnd, TypeOK, TypeSDI
  <2>2. sdiFree' \in BOOLEAN
    BY <1>11, Zenon DEF ExecEnd, GiveSDIs
  <2>3. wakeUp' \in [Tasks -> BOOLEAN]
    BY <1>11 DEF ExecEnd
  <2>4. TypeSDI'
    BY <1>11, <2>1, <2>2, <2>3 DEF ExecEnd, TypeOK, TypeSDI
  <2>5. exec' = [exec EXCEPT ![t] = Idle]
    BY <1>11 DEF ExecEnd
  <2> QED
    BY <1>0, <1>1, <2>4, <2>5 DEF TypeOK, TypeExec, ExecRecords
<1>12. ASSUME ExecEndError(t) PROVE TypeOK'
  <2>1. Suspend(t) /\ Goto(t, "end")
    BY <1>12 DEF ExecEndError
  <2>2. TypeSDI'
    BY <1>12, <2>1, SuspendType DEF ExecEndError, TypeOK, TypeSDI
  <2> QED
    BY <1>0, <2>1, <2>2, GotoType DEF TypeOK
<1>13. ASSUME ExecWakeUp(t) PROVE TypeOK'
  <2>1. TypeSDI'
    BY <1>13 DEF ExecWakeUp, TypeOK, TypeSDI
  <2> QED
    BY <1>0, <1>13, <2>1, GotoType DEF ExecWakeUp, TypeOK
<1>14. ASSUME ExecStop(t) PROVE TypeOK'
  <2>1. signal' \in [Tasks \cup {Cntrl} -> BOOLEAN]
    BY <1>14, SignalledType DEF ExecStop, TypeOK, TypeSDI
  <2>2. wakeUp' \in [Tasks -> BOOLEAN]
    BY <1>14 DEF ExecStop, TypeOK, TypeSDI
  <2>3. TypeSDI'
    BY <1>14, <2>1, <2>2 DEF ExecStop, TypeOK, TypeSDI
  <2> QED
    BY <1>0, <1>14, <2>3, GotoType DEF ExecStop, TypeOK
<1>15. ASSUME ExecTake(t) PROVE TypeOK'
  <2> DEFINE e == [Idle EXCEPT !.pc = "loop", !.nbActi = taskNbActi[t]]
  <2>1. sdiFree' \in BOOLEAN
    BY <1>15, Zenon DEF ExecTake, TakeSDIs
  <2>2. TypeSDI'
    BY <1>15, <2>1 DEF ExecTake, TypeOK, TypeSDI
  <2>3. e \in ExecRecords
    BY <1>1 DEF ExecRecords, TypeOK, TypeSDI
  <2>4. exec' = [exec EXCEPT ![t] = e]
    BY <1>15 DEF ExecTake
  <2> HIDE DEF e
  <2> QED
    BY <1>0, <2>2, <2>3, <2>4 DEF TypeOK, TypeExec, ExecRecords
<1>16. ASSUME ExecTakeError(t) PROVE TypeOK'
  <2>1. Suspend(t) /\ Goto(t, "begin")
    BY <1>16 DEF ExecTakeError
  <2>2. TypeSDI'
    BY <1>16, <2>1, SuspendType DEF ExecTakeError, TypeOK, TypeSDI
  <2> QED
    BY <1>0, <2>1, <2>2, GotoType DEF TypeOK
<1> QED
  BY <1>2, <1>3, <1>4, <1>5, <1>6, <1>7, <1>9, <1>10, <1>11, <1>12, <1>13, <1>14,
     <1>15, <1>16 DEF ExecStep, ExecWait, ExecEnter, ExecRun

-----------------------------------------------------------------------------
(* The inductive invariant *)

\* The slot of a codel that runs cannot be taken from its task: it is neither
\* freed nor frozen by the control task, even if the codel gave the SDIs or if
\* the task was resumed without them.
CodelOwned ==
  \A t \in Tasks : InCodel(t) =>
    /\ exec[t].i \in Slots
    /\ act[exec[t].i].task = t
    /\ act[exec[t].i].status \in CodelStates
    /\ act[exec[t].i].evn \in CodelStates

\* No event is left on a slot that is free or frozen.
QuietSlots ==
  \A i \in Slots : act[i].status \in {"ETHER", "ZOMBIE"} => act[i].evn = "NO_EVENT"

IdsGiven == \A i \in Live : act[i].id <= lastId

InitOrDone == initRqst \in {InitRqst, NoRqst}

Inv == /\ TypeOK /\ CodelOwned /\ QuietSlots /\ IdsGiven /\ InitOrDone
       /\ NoIncompatibleRun /\ InitRqstAlone

-----------------------------------------------------------------------------
(* What a step may do to a slot, but for a new activity and for a launch: free *)
(* it, freeze its activity, or leave it as it was for the other activities.    *)

Frees(i) == act'[i].status = "ETHER" /\ act'[i].evn = "NO_EVENT"

Freezes(i) ==
  /\ act'[i].status = "ZOMBIE" /\ act'[i].evn = "NO_EVENT"
  /\ act[i].status # "ETHER"
  /\ act'[i].id = act[i].id /\ act'[i].type = act[i].type

Goes(i) ==
  /\ act[i].status \notin {"ETHER", "ZOMBIE"}
  /\ act'[i].status \notin {"ETHER", "ZOMBIE"}
  /\ act'[i].id = act[i].id /\ act'[i].type = act[i].type
  /\ Waiting(act[i]) => Waiting(act'[i]) /\ act'[i].incomp = act[i].incomp

Progress(i) == Frees(i) \/ Freezes(i) \/ Goes(i)

\* What the control task may not do to the slot of a codel that runs.
Held(i) ==
  act[i].status \in CodelStates /\ act[i].evn \in CodelStates =>
    /\ act'[i].status \in CodelStates /\ act'[i].evn \in CodelStates
    /\ act'[i].task = act[i].task

LEMMA UnchangedSlot ==
  ASSUME QuietSlots, NEW i \in Slots, act'[i] = act[i]
  PROVE  Progress(i) /\ Held(i)
BY DEF QuietSlots, Progress, Frees, Freezes, Goes, Held

LEMMA FreedSlot ==
  ASSUME TypeSDI, NEW i \in Slots, act'[i] = Freed(act[i])
  PROVE  Progress(i)
<1>1. act[i] \in Activity
  BY DEF TypeSDI
<1> QED
  BY <1>1 DEF Progress, Frees, Freed, Activity

LEMMA AbortedSlot ==
  ASSUME TypeSDI, QuietSlots, NEW S \in SUBSET Slots, NEW i \in Slots,
         act'[i] = AbortTable(S)[i]
  PROVE  Progress(i) /\ Held(i)
<1>1. act[i] \in Activity
  BY DEF TypeSDI
<1>2. CASE i \in Ended(S)
  <2>1. act'[i] = Freed(act[i])
    BY <1>2 DEF AbortTable
  <2>2. Held(i)
    BY <1>2 DEF Held, Ended, AbortEnds, CodelStates
  <2> QED
    BY <2>1, <2>2, FreedSlot
<1>3. CASE i \notin Ended(S) /\ i \in Interrupted(S)
  <2>1. act'[i] = [act[i] EXCEPT !.evn = "INTER"]
    BY <1>3 DEF AbortTable
  <2>2. act[i].status \in CodelStates \cup {"SLEEP"}
    BY <1>3 DEF Interrupted, AbortInterrupts
  <2> QED
    BY <1>1, <2>1, <2>2 DEF Progress, Goes, Held, Waiting, Activity, CodelStates
<1>4. CASE i \notin Ended(S) /\ i \notin Interrupted(S)
  BY <1>4, UnchangedSlot DEF AbortTable
<1> QED
  BY <1>2, <1>3, <1>4

LEMMA EventSlot ==
  ASSUME TypeOK, QuietSlots, CntrlIntEvnExec, NEW i \in Slots
  PROVE  Progress(i) /\ Held(i)
<1>1. act[i] \in Activity
  BY DEF TypeOK, TypeSDI
<1>2. CASE act[i].evn = "ETHER"
  <2>1. act'[i] = Freed(act[i])
    BY <1>2 DEF CntrlIntEvnExec
  <2>2. Held(i)
    BY <1>2 DEF Held, CodelStates
  <2> QED
    BY <2>1, <2>2, FreedSlot DEF TypeOK
<1>3. CASE act[i].evn \in {"ZOMBIE", "SLEEP"}
  <2>1. act'[i] = [act[i] EXCEPT !.status = act[i].evn, !.evn = "NO_EVENT"]
    BY <1>3 DEF CntrlIntEvnExec
  <2>2. act[i].status \notin {"ETHER", "ZOMBIE"}
    BY <1>3 DEF QuietSlots
  <2>3. Held(i) /\ ~Waiting(act[i])
    BY <1>3 DEF Held, Waiting, CodelStates
  <2> QED
    BY <1>1, <1>3, <2>1, <2>2, <2>3 DEF Progress, Freezes, Goes, Activity
<1>4. CASE act[i].evn \notin {"ETHER", "ZOMBIE", "SLEEP"}
  BY <1>4, UnchangedSlot DEF CntrlIntEvnExec
<1> QED
  BY <1>2, <1>3, <1>4

\* A step that treats every slot so keeps what the invariant says of the table.
LEMMA ProgressKeeps ==
  ASSUME Inv, TypeOK', \A i \in Slots : Progress(i), lastId' >= lastId,
         initRqst' \in {initRqst, NoRqst}
  PROVE  QuietSlots' /\ IdsGiven' /\ InitOrDone' /\ NoIncompatibleRun' /\ InitRqstAlone'
<1> USE DEF Inv
<1>1. QuietSlots'
  BY DEF QuietSlots, Progress, Frees, Freezes, Goes
<1>2. \A i \in Live' : i \in Live /\ act'[i].id = act[i].id /\ act'[i].type = act[i].type
  BY DEF Live, Progress, Frees, Freezes, Goes
<1>3. IdsGiven'
  <2> SUFFICES ASSUME NEW i \in Live' PROVE act'[i].id <= lastId'
    BY DEF IdsGiven
  <2>1. act'[i].id = act[i].id /\ act[i].id <= lastId /\ i \in Slots
    BY <1>2 DEF IdsGiven, Live
  <2>2. act[i].id \in Int /\ lastId \in Int /\ lastId' \in Int
    BY <2>1 DEF TypeOK, TypeSDI, TypeCntrl, Activity
  <2> QED
    BY <2>1, <2>2
<1>4. InitOrDone'
  BY DEF InitOrDone
<1>5. NoIncompatibleRun'
  <2> SUFFICES ASSUME NEW i \in Live' \ Zombie', NEW j \in Live' \ Zombie',
                      act'[j].id < act'[i].id,
                      act'[j].type \in Incompatible[act'[i].type]
               PROVE  Waiting(act'[i]) /\ j \in act'[i].incomp
    BY DEF NoIncompatibleRun
  <2>1. i \in Slots /\ j \in Slots /\ Goes(i) /\ Goes(j)
    BY DEF Live, Zombie, Progress, Frees, Freezes
  <2>2. i \in Live \ Zombie /\ j \in Live \ Zombie
    BY <2>1 DEF Goes, Live, Zombie
  <2>3. Waiting(act[i]) /\ j \in act[i].incomp
    BY <2>1, <2>2 DEF Goes, NoIncompatibleRun
  <2> QED
    BY <2>1, <2>3 DEF Goes
<1>6. InitRqstAlone'
  BY <1>2 DEF InitRqstAlone
<1> QED
  BY <1>1, <1>3, <1>4, <1>5, <1>6

\* CodelOwned, for the steps of the control task.
LEMMA HeldKeeps ==
  ASSUME CodelOwned, \A i \in Slots : Held(i), exec' = exec
  PROVE  CodelOwned'
BY DEF CodelOwned, Held, InCodel

-----------------------------------------------------------------------------
\* A new activity: it is younger than all others, and every incompatible one
\* that its request did not end is in its list.
LEMMA RqstExecKeeps ==
  ASSUME Inv, TypeOK', NEW x \in ExecRqsts, NEW r \in RqstIds, NEW s \in Slots,
         RqstExec(x, r, s), exec' = exec
  PROVE  Inv'
<1> DEFINE S == Targets(x)
           I == S \ Ended(S)
           new == NewActivity(x, r, I)
<1> USE DEF Inv, kept
<1>1. S \in SUBSET Slots /\ act[s].status = "ETHER"
  BY DEF Targets, Live, RqstExec, FirstFree
<1>2. act'[s] = new
  <2>1. AbortTable(S) \in [Slots -> Activity]
    BY <1>1, AbortTableType DEF TypeOK
  <2> QED
    BY <2>1 DEF RqstExec
<1>3. \A i \in Slots \ {s} : act'[i] = AbortTable(S)[i]
  BY DEF RqstExec, AbortTable
<1>4. \A i \in Slots \ {s} : Progress(i) /\ Held(i)
  BY <1>1, <1>3, AbortedSlot DEF TypeOK
<1>5. lastId' = lastId + 1 /\ initRqst' = initRqst /\ lastId \in Int
  BY DEF RqstExec, TypeOK, TypeCntrl
<1>6. /\ new.status = "INIT" /\ new.evn = "NO_EVENT" /\ new.type = x
      /\ new.id = lastId + 1 /\ new.incomp = I
  BY DEF NewActivity
<1> HIDE DEF new, S, I
<1>7. CodelOwned'
  <2>1. Held(s)
    BY <1>1 DEF Held, CodelStates
  <2> QED
    BY <1>4, <2>1, HeldKeeps
<1>8. QuietSlots'
  <2> SUFFICES ASSUME NEW i \in Slots, act'[i].status \in {"ETHER", "ZOMBIE"}
               PROVE  act'[i].evn = "NO_EVENT"
    BY DEF QuietSlots
  <2> QED
    BY <1>2, <1>4, <1>6 DEF Progress, Frees, Freezes, Goes
<1>9. \A i \in Live' \ {s} :
        i \in Live /\ act'[i].id = act[i].id /\ act'[i].type = act[i].type
  BY <1>4 DEF Live, Progress, Frees, Freezes, Goes
<1>10. \A i \in Live : act[i].id \in Int /\ act[i].id < lastId + 1
  <2> SUFFICES ASSUME NEW i \in Live
               PROVE  act[i].id \in Int /\ act[i].id < lastId + 1
    OBVIOUS
  <2>1. act[i].id \in Int
    BY DEF Live, TypeOK, TypeSDI, Activity
  <2>2. act[i].id <= lastId
    BY DEF IdsGiven
  <2> QED
    BY <1>5, <2>1, <2>2
<1>11. IdsGiven'
  <2> SUFFICES ASSUME NEW i \in Live' PROVE act'[i].id <= lastId'
    BY DEF IdsGiven
  <2>1. CASE i = s
    BY <2>1, <1>2, <1>5, <1>6
  <2>2. CASE i # s
    BY <2>2, <1>5, <1>9, <1>10
  <2> QED
    BY <2>1, <2>2
<1>12. NoIncompatibleRun'
  <2> SUFFICES ASSUME NEW i \in Live' \ Zombie', NEW j \in Live' \ Zombie',
                      act'[j].id < act'[i].id,
                      act'[j].type \in Incompatible[act'[i].type]
               PROVE  Waiting(act'[i]) /\ j \in act'[i].incomp
    BY DEF NoIncompatibleRun
  <2>1. i \in Slots /\ j \in Slots
    BY DEF Live
  <2>2. CASE i = s /\ j = s
    BY <2>2, <1>2, <1>5, <1>6
  <2>3. CASE i = s /\ j # s
    <3>1. j \in Live /\ act[j].type \in Incompatible[x]
      BY <2>3, <1>2, <1>6, <1>9
    <3>2. j \in S
      BY <3>1 DEF S, Targets
    <3>3. j \notin Ended(S)
      <4>1. act[j] \in Activity
        BY <2>1 DEF TypeOK, TypeSDI
      <4>2. Freed(act[j]).status = "ETHER"
        BY <4>1 DEF Freed, Activity
      <4>3. act'[j] = AbortTable(S)[j] /\ act'[j].status # "ETHER"
        BY <1>3, <2>1, <2>3 DEF Live
      <4> QED
        BY <2>1, <4>2, <4>3 DEF AbortTable
    <3>4. j \in I
      BY <3>2, <3>3 DEF I
    <3> QED
      BY <2>3, <3>4, <1>2, <1>6 DEF Waiting
  <2>4. CASE i # s /\ j = s
    <3>1. act'[j].id = lastId + 1 /\ act'[i].id = act[i].id /\ i \in Live
      BY <2>4, <1>2, <1>6, <1>9
    <3> QED
      BY <3>1, <1>5, <1>10
  <2>5. CASE i # s /\ j # s
    <3>1. Goes(i) /\ Goes(j)
      BY <2>1, <2>5, <1>4 DEF Live, Zombie, Progress, Frees, Freezes
    <3>2. i \in Live \ Zombie /\ j \in Live \ Zombie
      BY <2>1, <3>1 DEF Goes, Live, Zombie
    <3>3. Waiting(act[i]) /\ j \in act[i].incomp
      BY <3>1, <3>2 DEF Goes, NoIncompatibleRun
    <3> QED
      BY <3>1, <3>3 DEF Goes
  <2> QED
    BY <2>2, <2>3, <2>4, <2>5
<1>13. InitRqstAlone'
  <2> SUFFICES ASSUME initRqst # NoRqst, NEW i \in Live' PROVE act'[i].type = initRqst
    BY <1>5 DEF InitRqstAlone
  <2>1. CASE i = s
    <3>1. x = InitRqst
      BY DEF RqstExec, Refusal
    <3> QED
      BY <2>1, <3>1, <1>2, <1>6 DEF InitOrDone
  <2>2. CASE i # s
    BY <2>2, <1>9 DEF InitRqstAlone
  <2> QED
    BY <2>1, <2>2
<1>14. InitOrDone'
  BY <1>5 DEF InitOrDone
<1> QED
  BY <1>7, <1>8, <1>11, <1>12, <1>13, <1>14

\* A launch: no incompatible activity in the list of the launched one is left,
\* and the list of one that waits on loses only activities that are over.
LEMMA SpawnKeeps ==
  ASSUME Inv, TypeOK', SpawnActivities, exec' = exec
  PROVE  Inv'
<1> DEFINE over(j) == act[j].status \in {"ETHER", "ZOMBIE"}
           ready   == {i \in Slots : Waiting(act[i]) /\ \A j \in act[i].incomp : over(j)}
<1> USE DEF Inv
<1>1. ASSUME NEW i \in Slots
      PROVE  /\ act'[i].status = act[i].status /\ act'[i].type = act[i].type
             /\ act'[i].id = act[i].id /\ act'[i].task = act[i].task
             /\ ~Waiting(act[i]) => act'[i] = act[i]
             /\ i \notin ready => act'[i].evn = act[i].evn
             /\ Waiting(act[i]) =>
                  act'[i].incomp = {j \in act[i].incomp : ~over(j)}
  <2>1. act[i] \in Activity
    BY DEF TypeOK, TypeSDI
  <2> DEFINE e == IF i \in ready THEN "START" ELSE act[i].evn
             I == {j \in act[i].incomp : ~over(j)}
  <2>2. act'[i] = IF Waiting(act[i]) THEN [act[i] EXCEPT !.evn = e, !.incomp = I]
                  ELSE act[i]
    BY DEF SpawnActivities
  <2> HIDE DEF I
  <2>3. Waiting(act[i]) => act'[i].incomp = I
    BY <2>1, <2>2 DEF Activity
  <2>4. i \notin ready => act'[i].evn = act[i].evn
    BY <2>1, <2>2 DEF Activity
  <2>5. /\ act'[i].status = act[i].status /\ act'[i].type = act[i].type
        /\ act'[i].id = act[i].id /\ act'[i].task = act[i].task
        /\ ~Waiting(act[i]) => act'[i] = act[i]
    BY <2>1, <2>2 DEF Activity
  <2> QED
    BY <2>3, <2>4, <2>5 DEF I
<1> HIDE DEF ready
<1>2. Live' = Live /\ Zombie' = Zombie
  BY <1>1 DEF Live, Zombie
<1>3. CodelOwned'
  <2>1. \A i \in Slots : Held(i)
    BY <1>1 DEF Held, Waiting, CodelStates
  <2> QED
    BY <2>1, HeldKeeps
<1>4. QuietSlots'
  <2> SUFFICES ASSUME NEW i \in Slots, act'[i].status \in {"ETHER", "ZOMBIE"}
               PROVE  act'[i].evn = "NO_EVENT"
    BY DEF QuietSlots
  <2>1. ~Waiting(act[i])
    BY <1>1 DEF Waiting
  <2> QED
    BY <1>1, <2>1 DEF QuietSlots
<1>5. IdsGiven'
  BY <1>1, <1>2 DEF IdsGiven, SpawnActivities, Live
<1>6. InitOrDone' /\ InitRqstAlone'
  BY <1>1, <1>2 DEF InitOrDone, InitRqstAlone, SpawnActivities, Live
<1>7. NoIncompatibleRun'
  <2> SUFFICES ASSUME NEW i \in Live' \ Zombie', NEW j \in Live' \ Zombie',
                      act'[j].id < act'[i].id,
                      act'[j].type \in Incompatible[act'[i].type]
               PROVE  Waiting(act'[i]) /\ j \in act'[i].incomp
    BY DEF NoIncompatibleRun
  <2>1. i \in Slots /\ j \in Slots /\ i \in Live \ Zombie /\ j \in Live \ Zombie
    BY <1>2 DEF Live
  <2>2. Waiting(act[i]) /\ j \in act[i].incomp
    BY <1>1, <2>1 DEF NoIncompatibleRun
  <2>3. ~over(j)
    BY <2>1 DEF Live, Zombie
  <2>4. i \notin ready
    BY <2>2, <2>3 DEF ready
  <2> HIDE DEF over
  <2> QED
    BY <1>1, <2>1, <2>2, <2>3, <2>4 DEF Waiting
<1> QED
  BY <1>3, <1>4, <1>5, <1>6, <1>7

-----------------------------------------------------------------------------
LEMMA SameTable ==
  ASSUME QuietSlots, act' = act
  PROVE  \A i \in Slots : Progress(i) /\ Held(i)
BY UnchangedSlot

\* The other requests, and the rest of the control task's loop.
LEMMA CntrlRqstEffect ==
  ASSUME Inv, CntrlRqst,
         \A x \in ExecRqsts, r \in RqstIds, s \in Slots : ~RqstExec(x, r, s)
  PROVE  /\ \A i \in Slots : Progress(i) /\ Held(i)
         /\ lastId' >= lastId /\ initRqst' = initRqst
<1> USE DEF Inv, kept, aside
<1>0. lastId \in Int
  BY DEF TypeOK, TypeCntrl
<1>1. PICK r \in RqstIds :
        \/ \E x \in ExecRqsts : \/ RqstExecRefused(x, r)
                                \/ \E s \in Slots : RqstExecCodelError(x, r, s)
        \/ \E x \in CntrlRqsts : RqstCntrlRefused(r)
        \/ \E x \in CntrlRqsts, b \in {"OK", "CONTROL_CODEL_ERROR"} : RqstCntrl(x, r, b)
        \/ \E n \in AbortArgs : \/ RqstAbortActivity(n, r)
                                \/ RqstAbortEnded(n, r)
                                \/ RqstAbortUnknown(n, r)
                                \/ RqstAbortOther(n, r)
                                \/ RqstResume(n, r)
                                \/ RqstEndRefused(n, r)
                                \/ RqstEndModule(n, r)
  BY DEF CntrlRqst
<1> DEFINE Effect == /\ \A i \in Slots : Progress(i) /\ Held(i)
                     /\ lastId' >= lastId /\ initRqst' = initRqst
<1>2. ASSUME act' = act, lastId' = lastId, initRqst' = initRqst PROVE Effect
  BY <1>0, <1>2, SameTable
<1>3. ASSUME NEW S \in SUBSET Slots, NEW b, AbortAndAnswer(S, r, b) PROVE Effect
  <2>1. act' = AbortTable(S) /\ lastId' = lastId /\ initRqst' = initRqst
    BY <1>3 DEF AbortAndAnswer
  <2> QED
    BY <1>0, <2>1, AbortedSlot DEF TypeOK
<1>4. ASSUME NEW b, Answer(r, b) PROVE Effect
  BY <1>2, <1>4 DEF Answer
<1> HIDE DEF Effect
<1>5. ASSUME NEW x \in ExecRqsts, RqstExecRefused(x, r) PROVE Effect
  BY <1>4, <1>5 DEF RqstExecRefused
<1>6. ASSUME NEW x \in ExecRqsts, NEW s \in Slots, RqstExecCodelError(x, r, s)
      PROVE Effect
  <2> DEFINE new == NewActivity(x, r, {})
  <2>1. act[s].status = "ETHER"
    BY <1>6 DEF RqstExecCodelError, FirstFree, Live
  <2>2. act' = [act EXCEPT ![s] = Freed(new)]
    BY <1>6 DEF RqstExecCodelError
  <2>3. Frees(s)
    <3>1. Freed(new).status = "ETHER" /\ Freed(new).evn = "NO_EVENT"
      BY DEF Freed, NewActivity
    <3>2. act'[s] = Freed(new)
      BY <2>2 DEF TypeOK, TypeSDI
    <3> HIDE DEF new
    <3> QED BY <3>1, <3>2 DEF Frees
  <2>4. Held(s)
    BY <2>1 DEF Held, CodelStates
  <2> HIDE DEF new
  <2>5. \A i \in Slots : Progress(i) /\ Held(i)
    <3> SUFFICES ASSUME NEW i \in Slots PROVE Progress(i) /\ Held(i)
      OBVIOUS
    <3>1. CASE i = s
      BY <3>1, <2>3, <2>4 DEF Progress
    <3>2. CASE i # s
      <4>1. act'[i] = act[i]
        BY <3>2, <2>2 DEF TypeOK, TypeSDI
      <4> QED BY <4>1, UnchangedSlot
    <3> QED BY <3>1, <3>2
  <2>6. lastId' = lastId + 1 /\ initRqst' = initRqst
    BY <1>6 DEF RqstExecCodelError
  <2> QED
    BY <1>0, <2>5, <2>6 DEF Effect
<1>7. ASSUME RqstCntrlRefused(r) PROVE Effect
  BY <1>4, <1>7 DEF RqstCntrlRefused
<1>8. ASSUME NEW x \in CntrlRqsts, NEW b, RqstCntrl(x, r, b) PROVE Effect
  <2>1. Targets(x) \in SUBSET Slots /\ AbortAndAnswer(Targets(x), r, b)
    BY <1>8 DEF Targets, Live, RqstCntrl
  <2> QED BY <2>1, <1>3
<1>9. ASSUME NEW n \in AbortArgs, RqstAbortActivity(n, r) PROVE Effect
  <2>1. HoldsId(n) \in SUBSET Slots /\ AbortAndAnswer(HoldsId(n), r, "OK")
    BY <1>9 DEF HoldsId, RqstAbortActivity
  <2> QED BY <2>1, <1>3
<1>10. ASSUME NEW n \in AbortArgs,
              \/ RqstAbortEnded(n, r) \/ RqstAbortUnknown(n, r)
              \/ RqstAbortOther(n, r) \/ RqstEndRefused(n, r)
       PROVE Effect
  BY <1>4, <1>10 DEF RqstAbortEnded, RqstAbortUnknown, RqstAbortOther, RqstEndRefused
<1>11. ASSUME NEW n \in AbortArgs, RqstResume(n, r) PROVE Effect
  BY <1>2, <1>11 DEF RqstResume
<1>12. ASSUME NEW n \in AbortArgs, RqstEndModule(n, r) PROVE Effect
  BY <1>2, <1>12 DEF RqstEndModule, StopTasks
<1>13. Effect
  BY <1>1, <1>5, <1>6, <1>7, <1>8, <1>9, <1>10, <1>11, <1>12
<1> QED
  BY <1>13 DEF Effect

LEMMA CntrlStepKeeps ==
  ASSUME Inv, CntrlStep, UNCHANGED exec
  PROVE  Inv'
<1> USE DEF Inv, endVars, sdiVars
<1>0. TypeOK' /\ lastId \in Int
  BY CntrlStepTypes DEF TypeOK, TypeCntrl
<1>1. ASSUME NEW x \in ExecRqsts, NEW r \in RqstIds, NEW s \in Slots,
             RqstExec(x, r, s)
      PROVE  Inv'
  BY <1>0, <1>1, RqstExecKeeps
<1>2. ASSUME SpawnActivities PROVE Inv'
  BY <1>0, <1>2, SpawnKeeps
<1>3. ASSUME \A i \in Slots : Progress(i) /\ Held(i), lastId' >= lastId,
             initRqst' \in {initRqst, NoRqst}
      PROVE  Inv'
  BY <1>0, <1>3, ProgressKeeps, HeldKeeps
<1>4. ASSUME act' = act, lastId' = lastId, initRqst' = initRqst PROVE Inv'
  BY <1>0, <1>3, <1>4, SameTable
<1>5. ASSUME CntrlIntEvnExec PROVE Inv'
  <2>1. lastId' = lastId /\ initRqst' \in {initRqst, NoRqst}
    BY <1>5 DEF CntrlIntEvnExec
  <2> QED
    BY <1>0, <1>3, <1>5, <2>1, EventSlot
<1>6. ASSUME CntrlRqst PROVE Inv'
  <2>1. CASE \A x \in ExecRqsts, r \in RqstIds, s \in Slots : ~RqstExec(x, r, s)
    BY <1>3, <1>6, <2>1, CntrlRqstEffect
  <2> QED
    BY <1>1, <2>1
<1>7. ASSUME CntrlWakeUp PROVE Inv'
  BY <1>4, <1>7 DEF CntrlWakeUp
<1>8. ASSUME SignalEnd PROVE Inv'
  BY <1>4, <1>8 DEF SignalEnd, StopTasks
<1>9. ASSUME NEW t \in Tasks, CntrlWaitEnd(t) PROVE Inv'
  BY <1>4, <1>9 DEF CntrlWaitEnd
<1>10. ASSUME CntrlWakeUpEnd PROVE Inv'
  BY <1>4, <1>10 DEF CntrlWakeUpEnd
<1>11. ASSUME CntrlExit PROVE Inv'
  BY <1>4, <1>11 DEF CntrlExit
<1> HIDE DEF Inv
<1> QED
  BY <1>2, <1>5, <1>6, <1>7, <1>8, <1>9, <1>10, <1>11 DEF CntrlStep

-----------------------------------------------------------------------------
\* An execution task touches only the slots of its own activities, and only
\* those that are launched and not over.
Touches(t, i) == act[i].task = t /\ act[i].status \notin {"ETHER", "ZOMBIE"}

\* What a step of task t that changes one slot, or none, must show.
LEMMA ExecSlotKeeps ==
  ASSUME Inv, TypeOK', NEW t \in Tasks, NEW i \in Slots, Touches(t, i), Goes(i),
         \A j \in Slots \ {i} : act'[j] = act[j],
         lastId' = lastId, initRqst' = initRqst,
         \A u \in Tasks \ {t} : exec'[u] = exec[u],
         InCodel(t)' => /\ exec'[t].i = i /\ act'[i].task = t
                        /\ act'[i].status \in CodelStates
                        /\ act'[i].evn \in CodelStates
  PROVE  Inv'
<1> USE DEF Inv
<1>1. \A j \in Slots : Progress(j)
  BY UnchangedSlot DEF Progress
<1>2. lastId' >= lastId
  BY DEF TypeOK, TypeCntrl
<1>3. CodelOwned'
  <2> SUFFICES ASSUME NEW u \in Tasks, InCodel(u)'
               PROVE  /\ exec'[u].i \in Slots
                      /\ act'[exec'[u].i].task = u
                      /\ act'[exec'[u].i].status \in CodelStates
                      /\ act'[exec'[u].i].evn \in CodelStates
    BY DEF CodelOwned
  <2>1. CASE u = t
    BY <2>1
  <2>2. CASE u # t
    <3>1. exec'[u] = exec[u] /\ InCodel(u)
      BY <2>2 DEF InCodel
    <3>2. exec[u].i \in Slots /\ act[exec[u].i].task = u
      BY <3>1 DEF CodelOwned
    <3>3. exec[u].i # i
      BY <2>2, <3>2 DEF Touches
    <3> QED
      BY <3>1, <3>2, <3>3 DEF CodelOwned
  <2> QED BY <2>1, <2>2
<1> QED
  BY <1>1, <1>2, <1>3, ProgressKeeps

LEMMA ExecSameTableKeeps ==
  ASSUME Inv, TypeOK', NEW t \in Tasks, act' = act,
         lastId' = lastId, initRqst' = initRqst,
         \A u \in Tasks \ {t} : exec'[u] = exec[u],
         InCodel(t)' => InCodel(t) /\ exec'[t].i = exec[t].i
  PROVE  Inv'
<1> USE DEF Inv
<1>1. \A j \in Slots : Progress(j)
  BY UnchangedSlot
<1>2. lastId' >= lastId
  BY DEF TypeOK, TypeCntrl
<1>3. CodelOwned'
  BY DEF CodelOwned, InCodel
<1> QED
  BY <1>1, <1>2, <1>3, ProgressKeeps

LEMMA ExecStepKeeps ==
  ASSUME Inv, NEW t \in Tasks, ExecStep(t), UNCHANGED cntrlVars
  PROVE  Inv'
<1> USE DEF cntrlVars, sdiVars
<1>0. TypeOK'
  BY ExecStepTypes DEF Inv, CodelOwned, CodelInTable
<1>1. /\ act \in [Slots -> Activity] /\ exec \in [Tasks -> ExecRecords]
      /\ lastId' = lastId
  BY DEF Inv, TypeOK, TypeSDI, TypeExec, ExecRecords
<1>2. ASSUME NEW i \in Slots, ExecCallUserFunc(t, i) PROVE Inv'
  <2> DEFINE a == [act[i] EXCEPT !.status = EventOf(i), !.evn = EventOf(i)]
             x == [exec[t] EXCEPT !.pc = "codel", !.i = i, !.nb = exec[t].nb + 1]
  <2>1. EventOf(i) \in CodelStates /\ act[i].task = t
    BY <1>2 DEF ExecCallUserFunc, NextSlot
  <2>2. act[i] \in Activity
    BY <1>1
  <2>3. act[i].status \notin {"ETHER", "ZOMBIE"} /\ ~Waiting(act[i])
    BY <2>1 DEF EventOf, Inv, QuietSlots, Waiting, CodelStates
  <2>4. act' = [act EXCEPT ![i] = a] /\ initRqst' = initRqst
    BY <1>1, <1>2 DEF ExecCallUserFunc
  <2>5. exec' = [exec EXCEPT ![t] = x]
    BY <1>1, <1>2 DEF ExecCallUserFunc
  <2>6. /\ a.status = EventOf(i) /\ a.evn = EventOf(i) /\ a.task = act[i].task
        /\ a.id = act[i].id /\ a.type = act[i].type
    BY <2>2 DEF Activity
  <2>7. x.i = i
    BY <1>1 DEF ExecRecords
  <2> HIDE DEF a, x
  <2>8. act'[i] = a /\ (\A j \in Slots \ {i} : act'[j] = act[j])
    BY <1>1, <2>4
  <2>9. exec'[t] = x /\ (\A u \in Tasks \ {t} : exec'[u] = exec[u])
    BY <1>1, <2>5
  <2>10. Touches(t, i) /\ Goes(i)
    BY <2>1, <2>3, <2>6, <2>8 DEF Touches, Goes, CodelStates
  <2> QED
    BY <1>0, <1>1, <2>1, <2>4, <2>6, <2>7, <2>8, <2>9, <2>10, ExecSlotKeeps
\* A codel returned event e: its slot is still what CodelOwned says.
<1>3. ASSUME NEW e \in Events, NEW b \in CodelBilans,
             exec[t].pc \in {"codel", "relock"},
             act' = [act EXCEPT ![exec[t].i].evn = e, ![exec[t].i].bilan = b],
             initRqst' = initRqst, exec'[t].pc = "loop",
             \A u \in Tasks \ {t} : exec'[u] = exec[u]
      PROVE  Inv'
  <2> DEFINE i == exec[t].i
  <2>1. i \in Slots /\ act[i].task = t /\ act[i].status \in CodelStates
    BY <1>3 DEF Inv, CodelOwned, InCodel
  <2>2. act[i] \in Activity
    BY <1>1, <2>1
  <2> DEFINE a == [act[i] EXCEPT !.evn = e, !.bilan = b]
  <2>3. act' = [act EXCEPT ![i] = a]
    BY <1>1, <1>3, <2>1
  <2>4. /\ a.status = act[i].status /\ a.id = act[i].id /\ a.type = act[i].type
    BY <2>2 DEF Activity
  <2> HIDE DEF a, i
  <2>5. act'[i] = a /\ (\A j \in Slots \ {i} : act'[j] = act[j])
    BY <1>1, <2>1, <2>3
  <2>6. Touches(t, i) /\ Goes(i)
    BY <2>1, <2>4, <2>5 DEF Touches, Goes, Waiting, CodelStates
  <2>7. ~InCodel(t)'
    BY <1>3 DEF InCodel
  <2> QED
    BY <1>0, <1>1, <1>3, <2>1, <2>5, <2>6, <2>7, ExecSlotKeeps
<1>4. ASSUME NEW e \in Events, NEW b \in CodelBilans, NEW W \in CodelWakeUps,
             ExecCodelReturn(t, e, b, W)
      PROVE  Inv'
  <2>1. exec'[t].pc = "loop" /\ (\A u \in Tasks \ {t} : exec'[u] = exec[u])
    BY <1>1, <1>4 DEF ExecCodelReturn, ExecRecords
  <2> QED
    BY <1>3, <1>4, <2>1 DEF ExecCodelReturn, At
<1>5. ASSUME NEW e \in Events, NEW b \in CodelBilans, ExecForbidden(t, e, b)
      PROVE  Inv'
  <2>1. exec'[t].pc = "loop" /\ (\A u \in Tasks \ {t} : exec'[u] = exec[u])
    BY <1>1, <1>5 DEF ExecForbidden, ExecRecords
  <2> QED
    BY <1>3, <1>5, <2>1 DEF ExecForbidden, At
\* The other steps change no slot.
<1>6. ASSUME act' = act, initRqst' = initRqst, NEW x,
             exec' = [exec EXCEPT ![t] = x],
             x.pc \in {"codel", "unlocked", "relock"} => InCodel(t) /\ x.i = exec[t].i
      PROVE  Inv'
  <2>1. exec'[t] = x /\ (\A u \in Tasks \ {t} : exec'[u] = exec[u])
    BY <1>1, <1>6
  <2> QED
    BY <1>0, <1>1, <1>6, <2>1, ExecSameTableKeeps DEF InCodel
<1>7. ASSUME act' = act, initRqst' = initRqst, NEW p, Goto(t, p),
             p \in {"unlocked", "relock"} => InCodel(t), p # "codel"
      PROVE  Inv'
  <2> DEFINE x == [exec[t] EXCEPT !.pc = p]
  <2>1. exec' = [exec EXCEPT ![t] = x]
    BY <1>7 DEF Goto
  <2>2. x.pc = p /\ x.i = exec[t].i
    BY <1>1 DEF ExecRecords
  <2> HIDE DEF x
  <2> QED
    BY <1>6, <1>7, <2>1, <2>2
<1>8. ASSUME ExecSuspend(t) PROVE Inv'
  <2>1. exec' = exec /\ act' = act /\ initRqst' = initRqst
    BY <1>8 DEF ExecSuspend
  <2> QED
    BY <1>0, <1>1, <2>1, ExecSameTableKeeps DEF InCodel
<1>9. ASSUME ExecBegin(t) \/ ExecTake(t) PROVE Inv'
  <2> DEFINE x == [Idle EXCEPT !.pc = "loop", !.nbActi = taskNbActi[t]]
  <2>1. exec' = [exec EXCEPT ![t] = x] /\ act' = act /\ initRqst' = initRqst
    BY <1>9 DEF ExecBegin, ExecTake
  <2>2. x.pc = "loop"
    BY DEF Idle
  <2> HIDE DEF x
  <2> QED
    BY <1>6, <2>1, <2>2
<1>10. ASSUME NEW i \in Slots, ExecSkip(t, i) PROVE Inv'
  <2> DEFINE x == [exec[t] EXCEPT !.i = i + 1, !.nb = exec[t].nb + 1]
  <2>1. exec' = [exec EXCEPT ![t] = x] /\ act' = act /\ initRqst' = initRqst
    BY <1>1, <1>10 DEF ExecSkip
  <2>2. x.pc = "loop"
    BY <1>1, <1>10 DEF ExecSkip, At, ExecRecords
  <2> HIDE DEF x
  <2> QED
    BY <1>6, <2>1, <2>2
<1>11. ASSUME NEW newBilan, ExecEnd(t, newBilan) PROVE Inv'
  <2>1. exec' = [exec EXCEPT ![t] = Idle] /\ act' = act /\ initRqst' = initRqst
    BY <1>11 DEF ExecEnd
  <2> QED
    BY <1>6, <2>1 DEF Idle
<1>12. ASSUME GenomGiveSDIs(t) \/ GenomTakeSDIs(t) PROVE Inv'
  BY <1>7, <1>12 DEF GenomGiveSDIs, GenomTakeSDIs, At, InCodel
<1>13. ASSUME ExecWakeUp(t) \/ ExecStop(t) PROVE Inv'
  BY <1>7, <1>13 DEF ExecWakeUp, ExecStop
<1>14. ASSUME ExecTakeError(t) \/ ExecEndError(t) PROVE Inv'
  BY <1>7, <1>14 DEF ExecTakeError, ExecEndError
<1> QED
  BY <1>2, <1>4, <1>5, <1>8, <1>9, <1>10, <1>11, <1>12, <1>13, <1>14
     DEF ExecStep, ExecWait, ExecEnter, ExecRun

-----------------------------------------------------------------------------
(* The theorems *)

LEMMA InitInv == Init => Inv
<1> SUFFICES ASSUME Init PROVE Inv
  OBVIOUS
<1>1. TypeOK
  BY InitTypes
<1>2. \A i \in Slots : act[i].status = "ETHER" /\ act[i].evn = "NO_EVENT"
  BY DEF Init, InitSDI
<1>3. \A t \in Tasks : ~InCodel(t)
  BY DEF Init, InitExec, Idle, InCodel
<1>4. initRqst = InitRqst
  BY DEF Init, InitSDI
<1> QED
  BY <1>1, <1>2, <1>3, <1>4
     DEF Inv, CodelOwned, QuietSlots, IdsGiven, InitOrDone, NoIncompatibleRun,
         InitRqstAlone, Live

\* The invariant is inductive: no step of a task, a client, an event or a
\* signal breaks it.
LEMMA NextKeeps == Inv /\ [Next]_vars => Inv'
<1> SUFFICES ASSUME Inv, [Next]_vars PROVE Inv'
  OBVIOUS
<1> USE DEF cntrlVars, endVars, halts
<1>1. ASSUME CntrlStep, UNCHANGED exec PROVE Inv'
  BY <1>1, CntrlStepKeeps
<1>2. ASSUME NEW t \in Tasks, ExecStep(t), UNCHANGED cntrlVars PROVE Inv'
  BY <1>2, ExecStepKeeps
<1>3. ASSUME TypeOK', act' = act, exec' = exec, lastId' = lastId, initRqst' = initRqst
      PROVE  Inv'
  <2>1. lastId' >= lastId
    BY <1>3 DEF Inv, TypeOK, TypeCntrl
  <2> QED
    BY <1>3, <2>1, SameTable, HeldKeeps, ProgressKeeps DEF Inv
<1>4. ASSUME ClientSend PROVE Inv'
  <2>1. signal' \in [Tasks \cup {Cntrl} -> BOOLEAN]
    BY <1>4, SignalledType DEF ClientSend, Inv, TypeOK, TypeSDI
  <2>2. nbSent' \in 0 .. MaxRqst /\ nbRcvd' \in 0 .. nbSent'
    BY <1>4, ConstantsAssumption DEF ClientSend, Inv, TypeOK, TypeSDI
  <2>3. TypeSDI'
    BY <1>4, <2>1, <2>2 DEF ClientSend, Inv, TypeOK, TypeSDI
  <2>4. TypeCntrl' /\ TypeExec'
    BY <1>4 DEF ClientSend, Inv, TypeOK, TypeCntrl, TypeExec
  <2> QED
    BY <1>3, <1>4, <2>3, <2>4 DEF ClientSend, TypeOK
<1>5. ASSUME NEW t \in Tasks, ExternalEvent(t) PROVE Inv'
  <2>1. signal' \in [Tasks \cup {Cntrl} -> BOOLEAN]
    BY <1>5, SignalledType DEF ExternalEvent, Inv, TypeOK, TypeSDI
  <2>2. TypeSDI'
    BY <1>5, <2>1 DEF ExternalEvent, Inv, TypeOK, TypeSDI
  <2>3. TypeCntrl' /\ TypeExec'
    BY <1>5 DEF ExternalEvent, Inv, TypeOK, TypeCntrl, TypeExec
  <2> QED
    BY <1>3, <1>5, <2>2, <2>3 DEF ExternalEvent, TypeOK
<1>6. ASSUME SignalHandler, UNCHANGED exec PROVE Inv'
  <2>1. signal' \in [Tasks \cup {Cntrl} -> BOOLEAN]
    BY <1>6, SignalledType DEF SignalHandler, Inv, TypeOK, TypeSDI
  <2>2. TypeSDI'
    BY <1>6, <2>1 DEF SignalHandler, Inv, TypeOK, TypeSDI
  <2>3. signalAbort' \in BOOLEAN
    BY <1>6, Zenon DEF SignalHandler
  <2>4. TypeCntrl' /\ TypeExec'
    BY <1>6, <2>3 DEF SignalHandler, Inv, TypeOK, TypeCntrl, TypeExec
  <2> QED
    BY <1>3, <1>6, <2>2, <2>4 DEF SignalHandler, TypeOK
<1>7. ASSUME UNCHANGED vars PROVE Inv'
  <2>1. TypeOK'
    BY <1>7 DEF vars, sdiVars, Inv, TypeOK, TypeSDI, TypeCntrl, TypeExec
  <2> QED
    BY <1>3, <1>7, <2>1 DEF vars, sdiVars
<1> QED
  BY <1>1, <1>2, <1>4, <1>5, <1>6, <1>7 DEF Next, Module

\* Inv holds of every reachable state, whatever the number of tasks, slots and
\* requests, the incompatibilities and what the codels return.
THEOREM Invariant == Spec => []Inv
BY InitInv, NextKeeps, PTL DEF Spec

\* The shared state and the tasks' variables hold what they should: in
\* particular the loop of an execution task never leaves the activity table.
THEOREM TypeCorrect == Spec => []TypeOK
<1>1. Inv => TypeOK
  BY DEF Inv
<1> QED
  BY <1>1, Invariant, PTL

\* RqstExec and SpawnActivities: no activity is launched while an older one,
\* marked incompatible with it, still runs, be the tasks suspended, resumed
\* without the SDIs, or the SDIs given by codels.
THEOREM NoIncompatibleRunHolds == Spec => []NoIncompatibleRun
<1>1. Inv => NoIncompatibleRun
  BY DEF Inv
<1> QED
  BY <1>1, Invariant, PTL

\* The checks of an execution request: as long as the init request has not
\* ended with success, the table holds no activity of another type.
THEOREM InitRqstAloneHolds == Spec => []InitRqstAlone
<1>1. Inv => InitRqstAlone
  BY DEF Inv
<1> QED
  BY <1>1, Invariant, PTL

-----------------------------------------------------------------------------
(* The steps, seen from the activity table *)

\* A codel of slot i is called: a launched activity takes its event as state.
Called(i) ==
  /\ act[i].status \notin {"ETHER", "ZOMBIE"}
  /\ EventOf(i) \in CodelStates
  /\ act' = [act EXCEPT ![i] = [act[i] EXCEPT !.status = EventOf(i), !.evn = EventOf(i)]]

\* The codel of slot i returned event e.
Returned(i, e, b) ==
  /\ act[i].status \in CodelStates
  /\ act[i].evn \in CodelStates
  /\ e \in CodelResults[act[i].type][act[i].status]
  /\ act' = [act EXCEPT ![i] = [act[i] EXCEPT !.evn = e, !.bilan = b]]

\* The variables only the control task and the clients change.
letters == <<nbSent, nbRcvd, replies>>
counted == <<nbActivities, taskNbActi, nbZombie, lastId, lastActivity>>

\* A request handler answers, interrupts activities or allocates one; the other
\* requests, resume and end, leave the table alone.
LEMMA RqstCases ==
  ASSUME TypeOK, CntrlRqst
  PROVE  \E r \in RqstIds :
           /\ Serve(r)
           /\ \/ \E S \in SUBSET Slots, b \in Finals : AbortAndAnswer(S, r, b)
              \/ \E b \in Finals : Answer(r, b)
              \/ \E x \in ExecRqsts, s \in Slots : RqstExec(x, r, s)
              \/ \E x \in ExecRqsts, s \in Slots : RqstExecCodelError(x, r, s)
              \/ \E n \in AbortArgs : RqstResume(n, r)
              \/ \E n \in AbortArgs : RqstEndModule(n, r)
<1>1. PICK r \in RqstIds :
        \/ \E x \in ExecRqsts : \/ RqstExecRefused(x, r)
                                \/ \E s \in Slots : RqstExecCodelError(x, r, s)
                                \/ \E s \in Slots : RqstExec(x, r, s)
        \/ \E x \in CntrlRqsts : RqstCntrlRefused(r)
        \/ \E x \in CntrlRqsts, b \in {"OK", "CONTROL_CODEL_ERROR"} : RqstCntrl(x, r, b)
        \/ \E n \in AbortArgs : \/ RqstAbortActivity(n, r)
                                \/ RqstAbortEnded(n, r)
                                \/ RqstAbortUnknown(n, r)
                                \/ RqstAbortOther(n, r)
                                \/ RqstResume(n, r)
                                \/ RqstEndRefused(n, r)
                                \/ RqstEndModule(n, r)
  BY DEF CntrlRqst
<1> DEFINE Case ==
      /\ Serve(r)
      /\ \/ \E S \in SUBSET Slots, b \in Finals : AbortAndAnswer(S, r, b)
         \/ \E b \in Finals : Answer(r, b)
         \/ \E x \in ExecRqsts, s \in Slots : RqstExec(x, r, s)
         \/ \E x \in ExecRqsts, s \in Slots : RqstExecCodelError(x, r, s)
         \/ \E n \in AbortArgs : RqstResume(n, r)
         \/ \E n \in AbortArgs : RqstEndModule(n, r)
<1>2. ASSUME NEW b \in Finals, Serve(r), Answer(r, b) PROVE Case
  BY <1>2
<1>3. ASSUME NEW S \in SUBSET Slots, NEW b \in Finals, Serve(r), AbortAndAnswer(S, r, b)
      PROVE Case
  BY <1>3
<1>4. ASSUME NEW x \in ExecRqsts, NEW s \in Slots,
             RqstExec(x, r, s) \/ RqstExecCodelError(x, r, s)
      PROVE Case
  <2>1. Serve(r)
    BY <1>4 DEF RqstExec, RqstExecCodelError
  <2> QED BY <1>4, <2>1
<1>5. ASSUME NEW n \in AbortArgs, RqstResume(n, r) \/ RqstEndModule(n, r) PROVE Case
  <2>1. Serve(r)
    BY <1>5 DEF RqstResume, RqstEndModule
  <2> QED BY <1>5, <2>1
<1> HIDE DEF Case
<1>6. ASSUME NEW x \in ExecRqsts, RqstExecRefused(x, r) PROVE Case
  <2>1. Refusal(x) \in Finals
    BY <1>6 DEF RqstExecRefused, Refusal, Finals, Refusals
  <2> QED
    BY <1>2, <1>6, <2>1 DEF RqstExecRefused
<1>7. ASSUME RqstCntrlRefused(r) PROVE Case
  BY <1>2, <1>7 DEF RqstCntrlRefused, Finals, Refusals
<1>8. ASSUME NEW x \in CntrlRqsts, NEW b \in {"OK", "CONTROL_CODEL_ERROR"},
             RqstCntrl(x, r, b)
      PROVE Case
  <2>1. b \in Finals /\ Targets(x) \in SUBSET Slots
    BY DEF Finals, Refusals, Targets, Live
  <2> QED
    BY <1>3, <1>8, <2>1 DEF RqstCntrl
<1>9. ASSUME NEW n \in AbortArgs, RqstAbortActivity(n, r) PROVE Case
  <2>1. "OK" \in Finals /\ HoldsId(n) \in SUBSET Slots
    BY DEF Finals, HoldsId
  <2> QED
    BY <1>3, <1>9, <2>1 DEF RqstAbortActivity
<1>10. ASSUME NEW n \in AbortArgs, RqstAbortEnded(n, r) PROVE Case
  BY <1>2, <1>10 DEF RqstAbortEnded, Finals, Refusals
<1>11. ASSUME NEW n \in AbortArgs, RqstAbortUnknown(n, r) PROVE Case
  BY <1>2, <1>11 DEF RqstAbortUnknown, Finals, Refusals
<1>12. ASSUME NEW n \in AbortArgs, RqstAbortOther(n, r) PROVE Case
  <2> DEFINE b == IF n \in GENOM_FLAG_RQSTS THEN "OK" ELSE "UNKNOWN_ACTIVITY"
  <2>1. b \in Finals
    BY DEF Finals, Refusals
  <2>2. Serve(r) /\ Answer(r, b)
    BY <1>12 DEF RqstAbortOther
  <2> HIDE DEF b
  <2> QED
    BY <1>2, <2>1, <2>2
<1>13. ASSUME NEW n \in AbortArgs, RqstEndRefused(n, r) PROVE Case
  BY <1>2, <1>13 DEF RqstEndRefused, Finals, Refusals
<1>14. Case
  BY <1>1, <1>4, <1>5, <1>6, <1>7, <1>8, <1>9, <1>10, <1>11, <1>12, <1>13
<1> QED
  BY <1>14 DEF Case

\* An execution task calls a codel, gets an event from one, or leaves the table
\* alone; it never touches the requests, the replies or the counters.
LEMMA ExecCases ==
  ASSUME Inv, NEW t \in Tasks, ExecStep(t), UNCHANGED cntrlVars
  PROVE  /\ UNCHANGED <<letters, counted, cntrlPc, endVars, initRqst>>
         /\ \/ act' = act
            \/ \E i \in Slots : Called(i)
            \/ \E i \in Slots, e \in Events, b \in Bilans : Returned(i, e, b)
<1> USE DEF letters, counted, cntrlVars, endVars, sdiVars
<1>0. act \in [Slots -> Activity]
  BY DEF Inv, TypeOK, TypeSDI
<1> DEFINE Others == UNCHANGED <<letters, counted, cntrlPc, endVars, initRqst>>
           Table == \/ act' = act
                    \/ \E i \in Slots : Called(i)
                    \/ \E i \in Slots, e \in Events, b \in Bilans : Returned(i, e, b)
<1>1. ASSUME NEW i \in Slots, ExecCallUserFunc(t, i) PROVE Others /\ Table
  <2>1. Others
    BY <1>1 DEF ExecCallUserFunc
  <2>2. EventOf(i) \in CodelStates
    BY <1>1 DEF ExecCallUserFunc
  <2>3. act[i].status \notin {"ETHER", "ZOMBIE"}
    BY <2>2 DEF EventOf, Inv, QuietSlots, CodelStates
  <2>4. act' = [act EXCEPT ![i] = [act[i] EXCEPT !.status = EventOf(i), !.evn = EventOf(i)]]
    BY <1>0, <1>1 DEF ExecCallUserFunc
  <2> QED
    BY <2>1, <2>2, <2>3, <2>4 DEF Called
<1>2. ASSUME NEW e \in Events, NEW b \in CodelBilans, exec[t].pc \in {"codel", "relock"},
             e \in CodelResults[act[exec[t].i].type][act[exec[t].i].status],
             act' = [act EXCEPT ![exec[t].i].evn = e, ![exec[t].i].bilan = b]
      PROVE  Table
  <2> DEFINE i == exec[t].i
  <2>1. i \in Slots /\ act[i].status \in CodelStates /\ act[i].evn \in CodelStates
    BY <1>2 DEF Inv, CodelOwned, InCodel
  <2>2. act' = [act EXCEPT ![i] = [act[i] EXCEPT !.evn = e, !.bilan = b]]
    BY <1>0, <1>2, <2>1
  <2>3. b \in Bilans
    BY ExecAssumption
  <2>4. Returned(i, e, b)
    BY <1>2, <2>1, <2>2 DEF Returned
  <2> QED
    BY <2>1, <2>3, <2>4
<1>3. ASSUME NEW e \in Events, NEW b \in CodelBilans, NEW W \in CodelWakeUps,
             ExecCodelReturn(t, e, b, W)
      PROVE  Others /\ Table
  <2>1. Others
    BY <1>3 DEF ExecCodelReturn
  <2> QED
    BY <1>2, <1>3, <2>1 DEF ExecCodelReturn, At
<1>4. ASSUME NEW e \in Events, NEW b \in CodelBilans, ExecForbidden(t, e, b)
      PROVE  Others /\ Table
  <2>1. Others
    BY <1>4 DEF ExecForbidden
  <2> QED
    BY <1>2, <1>4, <2>1 DEF ExecForbidden, At
<1>5. ASSUME \/ ExecWakeUp(t) \/ ExecStop(t) \/ ExecTake(t) \/ ExecTakeError(t)
             \/ GenomTakeSDIs(t) \/ ExecSuspend(t) \/ ExecBegin(t)
             \/ GenomGiveSDIs(t) \/ ExecEndError(t)
      PROVE  Others /\ Table
  BY <1>5 DEF ExecWakeUp, ExecStop, ExecTake, ExecTakeError, GenomTakeSDIs,
              ExecSuspend, ExecBegin, GenomGiveSDIs, ExecEndError
<1>6. ASSUME NEW i \in Slots, ExecSkip(t, i) PROVE Others /\ Table
  BY <1>6 DEF ExecSkip
<1>7. ASSUME NEW newBilan \in BOOLEAN, ExecEnd(t, newBilan) PROVE Others /\ Table
  BY <1>7 DEF ExecEnd
<1> HIDE DEF Others, Table
<1>8. Others /\ Table
  BY <1>1, <1>3, <1>4, <1>5, <1>6, <1>7 DEF ExecStep, ExecWait, ExecEnter, ExecRun
<1> QED
  BY <1>8 DEF Others, Table

\* The steps of the module that concern neither the requests nor the end of
\* activities: at most one slot changes, by the task its activity belongs to.
Elsewhere ==
  /\ UNCHANGED <<counted, nbRcvd, replies, endRqst>>
  /\ cntrlPc' = "exited" <=> cntrlPc = "exited"
  /\ cntrlPc \in {"ending", "endsusp", "exited"}
       => cntrlPc' \in {"ending", "endsusp", "exited"}
  /\ \/ act' = act
     \/ \E i \in Slots : Called(i)
     \/ \E i \in Slots, e \in Events, b \in Bilans : Returned(i, e, b)

LEMMA NextCases ==
  ASSUME Inv, [Next]_vars
  PROVE  \/ CntrlRqst
         \/ CntrlIntEvnExec
         \/ SpawnActivities
         \/ CntrlExit
         \/ Elsewhere
<1> USE DEF counted, cntrlVars, endVars, sdiVars
<1>1. ASSUME NEW t \in Tasks, ExecStep(t), UNCHANGED cntrlVars PROVE Elsewhere
  BY <1>1, ExecCases DEF Elsewhere, letters
<1>2. ASSUME ClientSend PROVE Elsewhere
  BY <1>2 DEF ClientSend, Elsewhere
<1>3. ASSUME NEW t \in Tasks, ExternalEvent(t) PROVE Elsewhere
  BY <1>3 DEF ExternalEvent, Elsewhere
<1>4. ASSUME SignalHandler PROVE Elsewhere
  BY <1>4 DEF SignalHandler, Elsewhere
<1>5. ASSUME UNCHANGED vars PROVE Elsewhere
  BY <1>5 DEF vars, Elsewhere
<1>6. ASSUME CntrlWakeUp PROVE Elsewhere
  BY <1>6 DEF CntrlWakeUp, Elsewhere
<1>7. ASSUME SignalEnd PROVE Elsewhere
  BY <1>7 DEF SignalEnd, StopTasks, Elsewhere
<1>8. ASSUME NEW t \in Tasks, CntrlWaitEnd(t) PROVE Elsewhere
  BY <1>8 DEF CntrlWaitEnd, Elsewhere
<1>9. ASSUME CntrlWakeUpEnd PROVE Elsewhere
  BY <1>9 DEF CntrlWakeUpEnd, Elsewhere
<1> QED
  BY <1>1, <1>2, <1>3, <1>4, <1>5, <1>6, <1>7, <1>8, <1>9 DEF Next, Module, CntrlStep

-----------------------------------------------------------------------------
\* What every step does to a slot where it allocates no activity: its number,
\* request and type stay, even when it is freed; a free slot stays as it is; an
\* activity that waits was waiting, for as many or more.
Carried(i) ==
  /\ act'[i].id = act[i].id /\ act'[i].rqst = act[i].rqst /\ act'[i].type = act[i].type
  /\ act[i].status = "ETHER" => act'[i] = act[i]
  /\ act'[i].status # "ETHER" => act'[i].task = act[i].task
  /\ Waiting(act'[i]) => Waiting(act[i]) /\ act'[i].incomp \subseteq act[i].incomp
  /\ act'[i].status = "INIT" =>
       act[i].status = "INIT" /\ act'[i].evn \in {act[i].evn, "START"}

LEMMA CarriedSame ==
  ASSUME NEW i \in Slots, act'[i] = act[i]
  PROVE  Carried(i)
BY DEF Carried

LEMMA CarriedFreed ==
  ASSUME TypeSDI, NEW i \in Slots, act[i].status # "ETHER", act'[i] = Freed(act[i])
  PROVE  Carried(i)
<1>1. act[i] \in Activity
  BY DEF TypeSDI
<1> QED
  BY <1>1 DEF Carried, Freed, Activity, Waiting

LEMMA CarriedAbort ==
  ASSUME TypeSDI, NEW S \in SUBSET Slots, NEW i \in Slots, act'[i] = AbortTable(S)[i]
  PROVE  Carried(i)
<1>1. act[i] \in Activity
  BY DEF TypeSDI
<1>2. CASE i \in Ended(S)
  <2>1. act'[i] = Freed(act[i]) /\ act[i].status # "ETHER"
    BY <1>2 DEF AbortTable, Ended, AbortEnds, CodelStates
  <2> QED
    BY <2>1, CarriedFreed
<1>3. CASE i \notin Ended(S) /\ i \in Interrupted(S)
  <2>1. act'[i] = [act[i] EXCEPT !.evn = "INTER"]
    BY <1>3 DEF AbortTable
  <2>2. act[i].status \in CodelStates \cup {"SLEEP"}
    BY <1>3 DEF Interrupted, AbortInterrupts
  <2> QED
    BY <1>1, <2>1, <2>2 DEF Carried, Waiting, Activity, CodelStates
<1>4. CASE i \notin Ended(S) /\ i \notin Interrupted(S)
  BY <1>4, CarriedSame DEF AbortTable
<1> QED
  BY <1>2, <1>3, <1>4

LEMMA CarriedEvent ==
  ASSUME TypeSDI, QuietSlots, CntrlIntEvnExec, NEW i \in Slots
  PROVE  Carried(i)
<1>1. act[i] \in Activity
  BY DEF TypeSDI
<1>2. CASE act[i].evn = "ETHER"
  <2>1. act'[i] = Freed(act[i]) /\ act[i].status # "ETHER"
    BY <1>2 DEF CntrlIntEvnExec, QuietSlots
  <2> QED
    BY <2>1, CarriedFreed
<1>3. CASE act[i].evn \in {"ZOMBIE", "SLEEP"}
  <2>1. act'[i] = [act[i] EXCEPT !.status = act[i].evn, !.evn = "NO_EVENT"]
    BY <1>3 DEF CntrlIntEvnExec
  <2>2. act[i].status # "ETHER"
    BY <1>3 DEF QuietSlots
  <2> QED
    BY <1>1, <1>3, <2>1, <2>2 DEF Carried, Waiting, Activity
<1>4. CASE act[i].evn \notin {"ETHER", "ZOMBIE", "SLEEP"}
  BY <1>4, CarriedSame DEF CntrlIntEvnExec
<1> QED
  BY <1>2, <1>3, <1>4

LEMMA CarriedSpawn ==
  ASSUME TypeSDI, SpawnActivities, NEW i \in Slots
  PROVE  /\ Carried(i)
         /\ act'[i].status = act[i].status
         /\ ~Waiting(act[i]) => act'[i] = act[i]
<1> DEFINE over(j) == act[j].status \in {"ETHER", "ZOMBIE"}
           ready   == {k \in Slots : Waiting(act[k]) /\ \A j \in act[k].incomp : over(j)}
           e == IF i \in ready THEN "START" ELSE act[i].evn
           I == {j \in act[i].incomp : ~over(j)}
<1>1. act[i] \in Activity
  BY DEF TypeSDI
<1>2. CASE Waiting(act[i])
  <2>1. act'[i] = [act[i] EXCEPT !.evn = e, !.incomp = I]
    BY <1>2 DEF SpawnActivities
  <2>2. e \in {act[i].evn, "START"} /\ I \subseteq act[i].incomp
    OBVIOUS
  <2> HIDE DEF e, I
  <2> QED
    BY <1>1, <1>2, <2>1, <2>2 DEF Carried, Waiting, Activity
<1>3. CASE ~Waiting(act[i])
  BY <1>3, CarriedSame DEF SpawnActivities
<1> QED
  BY <1>2, <1>3

\* No slot is freed, and only a launched activity is touched.
LEMMA CarriedElsewhere ==
  ASSUME Inv, Elsewhere, NEW i \in Slots
  PROVE  /\ Carried(i)
         /\ \/ act'[i].status = act[i].status
            \/ act[i].status \notin {"ETHER", "ZOMBIE"} /\ act'[i].status \in CodelStates
         /\ Waiting(act[i]) => act'[i] = act[i]
<1>0. act \in [Slots -> Activity] /\ act[i] \in Activity
  BY DEF Inv, TypeOK, TypeSDI
<1> DEFINE Fact == /\ Carried(i)
                   /\ \/ act'[i].status = act[i].status
                      \/ act[i].status \notin {"ETHER", "ZOMBIE"} /\ act'[i].status \in CodelStates
                   /\ Waiting(act[i]) => act'[i] = act[i]
<1>1. ASSUME act'[i] = act[i] PROVE Fact
  BY <1>1, CarriedSame
<1>2. ASSUME NEW j \in Slots, Called(j) PROVE Fact
  <2>1. CASE i = j
    <3>1. act'[i] = [act[i] EXCEPT !.status = EventOf(i), !.evn = EventOf(i)]
      BY <1>0, <1>2, <2>1 DEF Called
    <3>2. EventOf(i) \in CodelStates /\ act[i].status \notin {"ETHER", "ZOMBIE"}
      BY <1>2, <2>1 DEF Called
    <3>3. ~Waiting(act[i])
      BY <3>2 DEF EventOf, Waiting, CodelStates
    <3> QED
      BY <1>0, <3>1, <3>2, <3>3 DEF Carried, Waiting, Activity, CodelStates
  <2>2. CASE i # j
    <3>1. act'[i] = act[i]
      BY <1>0, <1>2, <2>2 DEF Called
    <3> QED BY <1>1, <3>1
  <2> QED BY <2>1, <2>2
<1>3. ASSUME NEW j \in Slots, NEW e \in Events, NEW b \in Bilans, Returned(j, e, b)
      PROVE  Fact
  <2>1. CASE i = j
    <3>1. act'[i] = [act[i] EXCEPT !.evn = e, !.bilan = b]
      BY <1>0, <1>3, <2>1 DEF Returned
    <3>2. act[i].status \in CodelStates
      BY <1>3, <2>1 DEF Returned
    <3> QED
      BY <1>0, <3>1, <3>2 DEF Carried, Waiting, Activity, CodelStates
  <2>2. CASE i # j
    <3>1. act'[i] = act[i]
      BY <1>0, <1>3, <2>2 DEF Returned
    <3> QED BY <1>1, <3>1
  <2> QED BY <2>1, <2>2
<1> HIDE DEF Fact
<1>4. Fact
  BY <1>1, <1>2, <1>3 DEF Elsewhere
<1> QED
  BY <1>4 DEF Fact

-----------------------------------------------------------------------------
(* The counters of the control task *)

LEMMA SlotsFinite ==
  ASSUME NEW S \in SUBSET Slots
  PROVE  IsFiniteSet(S) /\ Cardinality(S) \in Nat
<1>1. 0 \in Int /\ MaxActivities - 1 \in Int
  BY ConstantsAssumption
<1>2. IsFiniteSet(Slots)
  BY <1>1, FS_Interval DEF Slots
<1> QED
  BY <1>2, FS_Subset, FS_CardinalityType

LEMMA CountAdded ==
  ASSUME NEW A \in SUBSET Slots, NEW B \in SUBSET Slots, A \cap B = {}
  PROVE  Cardinality(A \cup B) = Cardinality(A) + Cardinality(B)
<1>1. IsFiniteSet(A) /\ IsFiniteSet(B) /\ Cardinality(A) \in Nat /\ Cardinality(B) \in Nat
  BY SlotsFinite
<1>2. Cardinality(A \cap B) = 0
  BY FS_EmptySet
<1>3. Cardinality(A \cup B) = Cardinality(A) + Cardinality(B) - Cardinality(A \cap B)
  BY <1>1, FS_Union
<1> QED
  BY <1>1, <1>2, <1>3

LEMMA CountRemoved ==
  ASSUME NEW A \in SUBSET Slots, NEW B \in SUBSET A
  PROVE  Cardinality(A \ B) = Cardinality(A) - Cardinality(B)
<1>1. A \ B \in SUBSET Slots /\ B \in SUBSET Slots /\ (A \ B) \cap B = {}
  OBVIOUS
<1>2. (A \ B) \cup B = A
  OBVIOUS
<1>3. Cardinality((A \ B) \cup B) = Cardinality(A \ B) + Cardinality(B)
  BY <1>1, CountAdded
<1>4. Cardinality(A \ B) \in Nat /\ Cardinality(B) \in Nat
  BY <1>1, SlotsFinite
<1>5. Cardinality(A) = Cardinality(A \ B) + Cardinality(B)
  BY <1>2, <1>3
<1> QED
  BY <1>4, <1>5

\* A set of slots that loses the slots of E and gains those of N.
LEMMA CountChanged ==
  ASSUME NEW A \in SUBSET Slots, NEW E \in SUBSET A, NEW N \in SUBSET Slots, N \cap A = {}
  PROVE  Cardinality((A \ E) \cup N) = Cardinality(A) + Cardinality(N) - Cardinality(E)
<1>1. A \ E \in SUBSET Slots /\ (A \ E) \cap N = {} /\ E \in SUBSET Slots
  OBVIOUS
<1>2. Cardinality((A \ E) \cup N) = Cardinality(A \ E) + Cardinality(N)
  BY <1>1, CountAdded
<1>3. Cardinality(A \ E) = Cardinality(A) - Cardinality(E)
  BY CountRemoved
<1>4. Cardinality(A) \in Nat /\ Cardinality(E) \in Nat /\ Cardinality(N) \in Nat
  BY <1>1, SlotsFinite
<1> QED
  BY <1>2, <1>3, <1>4

\* The activities of N are allocated, those of E freed, those of F frozen.
LEMMA BooksKept ==
  ASSUME TypeOK, CountersExact,
         NEW N \in SUBSET (Slots \ Live), NEW E \in SUBSET Live,
         NEW F \in SUBSET (Live \ (E \cup Zombie)),
         Live' = (Live \ E) \cup N,
         Zombie' = (Zombie \ E) \cup F,
         \A i \in Live \ E : act'[i].task = act[i].task,
         nbActivities' = nbActivities + Cardinality(N) - Cardinality(E),
         \A t \in Tasks :
           taskNbActi'[t] = taskNbActi[t] + Cardinality({i \in N : act'[i].task = t})
                              - Cardinality({i \in E : act[i].task = t}),
         nbZombie' = nbZombie + Cardinality(F) - Cardinality(E \cap Zombie)
  PROVE  CountersExact'
<1>0. Live \in SUBSET Slots /\ Zombie \in SUBSET Live
  BY DEF Live, Zombie
<1>1. nbActivities' = Cardinality(Live')
  <2>1. Cardinality((Live \ E) \cup N) = Cardinality(Live) + Cardinality(N) - Cardinality(E)
    BY <1>0, CountChanged
  <2> QED
    BY <2>1 DEF CountersExact
<1>2. ASSUME NEW t \in Tasks
      PROVE  taskNbActi'[t] = Cardinality({i \in Live' : act'[i].task = t})
  <2> DEFINE A == {i \in Live : act[i].task = t}
             B == {i \in E : act[i].task = t}
             C == {i \in N : act'[i].task = t}
             D == {i \in Live' : act'[i].task = t}
  <2>1. D = (A \ B) \cup C
    BY <1>0
  <2>2. A \in SUBSET Slots /\ B \in SUBSET A /\ C \in SUBSET Slots /\ C \cap A = {}
    BY <1>0
  <2>3. taskNbActi[t] = Cardinality(A)
    BY DEF CountersExact
  <2>4. taskNbActi'[t] = taskNbActi[t] + Cardinality(C) - Cardinality(B)
    OBVIOUS
  <2> HIDE DEF A, B, C, D
  <2>5. Cardinality((A \ B) \cup C) = Cardinality(A) + Cardinality(C) - Cardinality(B)
    BY <2>2, CountChanged
  <2>6. taskNbActi'[t] = Cardinality(D)
    BY <2>1, <2>3, <2>4, <2>5
  <2> QED
    BY <2>6 DEF D
<1>3. nbZombie' = Cardinality(Zombie')
  <2> DEFINE G == E \cap Zombie
  <2>1. Zombie' = (Zombie \ G) \cup F
    OBVIOUS
  <2>2. Zombie \in SUBSET Slots /\ G \in SUBSET Zombie /\ F \in SUBSET Slots
        /\ F \cap Zombie = {}
    BY <1>0
  <2>3. Cardinality((Zombie \ G) \cup F)
          = Cardinality(Zombie) + Cardinality(F) - Cardinality(G)
    BY <2>2, CountChanged
  <2> QED
    BY <2>1, <2>3 DEF CountersExact
<1> QED
  BY <1>1, <1>2, <1>3 DEF CountersExact

LEMMA BooksSame ==
  ASSUME CountersExact, nbActivities' = nbActivities, taskNbActi' = taskNbActi,
         nbZombie' = nbZombie, Live' = Live, Zombie' = Zombie,
         \A i \in Live : act'[i].task = act[i].task
  PROVE  CountersExact'
<1>1. ASSUME NEW t \in Tasks
      PROVE  {i \in Live' : act'[i].task = t} = {i \in Live : act[i].task = t}
  OBVIOUS
<1> QED
  BY <1>1 DEF CountersExact

\* AbortActivity of every slot of S frees those of Ended(S), whatever is left.
LEMMA AbortedTable ==
  ASSUME TypeSDI, NEW S \in SUBSET Slots, NEW i \in Slots
  PROVE  /\ AbortTable(S)[i].status =
              IF i \in Ended(S) THEN "ETHER" ELSE act[i].status
         /\ i \notin Ended(S) => AbortTable(S)[i].task = act[i].task
         /\ i \in Ended(S) => act[i].status # "ETHER"
<1>1. act[i] \in Activity
  BY DEF TypeSDI
<1> QED
  BY <1>1 DEF AbortTable, Freed, Activity, Ended, AbortEnds, CodelStates

LEMMA AbortKeepsBooks ==
  ASSUME TypeOK, CountersExact, NEW S \in SUBSET Slots, NEW r, NEW b,
         AbortAndAnswer(S, r, b)
  PROVE  CountersExact'
<1> DEFINE E == Ended(S)
<1>1. act' = AbortTable(S) /\ FreeCounters(E)
      /\ nbZombie' = nbZombie - Cardinality(E \cap Zombie)
  BY DEF AbortAndAnswer
<1>2. E \in SUBSET Live
  BY AbortedTable DEF Ended, Live, TypeOK
<1>3. Live' = Live \ E /\ Zombie' = Zombie \ E
  BY <1>1, AbortedTable DEF Live, Zombie, TypeOK
<1>4. \A i \in Live \ E : act'[i].task = act[i].task
  BY <1>1, AbortedTable DEF Live, TypeOK
<1> HIDE DEF E
<1>5. {} \in SUBSET (Slots \ Live) /\ {} \in SUBSET (Live \ (E \cup Zombie))
      /\ Live' = (Live \ E) \cup {} /\ Zombie' = (Zombie \ E) \cup {}
  BY <1>3
<1>6. Cardinality({}) = 0
  BY FS_EmptySet
<1>7. /\ nbActivities \in Int /\ nbZombie \in Int
      /\ Cardinality(E) \in Nat /\ Cardinality(E \cap Zombie) \in Nat
      /\ \A t \in Tasks : /\ taskNbActi[t] \in Int
                          /\ Cardinality({i \in E : act[i].task = t}) \in Nat
  <2>1. E \in SUBSET Slots /\ E \cap Zombie \in SUBSET Slots
        /\ \A t \in Tasks : {i \in E : act[i].task = t} \in SUBSET Slots
    BY <1>2 DEF Live
  <2> QED
    BY <2>1, SlotsFinite DEF TypeOK, TypeSDI, TypeCntrl
<1>8. nbActivities' = nbActivities + Cardinality({}) - Cardinality(E)
  BY <1>1, <1>6, <1>7 DEF FreeCounters
<1>9. ASSUME NEW t \in Tasks
      PROVE  taskNbActi'[t] = taskNbActi[t] + Cardinality({i \in {} : act'[i].task = t})
                                - Cardinality({i \in E : act[i].task = t})
  <2>1. {i \in {} : act'[i].task = t} = {}
    OBVIOUS
  <2>2. taskNbActi'[t] = taskNbActi[t] - Cardinality({i \in E : act[i].task = t})
    BY <1>1 DEF FreeCounters
  <2> QED
    BY <1>6, <1>7, <2>1, <2>2
<1>10. nbZombie' = nbZombie + Cardinality({}) - Cardinality(E \cap Zombie)
  BY <1>1, <1>6, <1>7
<1> QED
  BY <1>2, <1>4, <1>5, <1>8, <1>9, <1>10, BooksKept

\* RqstExec is only accepted where no activity is frozen.
LEMMA ExecKeepsBooks ==
  ASSUME TypeOK, CountersExact, NEW x \in ExecRqsts, NEW r \in RqstIds, NEW s \in Slots,
         RqstExec(x, r, s)
  PROVE  CountersExact'
<1> DEFINE S == Targets(x)
           E == Ended(S)
           new == NewActivity(x, r, S \ E)
<1>1. /\ act' = [AbortTable(S) EXCEPT ![s] = new]
      /\ nbActivities' = nbActivities + 1 - Cardinality(E)
      /\ nbZombie' = nbZombie - Cardinality(E \cap Zombie)
      /\ \A t \in Tasks :
           taskNbActi'[t] = taskNbActi[t] + (IF t = TaskOf[x] THEN 1 ELSE 0)
                              - Cardinality({i \in E : act[i].task = t})
  BY DEF RqstExec
<1>2. S \in SUBSET Slots /\ s \in Slots \ Live
  BY DEF RqstExec, FirstFree, Targets, Live
<1>3. E \in SUBSET Live
  BY <1>2, AbortedTable DEF Ended, Live, TypeOK
<1>4. AbortTable(S) \in [Slots -> Activity]
  BY <1>2, AbortTableType DEF TypeOK
<1>5. new.status = "INIT" /\ new.task = TaskOf[x]
  BY DEF NewActivity
<1> HIDE DEF new
<1>6. act'[s] = new /\ (\A i \in Slots \ {s} : act'[i] = AbortTable(S)[i])
  BY <1>1, <1>4
<1>7. Live' = (Live \ E) \cup {s} /\ Zombie' = (Zombie \ E) \cup {}
  BY <1>2, <1>3, <1>5, <1>6, AbortedTable DEF Live, Zombie, TypeOK
<1>8. \A i \in Live \ E : act'[i].task = act[i].task
  BY <1>2, <1>6, AbortedTable DEF Live, TypeOK
<1> HIDE DEF E, S
<1>9. Cardinality({}) = 0 /\ Cardinality({s}) = 1
  BY FS_EmptySet, FS_Singleton
<1>10. /\ nbActivities \in Int /\ nbZombie \in Int
       /\ Cardinality(E) \in Nat /\ Cardinality(E \cap Zombie) \in Nat
       /\ \A t \in Tasks : /\ taskNbActi[t] \in Int
                          /\ Cardinality({i \in E : act[i].task = t}) \in Nat
  <2>1. E \in SUBSET Slots /\ E \cap Zombie \in SUBSET Slots
        /\ \A t \in Tasks : {i \in E : act[i].task = t} \in SUBSET Slots
    BY <1>3 DEF Live
  <2> QED
    BY <2>1, SlotsFinite DEF TypeOK, TypeSDI, TypeCntrl
<1>11. nbActivities' = nbActivities + Cardinality({s}) - Cardinality(E)
  BY <1>1, <1>9
<1>12. ASSUME NEW t \in Tasks
       PROVE  taskNbActi'[t] = taskNbActi[t] + Cardinality({i \in {s} : act'[i].task = t})
                                 - Cardinality({i \in E : act[i].task = t})
  <2>1. {i \in {s} : act'[i].task = t} = IF t = TaskOf[x] THEN {s} ELSE {}
    BY <1>5, <1>6
  <2>2. Cardinality({i \in {s} : act'[i].task = t}) = IF t = TaskOf[x] THEN 1 ELSE 0
    BY <1>9, <2>1
  <2> QED
    BY <1>1, <2>2
<1>13. nbZombie' = nbZombie + Cardinality({}) - Cardinality(E \cap Zombie)
  BY <1>1, <1>9, <1>10
<1>14. {s} \in SUBSET (Slots \ Live) /\ {} \in SUBSET (Live \ (E \cup Zombie))
  BY <1>2
<1> QED
  BY <1>3, <1>7, <1>8, <1>11, <1>12, <1>13, <1>14, BooksKept

LEMMA EventsKeepBooks ==
  ASSUME TypeOK, QuietSlots, CountersExact, CntrlIntEvnExec
  PROVE  CountersExact'
<1> DEFINE E == {i \in Slots : act[i].evn = "ETHER"}
           F == {i \in Slots : act[i].evn = "ZOMBIE"}
<1>1. E \in SUBSET Live /\ E \cap Zombie = {} /\ F \in SUBSET (Live \ (E \cup Zombie))
  BY DEF Live, Zombie, QuietSlots
<1>2. /\ FreeCounters(E)
      /\ nbZombie' = nbZombie + Cardinality(F) - Cardinality(E \cap Zombie)
  BY DEF CntrlIntEvnExec
<1>3. ASSUME NEW i \in Slots
      PROVE  /\ act'[i].status = IF i \in E THEN "ETHER"
                                 ELSE IF i \in F THEN "ZOMBIE"
                                 ELSE IF act[i].evn = "SLEEP" THEN "SLEEP"
                                 ELSE act[i].status
             /\ i \notin E => act'[i].task = act[i].task
  <2>1. act[i] \in Activity
    BY DEF TypeOK, TypeSDI
  <2>2. act'[i] = IF i \in E THEN Freed(act[i])
                  ELSE IF act[i].evn \in {"ZOMBIE", "SLEEP"}
                  THEN [act[i] EXCEPT !.status = act[i].evn, !.evn = "NO_EVENT"]
                  ELSE act[i]
    BY DEF CntrlIntEvnExec
  <2> QED
    BY <2>1, <2>2 DEF Freed, Activity
<1>4. \A i \in Slots : act[i].evn = "SLEEP" => act[i].status \notin {"ETHER", "ZOMBIE"}
  BY DEF QuietSlots
<1>5. Live' = (Live \ E) \cup {}
  BY <1>1, <1>3, <1>4 DEF Live
<1>6. Zombie' = (Zombie \ E) \cup F
  BY <1>1, <1>3, <1>4 DEF Zombie
<1>7. \A i \in Live \ E : act'[i].task = act[i].task
  BY <1>3 DEF Live
<1> HIDE DEF E, F
<1>8. Cardinality({}) = 0
  BY FS_EmptySet
<1>9. /\ nbActivities \in Int /\ nbZombie \in Int
      /\ Cardinality(E) \in Nat /\ Cardinality(E \cap Zombie) \in Nat
      /\ \A t \in Tasks : /\ taskNbActi[t] \in Int
                          /\ Cardinality({i \in E : act[i].task = t}) \in Nat
  <2>1. E \in SUBSET Slots /\ E \cap Zombie \in SUBSET Slots
        /\ \A t \in Tasks : {i \in E : act[i].task = t} \in SUBSET Slots
    BY <1>1 DEF Live
  <2> QED
    BY <2>1, SlotsFinite DEF TypeOK, TypeSDI, TypeCntrl
<1>10. nbActivities' = nbActivities + Cardinality({}) - Cardinality(E)
  BY <1>2, <1>8, <1>9 DEF FreeCounters
<1>11. ASSUME NEW t \in Tasks
       PROVE  taskNbActi'[t] = taskNbActi[t] + Cardinality({i \in {} : act'[i].task = t})
                                 - Cardinality({i \in E : act[i].task = t})
  <2>1. {i \in {} : act'[i].task = t} = {}
    OBVIOUS
  <2>2. taskNbActi'[t] = taskNbActi[t] - Cardinality({i \in E : act[i].task = t})
    BY <1>2 DEF FreeCounters
  <2> QED
    BY <1>8, <1>9, <2>1, <2>2
<1>12. {} \in SUBSET (Slots \ Live)
  OBVIOUS
<1> QED
  BY <1>1, <1>2, <1>5, <1>6, <1>7, <1>10, <1>11, <1>12, BooksKept

LEMMA NextKeepsBooks ==
  ASSUME Inv, CountersExact, [Next]_vars
  PROVE  CountersExact'
<1> USE DEF Inv
<1>1. ASSUME act' = act, nbActivities' = nbActivities, taskNbActi' = taskNbActi,
             nbZombie' = nbZombie
      PROVE  CountersExact'
  BY <1>1, BooksSame DEF Live, Zombie
<1>2. CASE CntrlRqst
  <2>1. PICK r \in RqstIds :
           \/ \E S \in SUBSET Slots, b \in Finals : AbortAndAnswer(S, r, b)
           \/ \E b \in Finals : Answer(r, b)
           \/ \E x \in ExecRqsts, s \in Slots : RqstExec(x, r, s)
           \/ \E x \in ExecRqsts, s \in Slots : RqstExecCodelError(x, r, s)
           \/ \E n \in AbortArgs : RqstResume(n, r)
           \/ \E n \in AbortArgs : RqstEndModule(n, r)
    BY <1>2, RqstCases
  <2>2. CASE \E S \in SUBSET Slots, b \in Finals : AbortAndAnswer(S, r, b)
    BY <2>2, AbortKeepsBooks
  <2>3. CASE \E b \in Finals : Answer(r, b)
    BY <1>1, <2>3 DEF Answer
  <2>4. CASE \E x \in ExecRqsts, s \in Slots : RqstExec(x, r, s)
    BY <2>4, ExecKeepsBooks
  <2>5. ASSUME NEW x \in ExecRqsts, NEW s \in Slots, RqstExecCodelError(x, r, s)
        PROVE  CountersExact'
    <3> DEFINE new == Freed(NewActivity(x, r, {}))
    <3>1. new.status = "ETHER"
      BY DEF Freed, NewActivity
    <3>2. s \notin Live
      BY <2>5 DEF RqstExecCodelError, FirstFree
    <3>3. act' = [act EXCEPT ![s] = new]
      BY <2>5 DEF RqstExecCodelError
    <3> HIDE DEF new
    <3>4. act'[s] = new /\ (\A i \in Slots \ {s} : act'[i] = act[i])
      BY <3>3 DEF TypeOK, TypeSDI
    <3>5. Live' = Live /\ Zombie' = Zombie
      BY <3>1, <3>2, <3>4 DEF Live, Zombie
    <3>6. \A i \in Live : act'[i].task = act[i].task
      BY <3>2, <3>4 DEF Live
    <3> QED
      BY <2>5, <3>5, <3>6, BooksSame DEF RqstExecCodelError
  <2>6. CASE \E n \in AbortArgs : RqstResume(n, r)
    BY <1>1, <2>6 DEF RqstResume
  <2>7. CASE \E n \in AbortArgs : RqstEndModule(n, r)
    BY <1>1, <2>7 DEF RqstEndModule, StopTasks
  <2> QED
    BY <2>1, <2>2, <2>3, <2>4, <2>5, <2>6, <2>7
<1>3. CASE CntrlIntEvnExec
  BY <1>3, EventsKeepBooks
<1>4. CASE SpawnActivities
  <2>1. \A i \in Slots : Carried(i) /\ act'[i].status = act[i].status
    BY <1>4, CarriedSpawn DEF TypeOK
  <2>2. Live' = Live /\ Zombie' = Zombie
    BY <2>1 DEF Live, Zombie
  <2>3. \A i \in Live : act'[i].task = act[i].task
    BY <2>1 DEF Carried, Live
  <2> QED
    BY <1>4, <2>2, <2>3, BooksSame DEF SpawnActivities
<1>5. CASE CntrlExit
  BY <1>1, <1>5 DEF CntrlExit
<1>6. CASE Elsewhere
  <2>1. \A i \in Slots :
          /\ Carried(i)
          /\ act'[i].status = "ETHER" <=> act[i].status = "ETHER"
          /\ act'[i].status = "ZOMBIE" <=> act[i].status = "ZOMBIE"
    <3> SUFFICES ASSUME NEW i \in Slots
                 PROVE  /\ Carried(i)
                        /\ act'[i].status = "ETHER" <=> act[i].status = "ETHER"
                        /\ act'[i].status = "ZOMBIE" <=> act[i].status = "ZOMBIE"
      OBVIOUS
    <3>1. /\ Carried(i)
          /\ \/ act'[i].status = act[i].status
             \/ act[i].status \notin {"ETHER", "ZOMBIE"} /\ act'[i].status \in CodelStates
      BY <1>6, CarriedElsewhere
    <3> QED
      BY <3>1 DEF CodelStates
  <2>2. Live' = Live /\ Zombie' = Zombie
    BY <2>1 DEF Live, Zombie
  <2>3. \A i \in Live : act'[i].task = act[i].task
    BY <2>1 DEF Carried, Live
  <2> QED
    BY <1>6, <2>2, <2>3, BooksSame DEF Elsewhere, counted
<1> HIDE DEF Inv
<1> QED
  BY <1>2, <1>3, <1>4, <1>5, <1>6, NextCases

-----------------------------------------------------------------------------
(* Numbers and requests of activities *)

\* The slots an activity was ever allocated in: the first time round the table
\* they are taken in order, so that LastActivityNum is also the last number.
Used == {i \in Slots : i <= lastId}

IdsDistinct ==
  /\ lastId \in Nat \cup {-1}
  /\ lastId < MaxActivities => lastActivity = lastId
  /\ \A i \in Slots \ Used : act[i].status = "ETHER"
  /\ \A i \in Used : act[i].id \in 0 .. lastId
  /\ \A i \in Used, j \in Used : act[i].id = act[j].id => i = j

\* An activity in INIT waits or is about to start.
InitEvents ==
  \A i \in Slots : act[i].status = "INIT" => act[i].evn \in {"NO_EVENT", "START"}

\* Numbers are given in the order of the requests, of which no two have the same
\* activity.
RqstsOrdered ==
  /\ \A i \in Live : act[i].rqst \in 1 .. nbRcvd
  /\ \A i \in Live, j \in Live : act[i].id < act[j].id => act[i].rqst < act[j].rqst

\* After an End request is accepted, the table is empty and nothing is received.
EndIsLast ==
  endRqst # 0 => /\ cntrlPc \in {"ending", "endsusp", "exited"}
                 /\ Live = {}
                 /\ endRqst \in 1 .. nbRcvd

BooksInv == /\ Inv /\ CountersExact /\ IdsDistinct /\ InitEvents /\ RqstsOrdered
            /\ NoCircularWait /\ EndIsLast

\* What a step that allocates slot s does to the table: either the new activity
\* waits, for none that waits, or it is freed at once.
Allocates(s) ==
  /\ FirstFree(s) /\ lastId' = lastId + 1 /\ lastActivity' = s
  /\ act'[s].id = lastId + 1
  /\ \A i \in Slots \ {s} : Carried(i)
  /\ act'[s].status # "ETHER" =>
       /\ act'[s].status = "INIT" /\ act'[s].evn = "NO_EVENT"
       /\ act'[s].type \in ExecRqsts
       /\ act'[s].rqst = nbRcvd + 1 /\ nbRcvd' = nbRcvd + 1
       /\ \A j \in act'[s].incomp : j \in Slots /\ ~Waiting(act'[j])

LEMMA RqstExecAllocates ==
  ASSUME TypeOK, NEW x \in ExecRqsts, NEW r \in RqstIds, NEW s \in Slots,
         RqstExec(x, r, s)
  PROVE  Allocates(s)
<1> DEFINE S == Targets(x)
           I == S \ Ended(S)
           new == NewActivity(x, r, I)
<1>1. S \in SUBSET Slots /\ act[s].status = "ETHER" /\ FirstFree(s)
  BY DEF Targets, Live, RqstExec, FirstFree
<1>2. act' = [AbortTable(S) EXCEPT ![s] = new]
  BY DEF RqstExec
<1>3. AbortTable(S) \in [Slots -> Activity]
  BY <1>1, AbortTableType DEF TypeOK
<1>4. /\ new.status = "INIT" /\ new.evn = "NO_EVENT" /\ new.rqst = r
      /\ new.id = lastId + 1 /\ new.incomp = I /\ new.type = x
  BY DEF NewActivity
<1>5. s \notin I
  BY <1>1 DEF Targets, Live
<1>6. \A j \in I : act[j].status # "INIT"
  BY DEF Ended, AbortEnds
<1> HIDE DEF new
<1>7. act'[s] = new /\ (\A i \in Slots \ {s} : act'[i] = AbortTable(S)[i])
  BY <1>2, <1>3
<1> HIDE DEF S
<1>8. \A i \in Slots \ {s} : Carried(i)
  BY <1>1, <1>7, CarriedAbort DEF TypeOK
<1>9. \A j \in I : j \in Slots /\ ~Waiting(act'[j])
  BY <1>1, <1>5, <1>6, <1>8 DEF Carried, Waiting
<1>10. /\ lastId' = lastId + 1 /\ lastActivity' = s
       /\ r = nbRcvd + 1 /\ nbRcvd' = r
  BY DEF RqstExec, Serve
<1> QED
  BY <1>1, <1>4, <1>7, <1>8, <1>9, <1>10 DEF Allocates

LEMMA CodelErrorAllocates ==
  ASSUME TypeOK, NEW x \in ExecRqsts, NEW r \in RqstIds, NEW s \in Slots,
         RqstExecCodelError(x, r, s)
  PROVE  Allocates(s)
<1> DEFINE new == Freed(NewActivity(x, r, {}))
<1>1. new.status = "ETHER" /\ new.id = lastId + 1
  BY DEF Freed, NewActivity
<1>2. act' = [act EXCEPT ![s] = new] /\ FirstFree(s)
  BY DEF RqstExecCodelError
<1> HIDE DEF new
<1>3. act'[s] = new /\ (\A i \in Slots \ {s} : act'[i] = act[i])
  BY <1>2 DEF TypeOK, TypeSDI
<1>4. \A i \in Slots \ {s} : Carried(i)
  BY <1>3, CarriedSame
<1>5. lastId' = lastId + 1 /\ lastActivity' = s
  BY DEF RqstExecCodelError
<1> QED
  BY <1>1, <1>2, <1>3, <1>4, <1>5 DEF Allocates

\* Every step of the module carries the slots on, but for one it may allocate.
LEMMA NextTable ==
  ASSUME Inv, [Next]_vars
  PROVE  /\ nbRcvd' \in {nbRcvd, nbRcvd + 1}
         /\ \/ /\ \A i \in Slots : Carried(i)
               /\ lastId' = lastId /\ lastActivity' = lastActivity
            \/ \E s \in Slots : Allocates(s)
<1> DEFINE Same == /\ \A i \in Slots : Carried(i)
                   /\ lastId' = lastId /\ lastActivity' = lastActivity
           Grows == \E s \in Slots : Allocates(s)
           Rcvd == nbRcvd' \in {nbRcvd, nbRcvd + 1}
<1> USE DEF Inv
<1>1. ASSUME act' = act, lastId' = lastId, lastActivity' = lastActivity PROVE Same
  BY <1>1, CarriedSame
<1>2. CASE CntrlRqst
  <2>1. PICK r \in RqstIds :
          /\ Serve(r)
          /\ \/ \E S \in SUBSET Slots, b \in Finals : AbortAndAnswer(S, r, b)
             \/ \E b \in Finals : Answer(r, b)
             \/ \E x \in ExecRqsts, s \in Slots : RqstExec(x, r, s)
             \/ \E x \in ExecRqsts, s \in Slots : RqstExecCodelError(x, r, s)
             \/ \E n \in AbortArgs : RqstResume(n, r)
             \/ \E n \in AbortArgs : RqstEndModule(n, r)
    BY <1>2, RqstCases
  <2>2. Rcvd
    BY <2>1 DEF Serve
  <2>3. ASSUME NEW S \in SUBSET Slots, NEW b \in Finals, AbortAndAnswer(S, r, b) PROVE Same
    BY <2>3, CarriedAbort DEF AbortAndAnswer, TypeOK
  <2>4. ASSUME NEW b \in Finals, Answer(r, b) PROVE Same
    BY <1>1, <2>4 DEF Answer
  <2>5. ASSUME NEW n \in AbortArgs, RqstResume(n, r) PROVE Same
    BY <1>1, <2>5 DEF RqstResume
  <2>6. ASSUME NEW n \in AbortArgs, RqstEndModule(n, r) PROVE Same
    BY <1>1, <2>6 DEF RqstEndModule, StopTasks
  <2>7. ASSUME NEW x \in ExecRqsts, NEW s \in Slots,
               RqstExec(x, r, s) \/ RqstExecCodelError(x, r, s)
        PROVE  Grows
    BY <2>7, RqstExecAllocates, CodelErrorAllocates
  <2> HIDE DEF Same, Grows, Rcvd
  <2>8. Rcvd /\ (Same \/ Grows)
    BY <2>1, <2>2, <2>3, <2>4, <2>5, <2>6, <2>7
  <2> QED BY <2>8 DEF Same, Grows, Rcvd
<1>3. CASE CntrlIntEvnExec
  BY <1>3, CarriedEvent DEF CntrlIntEvnExec, TypeOK
<1>4. CASE SpawnActivities
  BY <1>4, CarriedSpawn DEF SpawnActivities, TypeOK
<1>5. CASE CntrlExit
  BY <1>1, <1>5 DEF CntrlExit
<1>6. CASE Elsewhere
  <2>1. \A i \in Slots : Carried(i)
    BY <1>6, CarriedElsewhere
  <2> QED
    BY <1>6, <2>1 DEF Elsewhere, counted
<1> HIDE DEF Inv, Same, Grows, Rcvd
<1> QED
  BY <1>2, <1>3, <1>4, <1>5, <1>6, NextCases

\* The first time round the table, the slot allocated is the next one.
LEMMA FirstRound ==
  ASSUME TypeOK, IdsDistinct, NEW s \in Slots, FirstFree(s), lastId + 1 < MaxActivities
  PROVE  s = lastId + 1
<1> DEFINE n == lastId + 1
<1>1. lastActivity = lastId /\ lastId \in Int /\ lastId >= -1 /\ MaxActivities \in Nat
  BY ConstantsAssumption DEF IdsDistinct
<1>2. n \in Slots /\ n \notin Used
  BY <1>1 DEF Slots, Used
<1>3. n \in Slots \ Live
  BY <1>2 DEF IdsDistinct, Live
<1>4. Rank(s) <= Rank(n)
  BY <1>3 DEF FirstFree
<1>5. s \in Int /\ s >= 0
  BY DEF Slots
<1> QED
  BY <1>1, <1>4, <1>5 DEF Rank

LEMMA NextKeepsIds ==
  ASSUME Inv, Inv', IdsDistinct, [Next]_vars
  PROVE  IdsDistinct'
<1>1. CASE /\ \A i \in Slots : Carried(i)
           /\ lastId' = lastId /\ lastActivity' = lastActivity
  <2>1. Used' = Used
    BY <1>1 DEF Used
  <2> QED
    BY <1>1, <2>1 DEF IdsDistinct, Carried, Used
<1>2. ASSUME NEW s \in Slots, Allocates(s) PROVE IdsDistinct'
  <2>1. lastId' = lastId + 1 /\ lastActivity' = s /\ FirstFree(s)
        /\ act'[s].id = lastId + 1
    BY <1>2 DEF Allocates
  <2>2. lastId \in Int /\ lastId >= -1 /\ MaxActivities \in Nat
    BY ConstantsAssumption DEF IdsDistinct
  <2>3. lastId + 1 < MaxActivities => s = lastId + 1
    BY <1>2, <2>1, FirstRound DEF Inv
  <2>4. Used' = Used \cup {s}
    <3>1. s \in Used'
      BY <2>1, <2>2, <2>3 DEF Used, Slots
    <3>2. \A i \in Slots : i \in Used' => i \in Used \cup {s}
      <4> SUFFICES ASSUME NEW i \in Slots, i \in Used', i \notin Used PROVE i = s
        OBVIOUS
      <4>1. i <= lastId + 1 /\ ~(i <= lastId) /\ i \in Int /\ i < MaxActivities
        BY <2>1, <2>2 DEF Used, Slots
      <4>2. i = lastId + 1
        BY <2>2, <4>1
      <4> QED
        BY <2>3, <4>1, <4>2
    <3>3. Used \subseteq Used'
      BY <2>1, <2>2 DEF Used, Slots
    <3> QED
      BY <3>1, <3>2, <3>3 DEF Used
  <2>5. \A i \in Slots \ {s} : Carried(i)
    BY <1>2 DEF Allocates
  <2>6. \A i \in Slots \ Used' : act'[i].status = "ETHER"
    BY <2>4, <2>5 DEF IdsDistinct, Carried
  <2>7. \A i \in Used' \ {s} : act'[i].id = act[i].id /\ i \in Used
    BY <2>4, <2>5 DEF Carried, Used
  <2>8. \A i \in Used' : act'[i].id \in 0 .. lastId'
    <3> SUFFICES ASSUME NEW i \in Used' PROVE act'[i].id \in 0 .. lastId + 1
      BY <2>1
    <3>1. CASE i = s
      BY <3>1, <2>1, <2>2
    <3>2. CASE i # s
      <4>1. act'[i].id \in 0 .. lastId
        BY <3>2, <2>7 DEF IdsDistinct
      <4> QED BY <4>1, <2>2
    <3> QED BY <3>1, <3>2
  <2>9. \A i \in Used', j \in Used' : act'[i].id = act'[j].id => i = j
    <3> SUFFICES ASSUME NEW i \in Used', NEW j \in Used', act'[i].id = act'[j].id
                 PROVE  i = j
      OBVIOUS
    <3>1. \A k \in Used' \ {s} : act'[k].id # act'[s].id
      <4> SUFFICES ASSUME NEW k \in Used' \ {s} PROVE act'[k].id # act'[s].id
        OBVIOUS
      <4>1. act'[k].id \in 0 .. lastId
        BY <2>7 DEF IdsDistinct
      <4> QED BY <4>1, <2>1, <2>2
    <3>2. CASE i = s \/ j = s
      BY <3>1, <3>2
    <3>3. CASE i # s /\ j # s
      BY <3>3, <2>7 DEF IdsDistinct
    <3> QED BY <3>2, <3>3
  <2>10. lastId' \in Nat \cup {-1}
    BY <2>1, <2>2
  <2>11. lastId' < MaxActivities => lastActivity' = lastId'
    BY <2>1, <2>3
  <2> QED
    BY <2>6, <2>8, <2>9, <2>10, <2>11 DEF IdsDistinct
<1> QED
  BY <1>1, <1>2, NextTable

LEMMA NextKeepsEvents ==
  ASSUME Inv, InitEvents, [Next]_vars
  PROVE  InitEvents'
<1>1. CASE \A i \in Slots : Carried(i)
  BY <1>1 DEF InitEvents, Carried
<1>2. ASSUME NEW s \in Slots, Allocates(s) PROVE InitEvents'
  <2> SUFFICES ASSUME NEW i \in Slots, act'[i].status = "INIT"
               PROVE  act'[i].evn \in {"NO_EVENT", "START"}
    BY DEF InitEvents
  <2> QED
    BY <1>2 DEF Allocates, Carried, InitEvents
<1> QED
  BY <1>1, <1>2, NextTable

LEMMA NextKeepsOrder ==
  ASSUME Inv, RqstsOrdered, [Next]_vars
  PROVE  RqstsOrdered'
<1>0. nbRcvd \in Nat /\ lastId \in Int /\ nbRcvd' \in {nbRcvd, nbRcvd + 1}
  BY NextTable DEF Inv, TypeOK, TypeSDI, TypeCntrl
<1>1. CASE \A i \in Slots : Carried(i)
  <2>1. \A i \in Live' : i \in Live /\ act'[i].id = act[i].id /\ act'[i].rqst = act[i].rqst
    BY <1>1 DEF Live, Carried
  <2>2. 1 .. nbRcvd \subseteq 1 .. nbRcvd'
    BY <1>0
  <2> QED
    BY <2>1, <2>2 DEF RqstsOrdered
<1>2. ASSUME NEW s \in Slots, Allocates(s) PROVE RqstsOrdered'
  <2>1. \A i \in Live' \ {s} : /\ i \in Live
                               /\ act'[i].id = act[i].id /\ act'[i].rqst = act[i].rqst
    BY <1>2 DEF Allocates, Live, Carried
  <2>2. s \in Live' => act'[s].id = lastId + 1 /\ act'[s].rqst = nbRcvd + 1
                       /\ nbRcvd' = nbRcvd + 1
    BY <1>2 DEF Allocates, Live
  <2>3. \A i \in Live : act[i].id \in Int /\ act[i].id <= lastId /\ act[i].rqst \in 1 .. nbRcvd
    BY DEF Inv, IdsGiven, Live, TypeOK, TypeSDI, Activity, RqstsOrdered
  <2>4. ASSUME NEW i \in Live' PROVE act'[i].rqst \in 1 .. nbRcvd'
    <3>1. CASE i = s
      BY <3>1, <2>2, <1>0
    <3>2. CASE i # s
      <4>1. act'[i].rqst \in 1 .. nbRcvd
        BY <3>2, <2>1, <2>3
      <4> QED BY <4>1, <1>0
    <3> QED BY <3>1, <3>2
  <2>5. ASSUME NEW i \in Live', NEW j \in Live', act'[i].id < act'[j].id
        PROVE  act'[i].rqst < act'[j].rqst
    <3>1. CASE i # s /\ j # s
      BY <3>1, <2>1, <2>5 DEF RqstsOrdered
    <3>2. CASE i = s /\ j = s
      BY <3>2, <2>2, <2>5, <1>0
    <3>3. CASE i = s /\ j # s
      <4>1. act'[i].id = lastId + 1 /\ act'[j].id \in Int /\ act'[j].id <= lastId
        BY <3>3, <2>1, <2>2, <2>3
      <4> QED BY <4>1, <2>5, <1>0
    <3>4. CASE i # s /\ j = s
      <4>1. act'[i].rqst \in 1 .. nbRcvd /\ act'[j].rqst = nbRcvd + 1
        BY <3>4, <2>1, <2>2, <2>3
      <4> QED BY <4>1, <1>0
    <3> QED BY <3>1, <3>2, <3>3, <3>4
  <2> QED
    BY <2>4, <2>5 DEF RqstsOrdered
<1> QED
  BY <1>1, <1>2, NextTable

LEMMA NextKeepsWaits ==
  ASSUME Inv, NoCircularWait, [Next]_vars
  PROVE  NoCircularWait'
<1> SUFFICES ASSUME NEW i \in Slots, Waiting(act'[i]), NEW j \in act'[i].incomp,
                    Waiting(act'[j])
             PROVE  act'[j].id > act'[i].id
  BY DEF NoCircularWait
<1>0. lastId \in Int /\ \A k \in Slots : act[k] \in Activity
  BY DEF Inv, TypeOK, TypeSDI, TypeCntrl
<1>1. CASE \A k \in Slots : Carried(k)
  <2>1. Waiting(act[i]) /\ j \in act[i].incomp /\ act'[i].id = act[i].id
    BY <1>1 DEF Carried
  <2>2. j \in Slots
    BY <1>0, <2>1 DEF Activity
  <2>3. Waiting(act[j]) /\ act'[j].id = act[j].id
    BY <1>1, <2>2 DEF Carried
  <2> QED
    BY <2>1, <2>3 DEF NoCircularWait
<1>2. ASSUME NEW s \in Slots, Allocates(s) PROVE act'[j].id > act'[i].id
  <2>1. i # s
    BY <1>2 DEF Allocates, Waiting
  <2>2. Waiting(act[i]) /\ j \in act[i].incomp /\ act'[i].id = act[i].id
    BY <1>2, <2>1 DEF Allocates, Carried
  <2>3. j \in Slots
    BY <1>0, <2>2 DEF Activity
  <2>4. CASE j = s
    <3>1. act'[j].id = lastId + 1
      BY <1>2, <2>4 DEF Allocates
    <3>2. act[i].id <= lastId /\ act[i].id \in Int
      BY <1>0, <2>2 DEF Inv, IdsGiven, Live, Waiting, Activity
    <3> QED
      BY <1>0, <2>2, <3>1, <3>2
  <2>5. CASE j # s
    <3>1. Waiting(act[j]) /\ act'[j].id = act[j].id
      BY <1>2, <2>3, <2>5 DEF Allocates, Carried
    <3> QED
      BY <2>2, <3>1 DEF NoCircularWait
  <2> QED BY <2>4, <2>5
<1> QED
  BY <1>1, <1>2, NextTable

LEMMA NextKeepsEnd ==
  ASSUME Inv, CountersExact, EndIsLast, [Next]_vars
  PROVE  EndIsLast'
<1> USE DEF endVars, kept
<1>0. nbRcvd \in Nat /\ nbRcvd' \in {nbRcvd, nbRcvd + 1}
  BY NextTable DEF Inv, TypeOK, TypeSDI
<1>1. ASSUME cntrlPc \notin {"ending", "endsusp", "exited"}, endRqst' = endRqst
      PROVE  EndIsLast'
  BY <1>1 DEF EndIsLast
<1>2. CASE CntrlRqst
  <2>1. PICK r \in RqstIds :
          /\ Serve(r)
          /\ \/ \E S \in SUBSET Slots, b \in Finals : AbortAndAnswer(S, r, b)
             \/ \E b \in Finals : Answer(r, b)
             \/ \E x \in ExecRqsts, s \in Slots : RqstExec(x, r, s)
             \/ \E x \in ExecRqsts, s \in Slots : RqstExecCodelError(x, r, s)
             \/ \E n \in AbortArgs : RqstResume(n, r)
             \/ \E n \in AbortArgs : RqstEndModule(n, r)
    BY <1>2, RqstCases DEF Inv
  <2>2. cntrlPc \in {"ext", "rqst"} /\ r = nbRcvd + 1 /\ nbRcvd' = r
    BY <2>1 DEF Serve
  <2>3. ASSUME NEW n \in AbortArgs, RqstEndModule(n, r) PROVE EndIsLast'
    <3>1. endRqst' = r /\ cntrlPc' = "ending" /\ act' = act /\ nbActivities = 0
      BY <2>3 DEF RqstEndModule, StopTasks
    <3>2. Live = {}
      <4>1. Live \in SUBSET Slots
        BY DEF Live
      <4>2. IsFiniteSet(Live) /\ Cardinality(Live) = 0
        BY <3>1, <4>1, SlotsFinite DEF CountersExact
      <4> QED BY <4>2, FS_EmptySet
    <3>3. Live' = {}
      BY <3>1, <3>2 DEF Live
    <3> QED
      BY <1>0, <2>2, <3>1, <3>3 DEF EndIsLast
  <2>4. ASSUME NEW S \in SUBSET Slots, NEW b \in Finals, AbortAndAnswer(S, r, b)
        PROVE  endRqst' = endRqst
    BY <2>4 DEF AbortAndAnswer
  <2>5. ASSUME NEW b \in Finals, Answer(r, b) PROVE endRqst' = endRqst
    BY <2>5 DEF Answer
  <2>6. ASSUME NEW x \in ExecRqsts, NEW s \in Slots, RqstExec(x, r, s)
        PROVE  endRqst' = endRqst
    BY <2>6 DEF RqstExec
  <2>7. ASSUME NEW x \in ExecRqsts, NEW s \in Slots, RqstExecCodelError(x, r, s)
        PROVE  endRqst' = endRqst
    BY <2>7 DEF RqstExecCodelError
  <2>8. ASSUME NEW n \in AbortArgs, RqstResume(n, r) PROVE endRqst' = endRqst
    BY <2>8 DEF RqstResume
  <2> QED
    BY <1>1, <2>1, <2>2, <2>3, <2>4, <2>5, <2>6, <2>7, <2>8
<1>3. CASE CntrlIntEvnExec
  BY <1>1, <1>3 DEF CntrlIntEvnExec
<1>4. CASE SpawnActivities
  BY <1>1, <1>4 DEF SpawnActivities
<1>5. CASE CntrlExit
  <2>1. Live' = Live
    BY <1>5 DEF CntrlExit, Live
  <2> QED
    BY <1>5, <2>1 DEF CntrlExit, EndIsLast
<1>6. CASE Elsewhere
  <2>1. Live = {} => Live' = {}
    BY <1>6, CarriedElsewhere DEF Live, Carried
  <2> QED
    BY <1>6, <2>1 DEF Elsewhere, EndIsLast
<1> QED
  BY <1>2, <1>3, <1>4, <1>5, <1>6, NextCases

LEMMA InitBooks == Init => BooksInv
<1> SUFFICES ASSUME Init PROVE BooksInv
  OBVIOUS
<1>1. Inv
  BY InitInv
<1>2. Live = {} /\ Zombie = {}
  BY DEF Init, InitSDI, Live, Zombie
<1>3. CountersExact
  <2>1. \A t \in Tasks : {i \in Live : act[i].task = t} = {}
    BY <1>2
  <2> QED
    BY <1>2, <2>1, FS_EmptySet DEF CountersExact, Init, InitSDI, InitCntrl
<1>4. \A i \in Slots : act[i].status = "ETHER"
  BY DEF Init, InitSDI
<1>5. IdsDistinct
  <2>1. lastId = -1 /\ lastActivity = -1
    BY DEF Init, InitCntrl
  <2>2. Used = {}
    BY <2>1 DEF Used, Slots
  <2> QED
    BY <1>4, <2>1, <2>2 DEF IdsDistinct
<1>6. InitEvents /\ NoCircularWait
  BY <1>4 DEF InitEvents, NoCircularWait, Waiting
<1>7. RqstsOrdered
  BY <1>2 DEF RqstsOrdered
<1>8. EndIsLast
  BY DEF Init, InitCntrl, EndIsLast
<1> QED
  BY <1>1, <1>3, <1>5, <1>6, <1>7, <1>8 DEF BooksInv

LEMMA NextKeepsBooksInv == BooksInv /\ [Next]_vars => BooksInv'
<1> SUFFICES ASSUME BooksInv, [Next]_vars PROVE BooksInv'
  OBVIOUS
<1> USE DEF BooksInv
<1>1. Inv'
  BY NextKeeps
<1>2. CountersExact' /\ EndIsLast'
  BY NextKeepsBooks, NextKeepsEnd
<1>3. IdsDistinct' /\ InitEvents' /\ RqstsOrdered' /\ NoCircularWait'
  BY <1>1, NextKeepsIds, NextKeepsEvents, NextKeepsOrder, NextKeepsWaits
<1> QED
  BY <1>1, <1>2, <1>3

\* The counters, the numbers and the order of requests are as BooksInv says in
\* every reachable state, for all values of the constants.
THEOREM BooksInvariant == Spec => []BooksInv
BY InitBooks, NextKeepsBooksInv, PTL DEF Spec

\* allocActivity, freeActivity and CntrlIntEvnExec: the numbers of activities,
\* of activities per task and of failed activities, that the control task keeps
\* by increments, are those of the table, with any tasks, slots and requests.
THEOREM CountersExactHolds == Spec => []CountersExact
<1>1. BooksInv => CountersExact
  BY DEF BooksInv
<1> QED
  BY <1>1, BooksInvariant, PTL

\* RqstAbortActivity: the scan for an activity number stops at the slot of the
\* one live activity that has it, however often the slots were reused.
THEOREM IdDesignatesActivityHolds == Spec => []IdDesignatesActivity
<1>1. BooksInv => IdDesignatesActivity
  <2> SUFFICES ASSUME BooksInv, NEW i \in Live
               PROVE  act[i].id \in 0 .. lastId /\ HoldsId(act[i].id) = {i}
    BY DEF IdDesignatesActivity
  <2> USE DEF BooksInv
  <2>1. i \in Used /\ i \in Slots
    BY DEF IdsDistinct, Live
  <2>2. act[i].id \in 0 .. lastId
    BY <2>1 DEF IdsDistinct
  <2>3. lastId \in Int /\ i \in 0 .. MaxActivities - 1 /\ i <= lastId /\ MaxActivities \in Nat
    BY <2>1, ConstantsAssumption DEF IdsDistinct, Slots, Used
  <2>4. \A j \in 0 .. i - 1 : act[j].id # act[i].id
    <3> SUFFICES ASSUME NEW j \in 0 .. i - 1 PROVE act[j].id # act[i].id
      OBVIOUS
    <3>1. j \in Used /\ j # i
      BY <2>3 DEF Used, Slots
    <3> QED
      BY <2>1, <3>1 DEF IdsDistinct
  <2>5. ASSUME NEW k \in HoldsId(act[i].id) PROVE k = i
    <3>1. k \in Slots /\ act[k].id = act[i].id /\ \A j \in 0 .. k - 1 : act[j].id # act[i].id
      BY DEF HoldsId
    <3>2. CASE k \in Used
      BY <2>1, <3>1, <3>2 DEF IdsDistinct
    <3>3. CASE k \notin Used
      <4>1. k > lastId /\ k \in Int
        BY <2>3, <3>1, <3>3 DEF Used, Slots
      <4>2. i \in 0 .. k - 1
        BY <2>3, <4>1
      <4> QED BY <3>1, <4>2
    <3> QED BY <3>2, <3>3
  <2> QED
    BY <2>1, <2>2, <2>4, <2>5 DEF HoldsId
<1> QED
  BY <1>1, BooksInvariant, PTL

\* ACTIVITY_TAB_INCOMP: waiting activities cannot wait for one another in a
\* circle, even where a slot of the list was freed and allocated again.
THEOREM NoCircularWaitHolds == Spec => []NoCircularWait
<1>1. BooksInv => NoCircularWait
  BY DEF BooksInv
<1> QED
  BY <1>1, BooksInvariant, PTL
=============================================================================
