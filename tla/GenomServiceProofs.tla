-------------------------- MODULE GenomServiceProofs --------------------------
(***************************************************************************)
(* What GenomModule promises, for all values of its constants.  To its     *)
(* clients: each request gets the replies it is due, and the module        *)
(* implements ActivityService.  Between its tasks: one at a time works on  *)
(* the activities, which follow their transitions, and no wake-up is lost, *)
(* for all values of the constants but one circumstance: no client asks to *)
(* resume the suspended execution tasks, which would go on without the     *)
(* SDIs.                                                                   *)
(***************************************************************************)
EXTENDS GenomModuleProofs

-----------------------------------------------------------------------------
(* The replies *)

\* The replies of a request that no activity owes its final reply.
Settled(r) ==
  IF r > nbRcvd \/ (r = endRqst /\ cntrlPc # "exited")
  THEN replies[r] = <<>>
  ELSE \/ \E b \in Finals : replies[r] = <<b>>
       \/ \E b \in Finals \ (Refusals \ {"SYSTEM_ERROR"}) : replies[r] = <<"INTERMED", b>>

\* Those of a request whose activity is not over.
Owed(i) == replies[act[i].rqst] = IF Waiting(act[i]) THEN <<>> ELSE <<"INTERMED">>

RepliesOwed == /\ \A i \in Live \ Zombie : Owed(i)
               /\ \A r \in RqstIds : Owners(r) = {} => Settled(r)

LEMMA OneActivityPerRequest ==
  ASSUME IdsDistinct, RqstsOrdered, NEW i \in Live, NEW j \in Live, act[i].rqst = act[j].rqst
  PROVE  i = j
<1>1. i \in Used /\ j \in Used
  BY DEF IdsDistinct, Live
<1>2. act[i].id \in Int /\ act[j].id \in Int
  BY <1>1 DEF IdsDistinct
<1>3. act[i].rqst \in Int /\ act[j].rqst \in Int
  BY DEF RqstsOrdered
<1>4. ~(act[i].id < act[j].id) /\ ~(act[j].id < act[i].id)
  BY <1>3 DEF RqstsOrdered
<1>5. act[i].id = act[j].id
  BY <1>2, <1>4
<1> QED
  BY <1>1, <1>5 DEF IdsDistinct

LEMMA OwedAndSettled ==
  ASSUME TypeOK, IdsDistinct, RqstsOrdered, RepliesOwed
  PROVE  ReplyProtocol
<1> SUFFICES ASSUME NEW r \in RqstIds
             PROVE  /\ Cardinality(Owners(r)) <= 1
                    /\ \A i \in Owners(r) :
                         replies[r] = IF Waiting(act[i]) THEN <<>> ELSE <<"INTERMED">>
                    /\ Owners(r) = {} => Settled(r)
  BY DEF ReplyProtocol, Settled
<1>1. Cardinality(Owners(r)) <= 1
  <2>1. CASE Owners(r) = {}
    BY <2>1, FS_EmptySet
  <2>2. CASE Owners(r) # {}
    <3>1. PICK i \in Owners(r) : TRUE
      BY <2>2
    <3>2. Owners(r) = {i}
      BY <3>1, OneActivityPerRequest DEF Owners
    <3> QED BY <3>2, FS_Singleton
  <2> QED BY <2>1, <2>2
<1> QED
  BY <1>1 DEF RepliesOwed, Owners, Owed

LEMMA AppendSecond ==
  ASSUME NEW S, NEW a \in S, NEW b \in S
  PROVE  Append(<<a>>, b) = <<a, b>>
<1> DEFINE s == <<a>>
           u == Append(s, b)
           v == <<a, b>>
<1>1. s \in Seq(S) /\ Len(s) = 1 /\ s[1] = a
  OBVIOUS
<1>2. v \in Seq(S) /\ Len(v) = 2 /\ v[1] = a /\ v[2] = b
  OBVIOUS
<1> HIDE DEF s, v
<1>3. u \in Seq(S) /\ Len(u) = 2 /\ u[1] = a /\ u[2] = b
  BY <1>1 DEF s
<1> HIDE DEF u
<1>4. \A n \in 1 .. Len(u) : u[n] = v[n]
  <2>1. \A n \in 1 .. 2 : n = 1 \/ n = 2
    OBVIOUS
  <2> QED BY <1>2, <1>3, <2>1
<1>5. u = v
  BY <1>2, <1>3, <1>4, SeqEqual
<1> QED
  BY <1>5 DEF s, u, v

\* A final reply that is the first, or that follows the intermediate one.
LEMMA AppendReply ==
  ASSUME NEW b \in Finals
  PROVE  /\ Append(<<>>, b) = <<b>>
         /\ Append(<<"INTERMED">>, b) = <<"INTERMED", b>>
<1>1. b \in Replies /\ "INTERMED" \in Replies
  BY DEF Replies
<1>2. Append(<<>>, b) = <<b>>
  BY <1>1
<1>3. Append(<<"INTERMED">>, b) = <<"INTERMED", b>>
  BY <1>1, AppendSecond
<1> QED
  BY <1>2, <1>3

LEMMA RepliedTo ==
  ASSUME NEW R, NEW r \in RqstIds, NEW m \in R, m.rqst = r,
         \A n \in R : n.rqst = r => n.reply = m.reply
  PROVE  Replied(R)[r] = Append(replies[r], m.reply)
<1> DEFINE n == CHOOSE n \in R : n.rqst = r
<1>1. n \in R /\ n.rqst = r
  OBVIOUS
<1>2. Replied(R)[r] = Append(replies[r], n.reply)
  BY DEF Replied
<1> HIDE DEF n
<1> QED
  BY <1>1, <1>2

LEMMA NotRepliedTo ==
  ASSUME NEW R, NEW r \in RqstIds, \A n \in R : n.rqst # r
  PROVE  Replied(R)[r] = replies[r]
BY DEF Replied

\* SendFinalReply reports nothing a refusal would, but for an errno.
LEMMA FinalReplyKinds ==
  ASSUME NEW a \in Activity
  PROVE  FinalReply(a) \in Finals \ (Refusals \ {"SYSTEM_ERROR"})
BY DEF FinalReply, Activity, Bilans, Finals, Refusals

\* The final replies of the activities of D are sent, and, with Q, one reply to
\* the request that is served.
LEMMA RepliesSent ==
  ASSUME BooksInv, NEW D \in SUBSET Live, NEW Q,
         \A m \in Q : m.rqst = nbRcvd + 1,
         \A m \in Q, n \in Q : m = n
  PROVE  /\ \A i \in D : Replied(FinalReplies(D) \cup Q)[act[i].rqst]
                           = Append(replies[act[i].rqst], FinalReply(act[i]))
         /\ \A m \in Q : nbRcvd + 1 \in RqstIds =>
              Replied(FinalReplies(D) \cup Q)[nbRcvd + 1]
                = Append(replies[nbRcvd + 1], m.reply)
         /\ \A r \in RqstIds :
              (\A i \in D : act[i].rqst # r) /\ (\A m \in Q : m.rqst # r)
                => Replied(FinalReplies(D) \cup Q)[r] = replies[r]
<1> USE DEF BooksInv
<1> DEFINE R == FinalReplies(D) \cup Q
<1>0. nbRcvd \in Nat /\ nbRcvd <= MaxRqst /\ MaxRqst \in Nat
  BY ConstantsAssumption DEF Inv, TypeOK, TypeSDI
<1>1. \A i \in D : act[i].rqst \in RqstIds /\ act[i].rqst # nbRcvd + 1
  BY <1>0 DEF RqstsOrdered, RqstIds
<1>2. \A m \in R : m \in Q \/ \E i \in D : m = [rqst |-> act[i].rqst,
                                                reply |-> FinalReply(act[i])]
  BY DEF FinalReplies
<1>3. ASSUME NEW i \in D
      PROVE  Replied(R)[act[i].rqst] = Append(replies[act[i].rqst], FinalReply(act[i]))
  <2> DEFINE m == [rqst |-> act[i].rqst, reply |-> FinalReply(act[i])]
  <2>1. m \in R /\ m.rqst = act[i].rqst /\ m.reply = FinalReply(act[i])
    BY DEF FinalReplies
  <2> HIDE DEF m
  <2>2. ASSUME NEW n \in R, n.rqst = act[i].rqst PROVE n.reply = m.reply
    <3>1. PICK j \in D : n = [rqst |-> act[j].rqst, reply |-> FinalReply(act[j])]
      BY <1>1, <1>2, <2>2
    <3>2. act[j].rqst = act[i].rqst
      BY <2>2, <3>1
    <3>3. i = j
      BY <3>2, OneActivityPerRequest
    <3> QED BY <2>1, <3>1, <3>3
  <2> HIDE DEF R
  <2>3. Replied(R)[act[i].rqst] = Append(replies[act[i].rqst], m.reply)
    BY <1>1, <2>1, <2>2, RepliedTo
  <2> QED
    BY <2>1, <2>3
<1>4. ASSUME NEW m \in Q, nbRcvd + 1 \in RqstIds
      PROVE  Replied(R)[nbRcvd + 1] = Append(replies[nbRcvd + 1], m.reply)
  <2>1. m \in R /\ m.rqst = nbRcvd + 1
    OBVIOUS
  <2>2. ASSUME NEW n \in R, n.rqst = nbRcvd + 1 PROVE n.reply = m.reply
    BY <1>1, <1>2, <2>2
  <2> HIDE DEF R
  <2> QED
    BY <1>4, <2>1, <2>2, RepliedTo
<1>5. ASSUME NEW r \in RqstIds, \A i \in D : act[i].rqst # r, \A m \in Q : m.rqst # r
      PROVE  Replied(R)[r] = replies[r]
  <2>1. \A n \in R : n.rqst # r
    BY <1>2, <1>5
  <2> HIDE DEF R
  <2> QED BY <2>1, NotRepliedTo
<1> QED
  BY <1>3, <1>4, <1>5

\* What a step must show of the replies: the activities of D are over and get
\* their final reply, the others go on as they were; the request served, if one
\* is, gets a final reply too or has the one new activity.
LEMMA RepliesFollow ==
  ASSUME BooksInv, BooksInv', RepliesOwed, endRqst = 0, endRqst' = 0,
         NEW D \in SUBSET (Live \ Zombie),
         \A i \in D :
           replies'[act[i].rqst] = Append(replies[act[i].rqst], FinalReply(act[i])),
         \A r \in RqstIds :
           r # nbRcvd + 1 /\ (\A i \in D : act[i].rqst # r) => replies'[r] = replies[r],
         \A i \in (Live \ Zombie) \ D :
           /\ i \in Live' \ Zombie' /\ act'[i].rqst = act[i].rqst
           /\ Waiting(act'[i]) <=> Waiting(act[i]),
         \A i \in Live' \ Zombie' :
           \/ i \in (Live \ Zombie) \ D
           \/ /\ nbRcvd' = nbRcvd + 1 /\ act'[i].rqst = nbRcvd + 1 /\ Waiting(act'[i])
              /\ replies'[nbRcvd + 1] = replies[nbRcvd + 1],
         \/ /\ nbRcvd' = nbRcvd
            /\ nbRcvd + 1 \in RqstIds => replies'[nbRcvd + 1] = replies[nbRcvd + 1]
         \/ nbRcvd' = nbRcvd + 1 /\ \E b \in Finals :
              replies'[nbRcvd + 1] = Append(replies[nbRcvd + 1], b)
         \/ nbRcvd' = nbRcvd + 1 /\ \E i \in Live' \ Zombie' : act'[i].rqst = nbRcvd + 1
  PROVE  RepliesOwed'
<1> USE DEF BooksInv
<1>0. /\ nbRcvd \in Nat /\ nbRcvd' \in Nat /\ nbRcvd' \in {nbRcvd, nbRcvd + 1}
      /\ MaxRqst \in Nat /\ nbRcvd' <= MaxRqst
  BY ConstantsAssumption DEF Inv, TypeOK, TypeSDI
<1>1. \A i \in Live : act[i].rqst \in 1 .. nbRcvd /\ act[i].rqst \in RqstIds
                      /\ act[i] \in Activity
  BY <1>0 DEF RqstsOrdered, RqstIds, Inv, TypeOK, TypeSDI, Live
<1>2. nbRcvd + 1 \in RqstIds => replies[nbRcvd + 1] = <<>>
  <2>1. Owners(nbRcvd + 1) = {}
    BY <1>0, <1>1 DEF Owners
  <2> QED
    BY <1>0, <2>1 DEF RepliesOwed, Settled
<1>3. ASSUME NEW i \in Live' \ Zombie'
      PROVE  replies'[act'[i].rqst] = IF Waiting(act'[i]) THEN <<>> ELSE <<"INTERMED">>
  <2>1. CASE i \in (Live \ Zombie) \ D
    <3>1. act'[i].rqst = act[i].rqst /\ (Waiting(act'[i]) <=> Waiting(act[i]))
      BY <2>1
    <3>2. \A j \in D : act[j].rqst # act[i].rqst
      BY <2>1, OneActivityPerRequest
    <3>3. act[i].rqst \in RqstIds /\ act[i].rqst # nbRcvd + 1
      BY <1>0, <1>1, <2>1
    <3>4. replies'[act[i].rqst] = replies[act[i].rqst]
      BY <3>2, <3>3
    <3> QED
      BY <2>1, <3>1, <3>4 DEF RepliesOwed, Owed
  <2>2. CASE i \notin (Live \ Zombie) \ D
    <3>1. nbRcvd' = nbRcvd + 1
      BY <2>2
    <3>2. nbRcvd + 1 \in RqstIds
      BY <1>0, <3>1 DEF RqstIds
    <3> QED
      BY <1>2, <2>2, <3>2
  <2> QED BY <2>1, <2>2
<1>4. ASSUME NEW r \in RqstIds, Owners(r)' = {} PROVE Settled(r)'
  <2>1. \A i \in Live' \ Zombie' : act'[i].rqst # r
    BY <1>4 DEF Owners
  <2>2. CASE \E i \in D : act[i].rqst = r
    <3>1. PICK i \in D : act[i].rqst = r
      BY <2>2
    <3>2. r <= nbRcvd'
      BY <1>0, <1>1, <3>1
    <3> DEFINE b == FinalReply(act[i])
    <3>3. b \in Finals \ (Refusals \ {"SYSTEM_ERROR"})
      BY <1>1, <3>1, FinalReplyKinds
    <3>4. replies'[r] = Append(replies[r], b)
      BY <3>1
    <3>5. replies[r] = <<>> \/ replies[r] = <<"INTERMED">>
      BY <3>1 DEF RepliesOwed, Owed
    <3> HIDE DEF b
    <3>6. replies'[r] = <<b>> \/ replies'[r] = <<"INTERMED", b>>
      BY <3>3, <3>4, <3>5, AppendReply
    <3> QED
      BY <3>2, <3>3, <3>6, <1>0 DEF Settled, RqstIds
  <2>3. CASE (\A i \in D : act[i].rqst # r) /\ nbRcvd' = nbRcvd + 1 /\ r = nbRcvd + 1
    <3>1. PICK b \in Finals : replies'[r] = Append(replies[r], b)
      BY <2>1, <2>3, <1>0
    <3>2. replies'[r] = <<b>>
      BY <1>2, <2>3, <3>1, AppendReply
    <3> QED
      BY <2>3, <3>2, <1>0 DEF Settled, RqstIds
  <2>4. CASE (\A i \in D : act[i].rqst # r) /\ ~(nbRcvd' = nbRcvd + 1 /\ r = nbRcvd + 1)
    <3>1. replies'[r] = replies[r]
      BY <2>4, <1>0
    <3>2. Owners(r) = {}
      BY <2>1, <2>4 DEF Owners
    <3>3. Settled(r)
      BY <3>2 DEF RepliesOwed
    <3>4. r > nbRcvd <=> r > nbRcvd'
      BY <2>4, <1>0 DEF RqstIds
    <3>5. r # 0
      BY DEF RqstIds
    <3> QED
      BY <3>1, <3>3, <3>4, <3>5 DEF Settled
  <2> QED BY <2>2, <2>3, <2>4
<1> QED
  BY <1>3, <1>4 DEF RepliesOwed, Owed

\* The steps that send no reply.
LEMMA NoReply ==
  ASSUME RepliesOwed, replies' = replies, nbRcvd' = nbRcvd, endRqst' = endRqst,
         cntrlPc' = "exited" <=> cntrlPc = "exited",
         Live' = Live, Zombie' = Zombie,
         \A i \in Live \ Zombie :
           act'[i].rqst = act[i].rqst /\ (Waiting(act'[i]) <=> Waiting(act[i]))
  PROVE  RepliesOwed'
<1>1. \A i \in Live' \ Zombie' : Owed(i)'
  BY DEF RepliesOwed, Owed
<1>2. ASSUME NEW r \in RqstIds, Owners(r)' = {} PROVE Settled(r)'
  <2>1. Owners(r) = {}
    BY <1>2 DEF Owners
  <2> QED
    BY <2>1 DEF RepliesOwed, Settled
<1> QED
  BY <1>1, <1>2 DEF RepliesOwed

LEMMA ElsewhereReplies ==
  ASSUME BooksInv, RepliesOwed, Elsewhere
  PROVE  RepliesOwed'
<1>1. \A i \in Slots :
        /\ act'[i].rqst = act[i].rqst
        /\ Waiting(act'[i]) <=> Waiting(act[i])
        /\ act'[i].status = "ETHER" <=> act[i].status = "ETHER"
        /\ act'[i].status = "ZOMBIE" <=> act[i].status = "ZOMBIE"
  <2> SUFFICES ASSUME NEW i \in Slots
               PROVE  /\ act'[i].rqst = act[i].rqst
                      /\ Waiting(act'[i]) <=> Waiting(act[i])
                      /\ act'[i].status = "ETHER" <=> act[i].status = "ETHER"
                      /\ act'[i].status = "ZOMBIE" <=> act[i].status = "ZOMBIE"
    OBVIOUS
  <2>1. /\ Carried(i)
        /\ \/ act'[i].status = act[i].status
           \/ act[i].status \notin {"ETHER", "ZOMBIE"} /\ act'[i].status \in CodelStates
        /\ Waiting(act[i]) => act'[i] = act[i]
    BY CarriedElsewhere DEF BooksInv
  <2>2. Waiting(act'[i]) <=> Waiting(act[i])
    BY <2>1 DEF Carried
  <2> QED
    BY <2>1, <2>2 DEF Carried, CodelStates
<1>2. Live' = Live /\ Zombie' = Zombie
  BY <1>1 DEF Live, Zombie
<1>3. \A i \in Live \ Zombie :
        act'[i].rqst = act[i].rqst /\ (Waiting(act'[i]) <=> Waiting(act[i]))
  BY <1>1 DEF Live
<1> QED
  BY <1>2, <1>3, NoReply DEF Elsewhere

\* The activities AbortActivity ends, and those it leaves.
LEMMA AbortLeaves ==
  ASSUME BooksInv, NEW S \in SUBSET Slots, NEW i \in Slots, act'[i] = AbortTable(S)[i]
  PROVE  /\ i \in Live' <=> i \in Live \ Ended(S)
         /\ i \in Live' => act'[i].status = act[i].status
         /\ act'[i].rqst = act[i].rqst /\ act'[i].type = act[i].type
         /\ i \notin Ended(S) => (Waiting(act'[i]) <=> Waiting(act[i]))
<1>0. TypeSDI
  BY DEF BooksInv, Inv, TypeOK
<1>1. Carried(i)
  BY <1>0, CarriedAbort
<1>2. act[i].status # "ETHER" /\ i \notin Ended(S) <=> act'[i].status # "ETHER"
  BY <1>0, AbortedTable
<1>3. i \notin Ended(S) => act'[i].status = act[i].status
  BY <1>0, AbortedTable
<1>4. i \notin Ended(S) /\ Waiting(act[i]) => act'[i] = act[i]
  BY DEF AbortTable, Waiting, Interrupted, AbortInterrupts, CodelStates
<1> QED
  BY <1>1, <1>2, <1>3, <1>4 DEF Carried, Live

\* The handlers that interrupt activities and answer.
LEMMA AbortReplied ==
  ASSUME BooksInv, BooksInv', RepliesOwed, NEW S \in SUBSET Slots, NEW r \in RqstIds,
         NEW b \in Finals, Serve(r), AbortAndAnswer(S, r, b)
  PROVE  RepliesOwed'
<1> DEFINE D == Ended(S) \ Zombie
           Q == {[rqst |-> r, reply |-> b]}
<1>0. /\ r = nbRcvd + 1 /\ nbRcvd' = r /\ endRqst = 0 /\ endRqst' = 0
  BY DEF Serve, AbortAndAnswer, kept, endVars, BooksInv, EndIsLast
<1>1. D \in SUBSET (Live \ Zombie) /\ D \in SUBSET Live
  BY DEF Ended, AbortEnds, CodelStates, Live
<1>2. replies' = Replied(FinalReplies(D) \cup Q)
  BY DEF AbortAndAnswer, AbortReplies
<1>3. \A m \in Q : m.rqst = nbRcvd + 1 /\ m.reply = b
  BY <1>0
<1>4. \A m \in Q, n \in Q : m = n
  OBVIOUS
<1>5. [rqst |-> r, reply |-> b] \in Q
  OBVIOUS
<1>6. act' = AbortTable(S)
  BY DEF AbortAndAnswer
<1>7. \A i \in Slots : /\ i \in Live' <=> i \in Live \ Ended(S)
                       /\ i \in Live' => act'[i].status = act[i].status
                       /\ act'[i].rqst = act[i].rqst /\ act'[i].type = act[i].type
                       /\ i \notin Ended(S) => (Waiting(act'[i]) <=> Waiting(act[i]))
  BY <1>6, AbortLeaves
<1>8. \A i \in (Live \ Zombie) \ D : /\ i \in Live' \ Zombie' /\ act'[i].rqst = act[i].rqst
                                     /\ Waiting(act'[i]) <=> Waiting(act[i])
  BY <1>7 DEF Live, Zombie
<1>9. \A i \in Live' \ Zombie' : i \in (Live \ Zombie) \ D
  BY <1>7 DEF Live, Zombie
<1> HIDE DEF D, Q
<1>20. /\ \A i \in D : Replied(FinalReplies(D) \cup Q)[act[i].rqst]
                         = Append(replies[act[i].rqst], FinalReply(act[i]))
       /\ \A m \in Q : nbRcvd + 1 \in RqstIds =>
            Replied(FinalReplies(D) \cup Q)[nbRcvd + 1]
              = Append(replies[nbRcvd + 1], m.reply)
       /\ \A q \in RqstIds :
            (\A i \in D : act[i].rqst # q) /\ (\A m \in Q : m.rqst # q)
              => Replied(FinalReplies(D) \cup Q)[q] = replies[q]
  BY <1>1, <1>3, <1>4, RepliesSent
<1>10. \A i \in D : replies'[act[i].rqst] = Append(replies[act[i].rqst], FinalReply(act[i]))
  BY <1>2, <1>3, <1>20
<1>11. replies'[nbRcvd + 1] = Append(replies[nbRcvd + 1], b)
  BY <1>0, <1>2, <1>3, <1>5, <1>20
<1>12. \A q \in RqstIds :
         q # nbRcvd + 1 /\ (\A i \in D : act[i].rqst # q) => replies'[q] = replies[q]
  <2> SUFFICES ASSUME NEW q \in RqstIds, q # nbRcvd + 1, \A i \in D : act[i].rqst # q
               PROVE  replies'[q] = replies[q]
    OBVIOUS
  <2>1. \A m \in Q : m.rqst # q
    BY <1>3
  <2>2. Replied(FinalReplies(D) \cup Q)[q] = replies[q]
    BY <1>20, <2>1
  <2> QED
    BY <1>2, <2>2
<1> QED
  BY <1>0, <1>1, <1>8, <1>9, <1>10, <1>11, <1>12, RepliesFollow

\* The handlers that only answer, and the refusal of a control codel: the table
\* is as it was for the activities that are not over.
LEMMA AnswerReplied ==
  ASSUME BooksInv, BooksInv', RepliesOwed, NEW r \in RqstIds, NEW b \in Finals,
         Serve(r), replies' = Replied({[rqst |-> r, reply |-> b]}), endRqst' = endRqst,
         \A i \in Slots :
           act'[i] = act[i] \/ (act[i].status = "ETHER" /\ act'[i].status = "ETHER")
  PROVE  RepliesOwed'
<1> DEFINE D == {}
           Q == {[rqst |-> r, reply |-> b]}
<1>0. /\ r = nbRcvd + 1 /\ nbRcvd' = r /\ endRqst = 0 /\ endRqst' = 0
  BY DEF Serve, BooksInv, EndIsLast
<1>1. D \in SUBSET (Live \ Zombie) /\ D \in SUBSET Live
  OBVIOUS
<1>2. replies' = Replied(FinalReplies(D) \cup Q)
  <2>1. FinalReplies(D) \cup Q = Q
    BY DEF FinalReplies
  <2> QED BY <2>1
<1>3. \A m \in Q : m.rqst = nbRcvd + 1 /\ m.reply = b
  BY <1>0
<1>4. \A m \in Q, n \in Q : m = n
  OBVIOUS
<1>5. [rqst |-> r, reply |-> b] \in Q
  OBVIOUS
<1>8. \A i \in (Live \ Zombie) \ D : /\ i \in Live' \ Zombie' /\ act'[i].rqst = act[i].rqst
                                     /\ Waiting(act'[i]) <=> Waiting(act[i])
  BY DEF Live, Zombie
<1>9. \A i \in Live' \ Zombie' : i \in (Live \ Zombie) \ D
  BY DEF Live, Zombie
<1>10. \A i \in D : replies'[act[i].rqst] = Append(replies[act[i].rqst], FinalReply(act[i]))
  OBVIOUS
<1> HIDE DEF D, Q
<1>20. /\ \A i \in D : Replied(FinalReplies(D) \cup Q)[act[i].rqst]
                         = Append(replies[act[i].rqst], FinalReply(act[i]))
       /\ \A m \in Q : nbRcvd + 1 \in RqstIds =>
            Replied(FinalReplies(D) \cup Q)[nbRcvd + 1]
              = Append(replies[nbRcvd + 1], m.reply)
       /\ \A q \in RqstIds :
            (\A i \in D : act[i].rqst # q) /\ (\A m \in Q : m.rqst # q)
              => Replied(FinalReplies(D) \cup Q)[q] = replies[q]
  BY <1>1, <1>3, <1>4, RepliesSent
<1>11. replies'[nbRcvd + 1] = Append(replies[nbRcvd + 1], b)
  BY <1>0, <1>2, <1>3, <1>5, <1>20
<1>12. \A q \in RqstIds :
         q # nbRcvd + 1 /\ (\A i \in D : act[i].rqst # q) => replies'[q] = replies[q]
  <2> SUFFICES ASSUME NEW q \in RqstIds, q # nbRcvd + 1, \A i \in D : act[i].rqst # q
               PROVE  replies'[q] = replies[q]
    OBVIOUS
  <2>1. \A m \in Q : m.rqst # q
    BY <1>3
  <2>2. Replied(FinalReplies(D) \cup Q)[q] = replies[q]
    BY <1>20, <2>1
  <2> QED
    BY <1>2, <2>2
<1> QED
  BY <1>0, <1>1, <1>8, <1>9, <1>10, <1>11, <1>12, RepliesFollow

\* An activity is allocated: those it interrupts and that are over are answered,
\* its own request is not yet.
LEMMA RqstExecReplied ==
  ASSUME BooksInv, BooksInv', RepliesOwed, NEW x \in ExecRqsts, NEW r \in RqstIds,
         NEW s \in Slots, RqstExec(x, r, s)
  PROVE  RepliesOwed'
<1> DEFINE S == Targets(x)
           D == Ended(S) \ Zombie
           new == NewActivity(x, r, S \ Ended(S))
           Q == {}
<1>0. /\ r = nbRcvd + 1 /\ nbRcvd' = r /\ endRqst = 0 /\ endRqst' = 0
  BY DEF Serve, RqstExec, kept, endVars, BooksInv, EndIsLast
<1>1. D \in SUBSET (Live \ Zombie) /\ D \in SUBSET Live /\ S \in SUBSET Slots
  BY DEF Ended, AbortEnds, CodelStates, Live, Targets
<1>2. replies' = Replied(FinalReplies(D) \cup Q)
  BY DEF RqstExec, AbortReplies
<1>3. \A m \in Q : m.rqst = nbRcvd + 1
  OBVIOUS
<1>4. \A m \in Q, n \in Q : m = n
  OBVIOUS
<1>5. new.status = "INIT" /\ new.rqst = r /\ Waiting(new)
  BY DEF NewActivity, Waiting
<1>6. act' = [AbortTable(S) EXCEPT ![s] = new]
  BY DEF RqstExec
<1>7. s \notin Live /\ s \notin Ended(S)
  BY DEF RqstExec, FirstFree, Ended, Targets, Live
<1> HIDE DEF new
<1>8. AbortTable(S) \in [Slots -> Activity]
  BY <1>1, AbortTableType DEF BooksInv, Inv, TypeOK
<1>9. act'[s] = new /\ \A i \in Slots \ {s} : act'[i] = AbortTable(S)[i]
  BY <1>6, <1>8
<1> HIDE DEF S
<1>10. \A i \in Slots \ {s} :
         /\ i \in Live' <=> i \in Live \ Ended(S)
         /\ i \in Live' => act'[i].status = act[i].status
         /\ act'[i].rqst = act[i].rqst /\ act'[i].type = act[i].type
         /\ i \notin Ended(S) => (Waiting(act'[i]) <=> Waiting(act[i]))
  BY <1>1, <1>9, AbortLeaves
<1>11. s \in Live' \ Zombie' /\ act'[s].rqst = nbRcvd + 1 /\ Waiting(act'[s])
  BY <1>0, <1>5, <1>9 DEF Live, Zombie
<1>12. \A i \in (Live \ Zombie) \ D : /\ i \in Live' \ Zombie' /\ act'[i].rqst = act[i].rqst
                                      /\ Waiting(act'[i]) <=> Waiting(act[i])
  BY <1>7, <1>10 DEF Live, Zombie
<1>13. \A i \in Live' \ Zombie' : i = s \/ i \in (Live \ Zombie) \ D
  BY <1>10 DEF Live, Zombie
<1>14. \A i \in D : act[i].rqst # nbRcvd + 1
  <2>1. nbRcvd \in Nat
    BY DEF BooksInv, Inv, TypeOK, TypeSDI
  <2> QED
    BY <1>1, <2>1 DEF BooksInv, RqstsOrdered
<1> HIDE DEF D, Q
<1>20. /\ \A i \in D : Replied(FinalReplies(D) \cup Q)[act[i].rqst]
                         = Append(replies[act[i].rqst], FinalReply(act[i]))
       /\ \A m \in Q : nbRcvd + 1 \in RqstIds =>
            Replied(FinalReplies(D) \cup Q)[nbRcvd + 1]
              = Append(replies[nbRcvd + 1], m.reply)
       /\ \A q \in RqstIds :
            (\A i \in D : act[i].rqst # q) /\ (\A m \in Q : m.rqst # q)
              => Replied(FinalReplies(D) \cup Q)[q] = replies[q]
  BY <1>1, <1>3, <1>4, RepliesSent
<1>15. \A i \in D : replies'[act[i].rqst] = Append(replies[act[i].rqst], FinalReply(act[i]))
  BY <1>2, <1>3, <1>20
<1>16. \A q \in RqstIds : (\A i \in D : act[i].rqst # q) => replies'[q] = replies[q]
  BY <1>2, <1>3, <1>20 DEF Q
<1>17. replies'[nbRcvd + 1] = replies[nbRcvd + 1]
  BY <1>0, <1>14, <1>16
<1> QED
  BY <1>0, <1>1, <1>11, <1>12, <1>13, <1>15, <1>16, <1>17, RepliesFollow

\* The activities that are over or fail get their final reply.
LEMMA EventsReplied ==
  ASSUME BooksInv, BooksInv', RepliesOwed, CntrlIntEvnExec
  PROVE  RepliesOwed'
<1> DEFINE over   == {i \in Slots : act[i].evn = "ETHER"}
           failed == {i \in Slots : act[i].evn = "ZOMBIE"}
           D == over \cup failed
           Q == {}
<1>0. nbRcvd' = nbRcvd /\ endRqst = 0 /\ endRqst' = 0
  BY DEF CntrlIntEvnExec, endVars, BooksInv, EndIsLast
<1>1. D \in SUBSET (Live \ Zombie) /\ D \in SUBSET Live
  BY DEF BooksInv, Inv, QuietSlots, Live, Zombie
<1>2. replies' = Replied(FinalReplies(D) \cup Q)
  BY DEF CntrlIntEvnExec
<1>3. \A m \in Q : m.rqst = nbRcvd + 1
  OBVIOUS
<1>4. \A m \in Q, n \in Q : m = n
  OBVIOUS
<1>5. ASSUME NEW i \in Slots, i \notin D
      PROVE  /\ act'[i].status \in {act[i].status, "SLEEP"}
             /\ act'[i].status = "SLEEP" => act[i].status \notin {"ETHER", "ZOMBIE"}
             /\ act'[i].rqst = act[i].rqst
             /\ Waiting(act'[i]) <=> Waiting(act[i])
  <2>0. act[i] \in Activity
    BY DEF BooksInv, Inv, TypeOK, TypeSDI
  <2>1. CASE act[i].evn = "SLEEP"
    <3>1. act'[i] = [act[i] EXCEPT !.status = "SLEEP", !.evn = "NO_EVENT"]
      BY <1>5, <2>1 DEF CntrlIntEvnExec
    <3>2. act[i].status \notin {"ETHER", "ZOMBIE"}
      BY <2>1 DEF BooksInv, Inv, QuietSlots
    <3> QED
      BY <2>0, <2>1, <3>1, <3>2 DEF Waiting, Activity
  <2>2. CASE act[i].evn # "SLEEP"
    <3>1. act'[i] = act[i]
      BY <1>5, <2>2 DEF CntrlIntEvnExec
    <3>2. act[i].status = "SLEEP" => act[i].status \notin {"ETHER", "ZOMBIE"}
      OBVIOUS
    <3> QED BY <3>1, <3>2
  <2> QED BY <2>1, <2>2
<1>6. ASSUME NEW i \in D PROVE i \notin Live' \ Zombie'
  <2>0. act[i] \in Activity
    BY DEF BooksInv, Inv, TypeOK, TypeSDI
  <2>1. CASE act[i].evn = "ETHER"
    <3>1. act'[i] = Freed(act[i])
      BY <2>1 DEF CntrlIntEvnExec
    <3> QED
      BY <2>0, <3>1 DEF Freed, Live, Activity
  <2>2. CASE act[i].evn = "ZOMBIE"
    <3>1. act'[i] = [act[i] EXCEPT !.status = "ZOMBIE", !.evn = "NO_EVENT"]
      BY <2>2 DEF CntrlIntEvnExec
    <3> QED
      BY <2>0, <3>1 DEF Zombie, Activity
  <2> QED BY <2>1, <2>2
<1>7. \A i \in (Live \ Zombie) \ D : /\ i \in Live' \ Zombie' /\ act'[i].rqst = act[i].rqst
                                     /\ Waiting(act'[i]) <=> Waiting(act[i])
  BY <1>5 DEF Live, Zombie
<1>8. \A i \in Live' \ Zombie' : i \in (Live \ Zombie) \ D
  BY <1>5, <1>6 DEF Live, Zombie
<1>9. \A i \in D : act[i].rqst # nbRcvd + 1
  <2>1. nbRcvd \in Nat
    BY DEF BooksInv, Inv, TypeOK, TypeSDI
  <2> QED
    BY <1>1, <2>1 DEF BooksInv, RqstsOrdered
<1> HIDE DEF D
<1>20. /\ \A i \in D : Replied(FinalReplies(D) \cup Q)[act[i].rqst]
                         = Append(replies[act[i].rqst], FinalReply(act[i]))
       /\ \A m \in Q : nbRcvd + 1 \in RqstIds =>
            Replied(FinalReplies(D) \cup Q)[nbRcvd + 1]
              = Append(replies[nbRcvd + 1], m.reply)
       /\ \A q \in RqstIds :
            (\A i \in D : act[i].rqst # q) /\ (\A m \in Q : m.rqst # q)
              => Replied(FinalReplies(D) \cup Q)[q] = replies[q]
  BY <1>1, <1>3, <1>4, RepliesSent
<1>10. \A i \in D : replies'[act[i].rqst] = Append(replies[act[i].rqst], FinalReply(act[i]))
  BY <1>2, <1>3, <1>20
<1>11. \A q \in RqstIds : (\A i \in D : act[i].rqst # q) => replies'[q] = replies[q]
  BY <1>2, <1>3, <1>20
<1>12. nbRcvd + 1 \in RqstIds => replies'[nbRcvd + 1] = replies[nbRcvd + 1]
  BY <1>9, <1>11
<1> HIDE DEF Q
<1> QED
  BY <1>0, <1>1, <1>7, <1>8, <1>10, <1>11, <1>12, RepliesFollow

\* The activities that are launched get their intermediate reply.
LEMMA SpawnReplied ==
  ASSUME BooksInv, RepliesOwed, SpawnActivities
  PROVE  RepliesOwed'
<1> DEFINE over(j) == act[j].status \in {"ETHER", "ZOMBIE"}
           ready == {i \in Slots : Waiting(act[i]) /\ \A j \in act[i].incomp : over(j)}
           R == {[rqst |-> act[i].rqst, reply |-> "INTERMED"] : i \in ready}
<1>0. /\ nbRcvd' = nbRcvd /\ endRqst' = endRqst /\ endRqst = 0
      /\ replies' = Replied(R)
  BY DEF SpawnActivities, endVars, BooksInv, EndIsLast
<1>1. \A i \in Slots : /\ Carried(i)
                       /\ act'[i].status = act[i].status
                       /\ ~Waiting(act[i]) => act'[i] = act[i]
  BY CarriedSpawn DEF BooksInv, Inv, TypeOK
<1>2. Live' = Live /\ Zombie' = Zombie
  BY <1>1 DEF Live, Zombie
<1>3. \A i \in Slots : act'[i].rqst = act[i].rqst
  BY <1>1 DEF Carried
<1>4. ready \subseteq Live \ Zombie
  BY DEF Waiting, Live, Zombie
<1>5. \A i \in ready : Waiting(act[i]) /\ ~Waiting(act'[i])
  <2> SUFFICES ASSUME NEW i \in ready PROVE Waiting(act[i]) /\ ~Waiting(act'[i])
    OBVIOUS
  <2>0. act[i] \in Activity
    BY DEF BooksInv, Inv, TypeOK, TypeSDI
  <2> DEFINE I == {j \in act[i].incomp : ~over(j)}
  <2>1. Waiting(act[i])
    OBVIOUS
  <2>2. act'[i] = [act[i] EXCEPT !.evn = "START", !.incomp = I]
    BY <2>1 DEF SpawnActivities
  <2> HIDE DEF I
  <2> QED
    BY <2>0, <2>1, <2>2 DEF Waiting, Activity
<1>6. \A i \in Slots \ ready : Waiting(act'[i]) <=> Waiting(act[i])
  <2> SUFFICES ASSUME NEW i \in Slots, i \notin ready, Waiting(act[i])
               PROVE  Waiting(act'[i])
    BY <1>1 DEF Carried
  <2>0. act[i] \in Activity
    BY DEF BooksInv, Inv, TypeOK, TypeSDI
  <2> DEFINE I == {j \in act[i].incomp : ~over(j)}
  <2>1. act'[i] = [act[i] EXCEPT !.evn = act[i].evn, !.incomp = I]
    BY DEF SpawnActivities
  <2> HIDE DEF I
  <2> QED
    BY <2>0, <2>1 DEF Waiting, Activity
<1>7. \A m \in R : \E i \in ready : m = [rqst |-> act[i].rqst, reply |-> "INTERMED"]
  OBVIOUS
<1>8. \A i \in ready : [rqst |-> act[i].rqst, reply |-> "INTERMED"] \in R
  OBVIOUS
<1>9. \A i \in Live : act[i].rqst \in RqstIds
  <2>1. nbRcvd \in Nat /\ nbRcvd <= MaxRqst /\ MaxRqst \in Nat
    BY ConstantsAssumption DEF BooksInv, Inv, TypeOK, TypeSDI
  <2> QED
    BY <2>1 DEF BooksInv, RqstsOrdered, RqstIds
<1> HIDE DEF ready, R
<1>10. ASSUME NEW i \in ready
       PROVE  replies'[act[i].rqst] = Append(replies[act[i].rqst], "INTERMED")
  <2> DEFINE m == [rqst |-> act[i].rqst, reply |-> "INTERMED"]
  <2>1. m \in R /\ m.rqst = act[i].rqst /\ m.reply = "INTERMED" /\ act[i].rqst \in RqstIds
    BY <1>4, <1>8, <1>9
  <2> HIDE DEF m
  <2>2. \A n \in R : n.rqst = act[i].rqst => n.reply = m.reply
    BY <1>7, <2>1
  <2>3. Replied(R)[act[i].rqst] = Append(replies[act[i].rqst], m.reply)
    BY <2>1, <2>2, RepliedTo
  <2> QED
    BY <1>0, <2>1, <2>3
<1>11. ASSUME NEW r \in RqstIds, \A i \in ready : act[i].rqst # r
       PROVE  replies'[r] = replies[r]
  <2>1. \A n \in R : n.rqst # r
    BY <1>7, <1>11
  <2> QED
    BY <1>0, <2>1, NotRepliedTo
<1>12. Append(<<>>, "INTERMED") = <<"INTERMED">>
  OBVIOUS
<1>13. ASSUME NEW i \in Live \ Zombie PROVE Owed(i)'
  <2>1. CASE i \in ready
    <3>1. replies[act[i].rqst] = <<>>
      BY <1>5, <2>1 DEF RepliesOwed, Owed
    <3>2. replies'[act[i].rqst] = <<"INTERMED">>
      BY <1>10, <1>12, <2>1, <3>1
    <3>3. act'[i].rqst = act[i].rqst
      BY <1>3 DEF Live
    <3> QED
      BY <1>5, <2>1, <3>2, <3>3 DEF Owed
  <2>2. CASE i \notin ready
    <3>1. \A j \in ready : act[j].rqst # act[i].rqst
      BY <1>4, <2>2, OneActivityPerRequest DEF BooksInv
    <3>2. replies'[act[i].rqst] = replies[act[i].rqst]
      BY <1>9, <1>11, <3>1
    <3>3. act'[i].rqst = act[i].rqst /\ (Waiting(act'[i]) <=> Waiting(act[i]))
      BY <1>3, <1>6, <2>2 DEF Live
    <3> QED
      BY <3>2, <3>3 DEF RepliesOwed, Owed
  <2> QED BY <2>1, <2>2
<1>14. ASSUME NEW r \in RqstIds, Owners(r)' = {} PROVE Settled(r)'
  <2>1. Owners(r) = {}
    BY <1>2, <1>3, <1>14 DEF Owners, Live
  <2>2. \A i \in ready : act[i].rqst # r
    BY <1>4, <2>1 DEF Owners
  <2>3. replies'[r] = replies[r]
    BY <1>11, <2>2
  <2>4. r # 0
    BY DEF RqstIds
  <2> QED
    BY <1>0, <2>1, <2>3, <2>4 DEF RepliesOwed, Settled
<1> QED
  BY <1>2, <1>13, <1>14 DEF RepliesOwed

\* An End request that is accepted waits for its reply.
LEMMA EndModuleReplied ==
  ASSUME BooksInv, BooksInv', RepliesOwed, NEW r \in RqstIds, NEW n \in AbortArgs,
         RqstEndModule(n, r)
  PROVE  RepliesOwed'
<1>1. /\ r = nbRcvd + 1 /\ nbRcvd' = r /\ endRqst = 0 /\ endRqst' = r
      /\ replies' = replies /\ act' = act /\ cntrlPc' = "ending"
  BY DEF RqstEndModule, StopTasks, Serve, BooksInv, EndIsLast
<1>2. Live' = {} /\ Live = {}
  <2>1. Live' = {}
    BY <1>1 DEF BooksInv, EndIsLast, RqstIds
  <2> QED
    BY <1>1, <2>1 DEF Live
<1>3. nbRcvd \in Nat
  BY DEF BooksInv, Inv, TypeOK, TypeSDI
<1>4. ASSUME NEW q \in RqstIds PROVE Settled(q)'
  <2>1. Settled(q) /\ q # 0 /\ q \in Nat
    BY <1>2 DEF RepliesOwed, Owners, RqstIds
  <2>2. CASE q > nbRcvd
    <3>1. replies'[q] = <<>>
      BY <1>1, <2>1, <2>2 DEF Settled
    <3>2. q > nbRcvd' \/ (q = endRqst' /\ cntrlPc' # "exited")
      BY <1>1, <1>3, <2>1, <2>2
    <3> QED BY <3>1, <3>2 DEF Settled
  <2>3. CASE ~(q > nbRcvd)
    <3>1. ~(q > nbRcvd') /\ q # endRqst'
      BY <1>1, <1>3, <2>1, <2>3
    <3> QED
      BY <1>1, <2>1, <2>3, <3>1 DEF Settled
  <2> QED BY <2>2, <2>3
<1> QED
  BY <1>2, <1>4 DEF RepliesOwed

\* It is answered when the module exits.
LEMMA ExitReplied ==
  ASSUME BooksInv, RepliesOwed, CntrlExit
  PROVE  RepliesOwed'
<1> DEFINE R == {[rqst |-> r, reply |-> "OK"] : r \in {endRqst} \ {0}}
<1>1. /\ nbRcvd' = nbRcvd /\ endRqst' = endRqst /\ act' = act
      /\ cntrlPc = "ending" /\ cntrlPc' = "exited" /\ replies' = Replied(R)
  BY DEF CntrlExit, endVars
<1>2. Live' = Live /\ Zombie' = Zombie
  BY <1>1 DEF Live, Zombie
<1>3. ASSUME NEW q \in RqstIds, q # endRqst PROVE replies'[q] = replies[q]
  <2>1. \A m \in R : m.rqst # q
    BY <1>3
  <2> HIDE DEF R
  <2> QED BY <1>1, <2>1, NotRepliedTo
<1>4. ASSUME NEW q \in RqstIds, q = endRqst
      PROVE  replies'[q] = <<"OK">> /\ ~(q > nbRcvd)
  <2>1. Live = {} /\ endRqst \in 1 .. nbRcvd /\ nbRcvd \in Nat
    BY <1>4 DEF BooksInv, EndIsLast, RqstIds, Inv, TypeOK, TypeSDI
  <2>2. replies[q] = <<>>
    BY <1>1, <1>4, <2>1 DEF RepliesOwed, Owners, Settled
  <2> DEFINE m == [rqst |-> q, reply |-> "OK"]
  <2>3. m \in R /\ m.rqst = q /\ m.reply = "OK"
    BY <1>4 DEF RqstIds
  <2>4. \A n \in R : n.reply = "OK"
    OBVIOUS
  <2> HIDE DEF R, m
  <2>5. Replied(R)[q] = Append(replies[q], m.reply)
    BY <2>3, <2>4, RepliedTo
  <2>6. "OK" \in Finals
    BY DEF Finals
  <2> QED
    BY <1>1, <1>4, <2>1, <2>2, <2>3, <2>5, <2>6, AppendReply
<1>5. ASSUME NEW i \in Live \ Zombie PROVE Owed(i)'
  <2>1. endRqst = 0
    BY DEF BooksInv, EndIsLast
  <2>2. act[i].rqst \in RqstIds
    <3>1. nbRcvd \in Nat /\ nbRcvd <= MaxRqst /\ MaxRqst \in Nat
      BY ConstantsAssumption DEF BooksInv, Inv, TypeOK, TypeSDI
    <3> QED
      BY <3>1 DEF BooksInv, RqstsOrdered, RqstIds
  <2>3. replies'[act[i].rqst] = replies[act[i].rqst]
    BY <1>3, <2>1, <2>2 DEF RqstIds
  <2> QED
    BY <1>1, <2>3 DEF RepliesOwed, Owed
<1>6. ASSUME NEW q \in RqstIds, Owners(q)' = {} PROVE Settled(q)'
  <2>1. Owners(q) = {}
    BY <1>1, <1>2, <1>6 DEF Owners
  <2>2. CASE q = endRqst
    BY <1>1, <1>4, <2>2 DEF Settled, Finals
  <2>3. CASE q # endRqst
    BY <1>1, <1>3, <2>1, <2>3 DEF RepliesOwed, Settled
  <2> QED BY <2>2, <2>3
<1> QED
  BY <1>2, <1>5, <1>6 DEF RepliesOwed

RepliesInv == BooksInv /\ RepliesOwed

LEMMA NextKeepsReplies ==
  ASSUME RepliesInv, [Next]_vars
  PROVE  RepliesInv'
<1> USE DEF RepliesInv
<1>0. BooksInv'
  BY NextKeepsBooksInv
<1>1. CASE CntrlRqst
  <2>1. PICK r \in RqstIds :
          /\ Serve(r)
          /\ \/ \E S \in SUBSET Slots, b \in Finals : AbortAndAnswer(S, r, b)
             \/ \E b \in Finals : Answer(r, b)
             \/ \E x \in ExecRqsts, s \in Slots : RqstExec(x, r, s)
             \/ \E x \in ExecRqsts, s \in Slots : RqstExecCodelError(x, r, s)
             \/ \E n \in AbortArgs : RqstResume(n, r)
             \/ \E n \in AbortArgs : RqstEndModule(n, r)
    BY <1>1, RqstCases DEF BooksInv, Inv
  <2>2. ASSUME NEW S \in SUBSET Slots, NEW b \in Finals, AbortAndAnswer(S, r, b)
        PROVE  RepliesOwed'
    BY <1>0, <2>1, <2>2, AbortReplied
  <2>3. ASSUME NEW b \in Finals, Answer(r, b) PROVE RepliesOwed'
    BY <1>0, <2>1, <2>3, AnswerReplied DEF Answer, kept, endVars
  <2>4. ASSUME NEW x \in ExecRqsts, NEW s \in Slots, RqstExec(x, r, s)
        PROVE  RepliesOwed'
    BY <1>0, <2>4, RqstExecReplied
  <2>5. ASSUME NEW x \in ExecRqsts, NEW s \in Slots, RqstExecCodelError(x, r, s)
        PROVE  RepliesOwed'
    <3> DEFINE b == "CONTROL_CODEL_ERROR"
               new == Freed(NewActivity(x, r, {}))
    <3>1. b \in Finals
      BY DEF Finals, Refusals
    <3>2. replies' = Replied({[rqst |-> r, reply |-> b]}) /\ endRqst' = endRqst
      BY <2>5 DEF RqstExecCodelError, kept, endVars
    <3>3. act' = [act EXCEPT ![s] = new] /\ act[s].status = "ETHER"
      BY <2>5 DEF RqstExecCodelError, FirstFree, Live
    <3>4. new.status = "ETHER"
      BY DEF Freed, NewActivity
    <3> HIDE DEF new, b
    <3>5. \A i \in Slots :
            act'[i] = act[i] \/ (act[i].status = "ETHER" /\ act'[i].status = "ETHER")
      BY <3>3, <3>4 DEF BooksInv, Inv, TypeOK, TypeSDI
    <3> QED
      BY <1>0, <2>1, <3>1, <3>2, <3>5, AnswerReplied
  <2>6. ASSUME NEW n \in AbortArgs, RqstResume(n, r) PROVE RepliesOwed'
    <3> DEFINE b == "OK"
    <3>1. b \in Finals
      BY DEF Finals
    <3>2. replies' = Replied({[rqst |-> r, reply |-> b]}) /\ endRqst' = endRqst /\ act' = act
      BY <2>6 DEF RqstResume, kept, endVars
    <3> HIDE DEF b
    <3> QED
      BY <1>0, <2>1, <3>1, <3>2, AnswerReplied
  <2>7. ASSUME NEW n \in AbortArgs, RqstEndModule(n, r) PROVE RepliesOwed'
    BY <1>0, <2>7, EndModuleReplied
  <2> QED
    BY <1>0, <2>1, <2>2, <2>3, <2>4, <2>5, <2>6, <2>7
<1>2. CASE CntrlIntEvnExec
  BY <1>0, <1>2, EventsReplied
<1>3. CASE SpawnActivities
  BY <1>0, <1>3, SpawnReplied
<1>4. CASE CntrlExit
  BY <1>0, <1>4, ExitReplied
<1>5. CASE Elsewhere
  BY <1>0, <1>5, ElsewhereReplies
<1> QED
  BY <1>1, <1>2, <1>3, <1>4, <1>5, NextCases DEF BooksInv

\* The replies sent so far are those each request is due, in every reachable
\* state, along with the books they are sent by.
THEOREM RepliesInvariant == Spec => []RepliesInv
<1>1. Init => RepliesInv
  <2> SUFFICES ASSUME Init PROVE RepliesInv
    OBVIOUS
  <2>1. BooksInv
    BY InitBooks
  <2>2. Live = {}
    BY DEF Init, InitSDI, Live
  <2>3. \A r \in RqstIds : Settled(r)
    BY DEF Init, InitSDI, InitCntrl, RqstIds, Settled
  <2> QED
    BY <2>1, <2>2, <2>3 DEF RepliesInv, RepliesOwed
<1>2. RepliesInv /\ [Next]_vars => RepliesInv'
  BY NextKeepsReplies
<1> QED
  BY <1>1, <1>2, PTL DEF Spec

\* SendFinalReply, csServReplySend: a client gets nothing before its request is
\* served, an intermediate reply if its activity is launched, and one final
\* reply; with any number of clients' requests, slots and tasks.
THEOREM ReplyProtocolHolds == Spec => []ReplyProtocol
<1>1. RepliesInv => ReplyProtocol
  BY OwedAndSettled DEF RepliesInv, BooksInv, Inv
<1> QED
  BY <1>1, RepliesInvariant, PTL

\* GENOM_END_MODULE: once the module has exited on a request, every request it
\* took was answered and no activity is left.
THEOREM EndLeavesNothingHolds == Spec => []EndLeavesNothing
<1>1. RepliesInv => EndLeavesNothing
  <2> SUFFICES ASSUME RepliesInv, cntrlPc = "exited", endRqst # 0
               PROVE  Live = {} /\ \A r \in 1 .. nbRcvd : HasFinal(r)
    BY DEF EndLeavesNothing
  <2> USE DEF RepliesInv, BooksInv
  <2>1. Live = {}
    BY DEF EndIsLast
  <2>2. ASSUME NEW r \in 1 .. nbRcvd PROVE HasFinal(r)
    <3>1. nbRcvd \in Nat /\ nbRcvd <= MaxRqst /\ MaxRqst \in Nat
      BY ConstantsAssumption DEF Inv, TypeOK, TypeSDI
    <3>2. r \in RqstIds /\ ~(r > nbRcvd)
      BY <3>1 DEF RqstIds
    <3>3. Settled(r)
      BY <2>1, <3>2 DEF RepliesOwed, Owners
    <3>4. CASE \E b \in Finals : replies[r] = <<b>>
      <4>1. PICK b \in Finals : replies[r] = <<b>>
        BY <3>4
      <4>2. 1 \in DOMAIN replies[r] /\ replies[r][1] = b
        BY <4>1
      <4> QED BY <4>2 DEF HasFinal
    <3>5. CASE \E b \in Finals : replies[r] = <<"INTERMED", b>>
      <4>1. PICK b \in Finals : replies[r] = <<"INTERMED", b>>
        BY <3>5
      <4>2. 2 \in DOMAIN replies[r] /\ replies[r][2] = b
        BY <4>1
      <4> QED BY <4>2 DEF HasFinal
    <3> QED
      BY <3>2, <3>3, <3>4, <3>5 DEF Settled
  <2> QED BY <2>1, <2>2
<1> QED
  BY <1>1, RepliesInvariant, PTL

-----------------------------------------------------------------------------
(* The service the module implements *)

\* What the clients see, as GenomModule gives it to ActivityService.
Waiters  == Summary({i \in Live : Waiting(act[i])})
Runners  == Summary(Running)
Frozen   == {act[i].rqst : i \in Zombie}
Answered == {r \in RqstIds : HasFinal(r)}
Closing  == IF cntrlPc = "exited" THEN 0 ELSE endRqst

\* The requests whose activity is not over.
Owing == {act[i].rqst : i \in Live \ Zombie}

AnsweredExact == Answered = {r \in 1 .. nbRcvd : r \notin Owing /\ r # Closing}

LEMMA AnsweredIs == RepliesInv => AnsweredExact
<1> SUFFICES ASSUME RepliesInv PROVE AnsweredExact
  OBVIOUS
<1> USE DEF RepliesInv, BooksInv
<1>0. nbRcvd \in Nat /\ nbRcvd <= MaxRqst /\ MaxRqst \in Nat
  BY ConstantsAssumption DEF Inv, TypeOK, TypeSDI
<1>1. 1 .. nbRcvd \subseteq RqstIds
  BY <1>0 DEF RqstIds
<1>2. \A b \in Finals : b # "INTERMED"
  BY DEF Finals, Refusals
<1>3. ASSUME NEW r \in RqstIds, NEW i \in Live \ Zombie, act[i].rqst = r PROVE ~HasFinal(r)
  <2>1. CASE replies[r] = <<>>
    BY <2>1 DEF HasFinal
  <2>2. CASE replies[r] = <<"INTERMED">>
    <3>1. \A n \in DOMAIN replies[r] : replies[r][n] = "INTERMED"
      BY <2>2
    <3> QED BY <1>2, <3>1 DEF HasFinal
  <2> QED
    BY <1>3, <2>1, <2>2 DEF RepliesOwed, Owed
<1>4. ASSUME NEW r \in RqstIds, r \notin Owing PROVE HasFinal(r) <=> r <= nbRcvd /\ r # Closing
  <2>1. Settled(r) /\ r # 0
    BY <1>4 DEF Owing, RepliesOwed, Owners, RqstIds
  <2>2. CASE r > nbRcvd \/ r = Closing
    <3>1. replies[r] = <<>>
      BY <2>1, <2>2 DEF Settled, Closing
    <3> QED
      BY <1>0, <2>2, <3>1 DEF HasFinal, RqstIds
  <2>3. CASE ~(r > nbRcvd \/ r = Closing)
    <3>1. \/ \E b \in Finals : replies[r] = <<b>>
          \/ \E b \in Finals : replies[r] = <<"INTERMED", b>>
      BY <2>1, <2>3 DEF Settled, Closing
    <3>2. ASSUME NEW b \in Finals, replies[r] = <<b>> PROVE HasFinal(r)
      <4>1. 1 \in DOMAIN replies[r] /\ replies[r][1] = b
        BY <3>2
      <4> QED BY <4>1 DEF HasFinal
    <3>3. ASSUME NEW b \in Finals, replies[r] = <<"INTERMED", b>> PROVE HasFinal(r)
      <4>1. 2 \in DOMAIN replies[r] /\ replies[r][2] = b
        BY <3>3
      <4> QED BY <4>1 DEF HasFinal
    <3> QED
      BY <1>0, <2>3, <3>1, <3>2, <3>3 DEF RqstIds
  <2> QED BY <2>2, <2>3
<1>5. \A r \in RqstIds : r \in Owing => ~HasFinal(r)
  BY <1>3 DEF Owing
<1>6. \A r \in RqstIds : r \in 1 .. nbRcvd <=> r <= nbRcvd
  BY <1>0 DEF RqstIds
<1> QED
  BY <1>1, <1>4, <1>5, <1>6 DEF AnsweredExact, Answered

LEMMA AnsweredIsNext == RepliesInv' => AnsweredExact'
BY AnsweredIs, PTL

\* Distinct activities are distinct for the clients.
LEMMA SummaryLeft ==
  ASSUME BooksInv, NEW A \in SUBSET Live, NEW D \in SUBSET Live,
         \A i \in A \ D : act'[i].rqst = act[i].rqst /\ act'[i].type = act[i].type
  PROVE  {[rqst |-> act'[i].rqst, type |-> act'[i].type] : i \in A \ D}
           = Summary(A) \ Summary(D)
<1> DEFINE L == {[rqst |-> act'[i].rqst, type |-> act'[i].type] : i \in A \ D}
<1>1. ASSUME NEW i \in A \ D
      PROVE  [rqst |-> act'[i].rqst, type |-> act'[i].type] \in Summary(A) \ Summary(D)
  <2> DEFINE a == [rqst |-> act[i].rqst, type |-> act[i].type]
  <2>1. a \in Summary(A)
    BY DEF Summary
  <2>2. a \notin Summary(D)
    <3> SUFFICES ASSUME NEW j \in D, a = [rqst |-> act[j].rqst, type |-> act[j].type]
                 PROVE  FALSE
      BY DEF Summary
    <3>1. act[i].rqst = act[j].rqst
      OBVIOUS
    <3> QED
      BY <3>1, OneActivityPerRequest DEF BooksInv
  <2> QED BY <2>1, <2>2
<1>2. ASSUME NEW a \in Summary(A) \ Summary(D) PROVE a \in L
  <2>1. PICK i \in A : a = [rqst |-> act[i].rqst, type |-> act[i].type]
    BY DEF Summary
  <2>2. i \notin D
    BY <2>1 DEF Summary
  <2> QED BY <2>1, <2>2
<1> QED
  BY <1>1, <1>2

LEMMA OwingLeft ==
  ASSUME BooksInv, NEW A \in SUBSET Live, NEW D \in SUBSET Live,
         \A i \in A \ D : act'[i].rqst = act[i].rqst
  PROVE  {act'[i].rqst : i \in A \ D} = {act[i].rqst : i \in A} \ {act[i].rqst : i \in D}
<1>1. ASSUME NEW i \in A \ D PROVE act[i].rqst \notin {act[j].rqst : j \in D}
  BY <1>1, OneActivityPerRequest DEF BooksInv
<1> QED
  BY <1>1

LEMMA RqstsSummary ==
  ASSUME NEW D
  PROVE  Service!Rqsts(Summary(D)) = {act[i].rqst : i \in D}
<1>1. \A a \in Summary(D) : \E i \in D : a.rqst = act[i].rqst
  BY DEF Summary
<1>2. \A i \in D : \E a \in Summary(D) : a.rqst = act[i].rqst
  <2> SUFFICES ASSUME NEW i \in D PROVE \E a \in Summary(D) : a.rqst = act[i].rqst
    OBVIOUS
  <2> DEFINE a == [rqst |-> act[i].rqst, type |-> act[i].type]
  <2>1. a \in Summary(D) /\ a.rqst = act[i].rqst
    BY DEF Summary
  <2> HIDE DEF a
  <2> QED BY <2>1
<1> QED
  BY <1>1, <1>2 DEF Service!Rqsts

LEMMA ServiceReplyStep ==
  ASSUME NEW r \in Service!RqstIds, NEW S \in SUBSET (Waiters \cup Runners),
         NEW F \in SUBSET Frozen, Service!Reply(r, S, F)
  PROVE  Service!Next
BY Zenon DEF Service!Next, Waiters, Runners, Frozen

LEMMA OwingReceived ==
  ASSUME BooksInv
  PROVE  /\ Owing \subseteq 1 .. nbRcvd /\ Frozen \subseteq 1 .. nbRcvd
         /\ nbRcvd \in Nat /\ nbRcvd <= MaxRqst /\ MaxRqst \in Nat
         /\ Live \ Zombie = {i \in Live : Waiting(act[i])} \cup Running
         /\ {i \in Live : Waiting(act[i])} \in SUBSET Live /\ Running \in SUBSET Live
         /\ Zombie \in SUBSET Live
  BY ConstantsAssumption DEF BooksInv, Inv, TypeOK, TypeSDI, RqstsOrdered, Owing, Running,
     Live, Zombie, Waiting, Frozen

\* A handler that answers r, while the activities of D are over and the failed
\* ones of Z are acknowledged.
LEMMA ServiceReply ==
  ASSUME RepliesInv, RepliesInv', NEW r \in RqstIds, Serve(r), endRqst = 0, endRqst' = 0,
         NEW D \in SUBSET (Live \ Zombie), NEW Z \in SUBSET Zombie,
         \A i \in Slots : /\ i \in Live' <=> i \in Live \ (D \cup Z)
                          /\ i \in Live' => act'[i].status = act[i].status
                          /\ i \in Live' => act'[i].rqst = act[i].rqst
                          /\ i \in Live' => act'[i].type = act[i].type
                          /\ i \in Live' => (Waiting(act'[i]) <=> Waiting(act[i]))
  PROVE  Service!Next
<1> DEFINE W == {i \in Live : Waiting(act[i])}
<1>0. BooksInv /\ BooksInv'
  BY DEF RepliesInv
<1>1. /\ r = nbRcvd + 1 /\ nbRcvd' = r /\ cntrlPc # "exited" /\ nbRcvd < nbSent
      /\ Closing = 0 /\ Closing' = 0
  BY DEF Serve, Closing
<1>2. W' = W \ D /\ Running' = Running \ D /\ Zombie' = Zombie \ Z
      /\ Live' \ Zombie' = (Live \ Zombie) \ D
  BY DEF Live, Zombie, Running, Waiting
<1>3. D \in SUBSET Live /\ Z \in SUBSET Live /\ W \in SUBSET Live /\ Running \in SUBSET Live
      /\ Zombie \in SUBSET Live
  BY <1>0, OwingReceived
<1>4. \A i \in Live \ (D \cup Z) : act'[i].rqst = act[i].rqst /\ act'[i].type = act[i].type
  BY DEF Live
<1>5. Waiters' = Waiters \ Summary(D)
  <2>1. \A i \in W \ D : act'[i].rqst = act[i].rqst /\ act'[i].type = act[i].type
    BY <1>4 DEF Zombie, Waiting
  <2>2. {[rqst |-> act'[i].rqst, type |-> act'[i].type] : i \in W \ D}
          = Summary(W) \ Summary(D)
    BY <1>0, <1>3, <2>1, SummaryLeft
  <2>3. Waiters' = {[rqst |-> act'[i].rqst, type |-> act'[i].type] : i \in W'}
    BY DEF Waiters, Summary
  <2> QED
    BY <1>2, <2>2, <2>3 DEF Waiters
<1>6. Runners' = Runners \ Summary(D)
  <2>1. \A i \in Running \ D : act'[i].rqst = act[i].rqst /\ act'[i].type = act[i].type
    BY <1>3, <1>4 DEF Running
  <2>2. {[rqst |-> act'[i].rqst, type |-> act'[i].type] : i \in Running \ D}
          = Summary(Running) \ Summary(D)
    BY <1>0, <1>3, <2>1, SummaryLeft
  <2>3. Runners' = {[rqst |-> act'[i].rqst, type |-> act'[i].type] : i \in Running'}
    BY DEF Runners, Summary
  <2> QED
    BY <1>2, <2>2, <2>3 DEF Runners
<1>7. Frozen' = Frozen \ {act[i].rqst : i \in Z}
  <2>1. \A i \in Zombie \ Z : act'[i].rqst = act[i].rqst
    BY <1>3, <1>4
  <2>2. {act'[i].rqst : i \in Zombie \ Z} = {act[i].rqst : i \in Zombie} \ {act[i].rqst : i \in Z}
    BY <1>0, <1>3, <2>1, OwingLeft
  <2> QED
    BY <1>2, <2>2 DEF Frozen
<1>8. Owing' = Owing \ {act[i].rqst : i \in D}
  <2>1. \A i \in (Live \ Zombie) \ D : act'[i].rqst = act[i].rqst
    BY <1>4
  <2>2. {act'[i].rqst : i \in (Live \ Zombie) \ D}
          = {act[i].rqst : i \in Live \ Zombie} \ {act[i].rqst : i \in D}
    BY <1>0, <1>3, <2>1, OwingLeft
  <2> QED
    BY <1>2, <2>2 DEF Owing
<1>9. Answered' = Answered \cup {act[i].rqst : i \in D} \cup {r}
  <2>1. AnsweredExact /\ AnsweredExact'
    BY AnsweredIs, AnsweredIsNext
  <2> DEFINE G == {act[i].rqst : i \in D}
  <2>2. G \subseteq Owing /\ Owing' = Owing \ G
    BY <1>8 DEF Owing
  <2>3. Owing \subseteq 1 .. nbRcvd /\ nbRcvd \in Nat
    BY <1>0, OwingReceived
  <2>4. 1 .. nbRcvd' = (1 .. nbRcvd) \cup {r} /\ r \notin 1 .. nbRcvd
        /\ 0 \notin 1 .. nbRcvd /\ r # 0
    BY <1>1, <2>3
  <2> HIDE DEF G
  <2>5. Answered' = Answered \cup G \cup {r}
    BY <1>1, <2>1, <2>2, <2>3, <2>4 DEF AnsweredExact
  <2> QED BY <2>5 DEF G
<1>10. Summary(D) \subseteq Waiters \cup Runners
  BY DEF Summary, Waiters, Runners, Running
<1>11. {act[i].rqst : i \in Z} \subseteq Frozen
  BY DEF Frozen
<1>12. nbRcvd < MaxRqst
  BY <1>0, <1>1, ConstantsAssumption DEF BooksInv, Inv, TypeOK, TypeSDI
<1>13. Service!Rqsts(Summary(D)) = {act[i].rqst : i \in D}
  BY RqstsSummary
<1>14. PICK E \in SUBSET (Waiters \cup Runners), F \in SUBSET Frozen :
         E = Summary(D) /\ F = {act[i].rqst : i \in Z}
  BY <1>10, <1>11
<1>15. Service!Reply(r, E, F)
  BY <1>1, <1>5, <1>6, <1>7, <1>9, <1>10, <1>11, <1>12, <1>13, <1>14
     DEF Service!Reply, Service!Receive, Waiters, Runners, Frozen, Answered, Closing
<1>16. r \in Service!RqstIds
  BY DEF RqstIds, Service!RqstIds
<1> QED
  BY <1>15, <1>16, ServiceReplyStep

LEMMA ServiceAdmitStep ==
  ASSUME NEW r \in Service!RqstIds, NEW x \in ExecRqsts, NEW E \in SUBSET Runners,
         Service!Admit(r, x, E)
  PROVE  Service!Next
BY Zenon DEF Service!Next, Runners

\* An activity is allocated: the incompatible ones that wait are cancelled, and
\* those of the launched ones whose end was already asked for.
LEMMA ServiceAdmit ==
  ASSUME RepliesInv, RepliesInv', NEW x \in ExecRqsts, NEW r \in RqstIds,
         NEW s \in Slots, RqstExec(x, r, s)
  PROVE  Service!Next
<1> DEFINE S == Targets(x)
           D == Ended(S)
           new == NewActivity(x, r, S \ D)
           W == {i \in Live : Waiting(act[i])}
           DW == D \cap W
           DR == D \cap Running
<1>0. BooksInv /\ BooksInv'
  BY DEF RepliesInv
<1>1. /\ r = nbRcvd + 1 /\ nbRcvd' = r /\ cntrlPc # "exited" /\ cntrlPc' # "exited"
      /\ nbRcvd < nbSent /\ endRqst = 0 /\ endRqst' = 0
      /\ Closing = 0 /\ Closing' = 0
  BY <1>0 DEF RqstExec, Serve, Closing, kept, endVars, BooksInv, EndIsLast
<1>2. Zombie = {}
  <2>1. nbZombie = 0
    BY DEF RqstExec, Refusal
  <2>2. Zombie \in SUBSET Slots
    BY DEF Zombie
  <2>3. IsFiniteSet(Zombie) /\ Cardinality(Zombie) = 0
    BY <1>0, <2>1, <2>2, SlotsFinite DEF BooksInv, CountersExact
  <2> QED BY <2>3, FS_EmptySet
<1>3. /\ S \in SUBSET Slots /\ D \in SUBSET Live /\ DW \in SUBSET Live /\ DR \in SUBSET Live
      /\ W \in SUBSET Live /\ Running \in SUBSET Live
      /\ \A i \in D : act[i].type \in Incompatible[x]
      /\ \A i \in W : act[i].type \in Incompatible[x] => i \in D
      /\ D = DW \cup DR
  BY <1>2 DEF Ended, AbortEnds, CodelStates, Live, Targets, Waiting, Running
<1>4. new.status = "INIT" /\ new.rqst = r /\ new.type = x /\ Waiting(new)
  BY DEF NewActivity, Waiting
<1>5. act' = [AbortTable(S) EXCEPT ![s] = new]
  BY DEF RqstExec
<1>6. s \notin Live
  BY DEF RqstExec, FirstFree
<1> HIDE DEF new
<1>7. AbortTable(S) \in [Slots -> Activity]
  BY <1>0, <1>3, AbortTableType DEF BooksInv, Inv, TypeOK
<1>8. act'[s] = new /\ \A i \in Slots \ {s} : act'[i] = AbortTable(S)[i]
  BY <1>5, <1>7
<1>9. \A i \in Slots \ {s} : /\ i \in Live' <=> i \in Live \ D
                             /\ i \in Live' => act'[i].status = act[i].status
                             /\ act'[i].rqst = act[i].rqst /\ act'[i].type = act[i].type
                             /\ i \notin D => (Waiting(act'[i]) <=> Waiting(act[i]))
  BY <1>0, <1>3, <1>8, AbortLeaves
<1> HIDE DEF S, D
<1>10. s \in Live' /\ s \notin Zombie' /\ Waiting(act'[s])
       /\ act'[s].rqst = r /\ act'[s].type = x
  BY <1>4, <1>8 DEF Live, Zombie
<1>11. Live' = (Live \ D) \cup {s}
  BY <1>9, <1>10 DEF Live
<1>12. Zombie' = {}
  BY <1>2, <1>9, <1>10 DEF Zombie, Live
<1>13. /\ W' = (W \ DW) \cup {s} /\ Running' = Running \ DR
       /\ Live' \ Zombie' = (Live \ D) \cup {s}
  <2>1. W' = (W \ DW) \cup {s}
    BY <1>6, <1>9, <1>10, <1>11 DEF Live
  <2>2. Running' = Running \ DR
    BY <1>2, <1>6, <1>9, <1>10, <1>11, <1>12 DEF Live, Running
  <2> QED BY <1>11, <1>12, <2>1, <2>2
<1>14. \A i \in Live \ D : act'[i].rqst = act[i].rqst /\ act'[i].type = act[i].type
  BY <1>6, <1>9 DEF Live
<1>15. Waiters' = (Waiters \ Summary(DW)) \cup {[rqst |-> r, type |-> x]}
  <2>1. \A i \in W \ DW : act'[i].rqst = act[i].rqst /\ act'[i].type = act[i].type
    BY <1>3, <1>14
  <2>2. {[rqst |-> act'[i].rqst, type |-> act'[i].type] : i \in W \ DW}
          = Summary(W) \ Summary(DW)
    BY <1>0, <1>3, <2>1, SummaryLeft
  <2>3. Waiters' = {[rqst |-> act'[i].rqst, type |-> act'[i].type] : i \in W'}
    BY DEF Waiters, Summary
  <2>4. Waiters' = {[rqst |-> act'[i].rqst, type |-> act'[i].type] : i \in W \ DW}
                     \cup {[rqst |-> act'[s].rqst, type |-> act'[s].type]}
    <3> HIDE DEF W, DW
    <3> QED BY <1>13, <2>3
  <2> QED
    BY <1>10, <2>2, <2>4 DEF Waiters
<1>16. Runners' = Runners \ Summary(DR)
  <2>1. \A i \in Running \ DR : act'[i].rqst = act[i].rqst /\ act'[i].type = act[i].type
    BY <1>3, <1>14
  <2>2. {[rqst |-> act'[i].rqst, type |-> act'[i].type] : i \in Running \ DR}
          = Summary(Running) \ Summary(DR)
    BY <1>0, <1>3, <2>1, SummaryLeft
  <2>3. Runners' = {[rqst |-> act'[i].rqst, type |-> act'[i].type] : i \in Running'}
    BY DEF Runners, Summary
  <2> QED
    BY <1>13, <2>2, <2>3 DEF Runners
<1>17. Frozen = {} /\ Frozen' = {}
  BY <1>2, <1>12 DEF Frozen
<1> DEFINE G == {act[i].rqst : i \in D}
<1>18. Owing' = (Owing \ G) \cup {r} /\ G \subseteq Owing
  <2>1. {act'[i].rqst : i \in Live \ D} = {act[i].rqst : i \in Live} \ {act[i].rqst : i \in D}
    BY <1>0, <1>3, <1>14, OwingLeft
  <2>2. Owing = {act[i].rqst : i \in Live}
    BY <1>2 DEF Owing
  <2>3. Owing' = {act'[i].rqst : i \in (Live \ D) \cup {s}}
    BY <1>13 DEF Owing
  <2>4. Owing' = {act'[i].rqst : i \in Live \ D} \cup {act'[s].rqst}
    BY <2>3
  <2> QED
    BY <1>3, <1>10, <2>1, <2>2, <2>4
<1>19. Answered' = Answered \cup G
  <2>1. AnsweredExact /\ AnsweredExact'
    BY AnsweredIs, AnsweredIsNext
  <2>2. Owing \subseteq 1 .. nbRcvd /\ nbRcvd \in Nat
    BY <1>0, OwingReceived
  <2>3. 1 .. nbRcvd' = (1 .. nbRcvd) \cup {r} /\ r \notin 1 .. nbRcvd
        /\ 0 \notin 1 .. nbRcvd /\ r # 0
    BY <1>1, <2>2
  <2> HIDE DEF G
  <2> QED
    BY <1>1, <1>18, <2>1, <2>2, <2>3 DEF AnsweredExact
<1>20. nbRcvd < MaxRqst
  BY <1>0, <1>1, ConstantsAssumption DEF BooksInv, Inv, TypeOK, TypeSDI
<1>21. Service!Conflicts(Waiters, x) = Summary(DW)
  <2>1. ASSUME NEW a \in Waiters, a.type \in Incompatible[x] PROVE a \in Summary(DW)
    <3>1. PICK i \in W : a = [rqst |-> act[i].rqst, type |-> act[i].type]
      BY <2>1 DEF Waiters, Summary
    <3>2. i \in DW
      BY <1>3, <2>1, <3>1
    <3> QED BY <3>1, <3>2 DEF Summary
  <2>2. ASSUME NEW a \in Summary(DW) PROVE a \in Waiters /\ a.type \in Incompatible[x]
    BY <1>3, <2>2 DEF Waiters, Summary
  <2> QED
    BY <2>1, <2>2 DEF Service!Conflicts
<1>22. Summary(DR) \subseteq Service!Conflicts(Runners, x)
  BY <1>3 DEF Service!Conflicts, Runners, Summary
<1>23. Service!Rqsts(Summary(DW) \cup Summary(DR)) = G
  <2>1. Summary(DW) \cup Summary(DR) = Summary(D)
    BY <1>3 DEF Summary
  <2> QED BY <2>1, RqstsSummary
<1> HIDE DEF DW, DR, G
<1>24. PICK E \in SUBSET Runners : E = Summary(DR)
  BY <1>22 DEF Service!Conflicts
<1>25. Service!Admit(r, x, E)
  BY <1>1, <1>15, <1>16, <1>17, <1>19, <1>20, <1>21, <1>22, <1>23, <1>24
     DEF Service!Admit, Service!Receive, Waiters, Runners, Frozen, Answered, Closing
<1>26. r \in Service!RqstIds
  BY DEF RqstIds, Service!RqstIds
<1> QED
  BY <1>25, <1>26, ServiceAdmitStep

LEMMA ServiceLaunchStep ==
  ASSUME NEW S \in SUBSET Waiters, Service!Launch(S)
  PROVE  Service!Next
BY Zenon DEF Service!Next, Waiters

\* The activities that wait for none are launched.
LEMMA ServiceLaunch ==
  ASSUME RepliesInv, RepliesInv', SpawnActivities
  PROVE  Service!Next
<1> DEFINE over(j) == act[j].status \in {"ETHER", "ZOMBIE"}
           ready == {i \in Slots : Waiting(act[i]) /\ \A j \in act[i].incomp : over(j)}
           W == {i \in Live : Waiting(act[i])}
<1>0. BooksInv /\ BooksInv'
  BY DEF RepliesInv
<1>1. nbRcvd' = nbRcvd /\ endRqst' = endRqst /\ Closing' = Closing
  BY DEF SpawnActivities, endVars, Closing
<1>2. \A i \in Slots : /\ Carried(i)
                       /\ act'[i].status = act[i].status
                       /\ ~Waiting(act[i]) => act'[i] = act[i]
  BY <1>0, CarriedSpawn DEF BooksInv, Inv, TypeOK
<1>3. \A i \in Slots : act'[i].rqst = act[i].rqst /\ act'[i].type = act[i].type
  BY <1>2 DEF Carried
<1>4. Live' = Live /\ Zombie' = Zombie
  BY <1>2 DEF Live, Zombie
<1>5. ready \subseteq W
  BY DEF Waiting, Live
<1>6. ASSUME NEW i \in Slots PROVE Waiting(act'[i]) <=> Waiting(act[i]) /\ i \notin ready
  <2> DEFINE I == {j \in act[i].incomp : ~over(j)}
             e == IF i \in ready THEN "START" ELSE act[i].evn
  <2>0. act[i] \in Activity
    BY <1>0 DEF BooksInv, Inv, TypeOK, TypeSDI
  <2>1. CASE Waiting(act[i])
    <3>1. act'[i] = [act[i] EXCEPT !.evn = e, !.incomp = I]
      BY <2>1 DEF SpawnActivities
    <3>2. e = IF i \in ready THEN "START" ELSE "NO_EVENT"
      BY <2>1 DEF Waiting
    <3> HIDE DEF e, I, ready
    <3> QED
      BY <2>0, <2>1, <3>1, <3>2 DEF Waiting, Activity
  <2>2. CASE ~Waiting(act[i])
    BY <1>2, <2>2
  <2> QED BY <2>1, <2>2
<1>7. W' = W \ ready
  BY <1>4, <1>6 DEF Live
<1>8. Running' = Running \cup ready
  BY <1>4, <1>5, <1>6 DEF Running, Live, Zombie, Waiting
<1>9. W \in SUBSET Live /\ Running \in SUBSET Live /\ ready \in SUBSET Live
      /\ Live \in SUBSET Slots
  BY <1>5 DEF Running, Live
<1>10. Waiters' = Waiters \ Summary(ready)
  <2>1. \A i \in W \ ready : act'[i].rqst = act[i].rqst /\ act'[i].type = act[i].type
    BY <1>3, <1>9
  <2>2. {[rqst |-> act'[i].rqst, type |-> act'[i].type] : i \in W \ ready}
          = Summary(W) \ Summary(ready)
    <3> HIDE DEF ready
    <3> QED BY <1>0, <1>9, <2>1, SummaryLeft
  <2>3. Waiters' = {[rqst |-> act'[i].rqst, type |-> act'[i].type] : i \in W'}
    BY DEF Waiters, Summary
  <2> HIDE DEF ready
  <2> QED
    BY <1>7, <2>2, <2>3 DEF Waiters
<1>11. Runners' = Runners \cup Summary(ready)
  <2>1. Runners' = {[rqst |-> act'[i].rqst, type |-> act'[i].type] : i \in Running \cup ready}
    BY <1>8 DEF Runners, Summary
  <2>2. \A i \in Running \cup ready : act'[i].rqst = act[i].rqst /\ act'[i].type = act[i].type
    BY <1>3, <1>9
  <2> HIDE DEF ready
  <2> QED
    BY <2>1, <2>2 DEF Runners, Summary
<1>12. Frozen' = Frozen /\ Owing' = Owing
  <2>1. \A i \in Live : act'[i].rqst = act[i].rqst
    BY <1>3, <1>9
  <2> QED
    BY <1>4, <2>1, OwingReceived, <1>0 DEF Frozen, Owing
<1>13. Answered' = Answered
  <2>1. AnsweredExact /\ AnsweredExact'
    BY AnsweredIs, AnsweredIsNext
  <2> QED
    BY <1>1, <1>12, <2>1 DEF AnsweredExact
<1>14. ASSUME NEW a \in Summary(ready), NEW b \in Runners, b.rqst < a.rqst
       PROVE  b.type \notin Incompatible[a.type]
  <2>1. PICK i \in ready : a = [rqst |-> act[i].rqst, type |-> act[i].type]
    BY DEF Summary
  <2>2. PICK j \in Running : b = [rqst |-> act[j].rqst, type |-> act[j].type]
    BY DEF Runners, Summary
  <2>3. i \in Live \ Zombie /\ j \in Live \ Zombie
    BY <1>5, <2>1, <2>2 DEF Running, Waiting, Zombie
  <2>4. act[i].rqst \in Int /\ act[j].rqst \in Int /\ act[i].id \in Int /\ act[j].id \in Int
    BY <1>0, <2>3 DEF BooksInv, RqstsOrdered, IdsDistinct, Live
  <2>5. act[j].rqst < act[i].rqst
    BY <1>14, <2>1, <2>2
  <2>6. ~(act[i].id < act[j].id)
    BY <1>0, <2>3, <2>4, <2>5 DEF BooksInv, RqstsOrdered
  <2>7. act[i].id # act[j].id
    BY <1>0, <2>3, <2>4, <2>5 DEF BooksInv, IdsDistinct, Live
  <2>8. act[j].id < act[i].id
    BY <2>4, <2>6, <2>7
  <2>9. SUFFICES ASSUME act[j].type \in Incompatible[act[i].type] PROVE FALSE
    BY <2>1, <2>2
  <2>10. j \in act[i].incomp
    BY <1>0, <2>3, <2>8, <2>9 DEF BooksInv, Inv, NoIncompatibleRun
  <2> QED
    BY <2>1, <2>3, <2>10 DEF Live, Zombie
<1>15. Summary(ready) \subseteq Waiters
  BY <1>5 DEF Summary, Waiters
<1> HIDE DEF ready
<1>16. PICK S \in SUBSET Waiters : S = Summary(ready)
  BY <1>15
<1>17. Service!Launch(S)
  BY <1>1, <1>10, <1>11, <1>12, <1>13, <1>14, <1>16
     DEF Service!Launch, Waiters, Runners, Frozen, Answered, Closing
<1> QED
  BY <1>17, ServiceLaunchStep

LEMMA ServiceFinishStep ==
  ASSUME NEW E \in SUBSET Runners, NEW F \in SUBSET Runners, Service!Finish(E, F)
  PROVE  Service!Next
BY Zenon DEF Service!Next, Runners

\* The activities whose task asks for it end or freeze.
LEMMA ServiceFinish ==
  ASSUME RepliesInv, RepliesInv', CntrlIntEvnExec
  PROVE  Service!Next
<1> DEFINE over   == {i \in Slots : act[i].evn = "ETHER"}
           failed == {i \in Slots : act[i].evn = "ZOMBIE"}
           D == over \cup failed
           W == {i \in Live : Waiting(act[i])}
<1>0. BooksInv /\ BooksInv'
  BY DEF RepliesInv
<1>1. /\ nbRcvd' = nbRcvd /\ endRqst = 0 /\ endRqst' = 0 /\ Closing = 0 /\ Closing' = 0
  BY <1>0 DEF CntrlIntEvnExec, endVars, BooksInv, EndIsLast, Closing
<1>2. over \subseteq Running /\ failed \subseteq Running /\ over \cap failed = {}
  BY <1>0 DEF BooksInv, Inv, QuietSlots, Running, Live, Zombie, Waiting
<1>3. ASSUME NEW i \in Slots
      PROVE  /\ act'[i].status = IF i \in over THEN "ETHER" ELSE
                                 IF i \in failed THEN "ZOMBIE" ELSE act'[i].status
             /\ act'[i].rqst = act[i].rqst /\ act'[i].type = act[i].type
             /\ i \notin D => (act'[i].status = "ETHER" <=> act[i].status = "ETHER")
             /\ i \notin D => (act'[i].status = "ZOMBIE" <=> act[i].status = "ZOMBIE")
             /\ i \notin D => (Waiting(act'[i]) <=> Waiting(act[i]))
  <2>0. act[i] \in Activity
    BY <1>0 DEF BooksInv, Inv, TypeOK, TypeSDI
  <2>1. CASE act[i].evn = "ETHER"
    <3>1. act'[i] = Freed(act[i])
      BY <2>1 DEF CntrlIntEvnExec
    <3> QED
      BY <2>0, <2>1, <3>1 DEF Freed, Activity
  <2>2. CASE act[i].evn = "ZOMBIE"
    <3>1. act'[i] = [act[i] EXCEPT !.status = "ZOMBIE", !.evn = "NO_EVENT"]
      BY <2>2 DEF CntrlIntEvnExec
    <3> QED
      BY <2>0, <2>2, <3>1 DEF Activity
  <2>3. CASE act[i].evn = "SLEEP"
    <3>1. act'[i] = [act[i] EXCEPT !.status = "SLEEP", !.evn = "NO_EVENT"]
      BY <2>3 DEF CntrlIntEvnExec
    <3>2. act[i].status \notin {"ETHER", "ZOMBIE"}
      BY <1>0, <2>3 DEF BooksInv, Inv, QuietSlots
    <3> QED
      BY <2>0, <2>3, <3>1, <3>2 DEF Waiting, Activity
  <2>4. CASE act[i].evn \notin {"ETHER", "ZOMBIE", "SLEEP"}
    <3>1. act'[i] = act[i]
      BY <2>4 DEF CntrlIntEvnExec
    <3> QED BY <2>4, <3>1
  <2> QED BY <2>1, <2>2, <2>3, <2>4
<1>4. /\ over \in SUBSET Slots /\ failed \in SUBSET Slots /\ D = over \cup failed
      /\ Running \in SUBSET Live /\ W \in SUBSET Live /\ Live \in SUBSET Slots
      /\ Zombie \in SUBSET Live
  BY DEF Running, Live, Zombie
<1> HIDE DEF over, failed, D
<1>5. Live' = Live \ over
  BY <1>2, <1>3, <1>4 DEF Live
<1>6. Zombie' = Zombie \cup failed
  <2>1. Zombie \cap over = {}
    BY <1>2 DEF Running
  <2> QED BY <1>2, <1>3, <1>4, <2>1 DEF Zombie
<1>7. W' = W
  <2>1. \A i \in W : i \notin D
    BY <1>2, <1>4 DEF Running
  <2>2. \A i \in D : ~Waiting(act'[i])
    BY <1>3, <1>4 DEF Waiting
  <2> QED
    BY <1>3, <1>4, <1>5, <2>1, <2>2
<1>8. Running' = Running \ D
  <2>1. \A i \in Running : ~Waiting(act[i]) /\ i \notin Zombie /\ i \in Live
    BY DEF Running
  <2> QED
    BY <1>2, <1>3, <1>4, <1>5, <1>6 DEF Running
<1>9. \A i \in Live : act'[i].rqst = act[i].rqst /\ act'[i].type = act[i].type
  BY <1>3, <1>4
<1>10. Waiters' = Waiters
  <2>1. Waiters' = {[rqst |-> act'[i].rqst, type |-> act'[i].type] : i \in W}
    BY <1>7 DEF Waiters, Summary
  <2> QED
    BY <1>4, <1>9, <2>1 DEF Waiters, Summary
<1>11. Runners' = Runners \ Summary(D)
  <2>0. D \in SUBSET Live
    BY <1>2, <1>4
  <2>1. \A i \in Running \ D : act'[i].rqst = act[i].rqst /\ act'[i].type = act[i].type
    BY <1>4, <1>9
  <2>2. {[rqst |-> act'[i].rqst, type |-> act'[i].type] : i \in Running \ D}
          = Summary(Running) \ Summary(D)
    BY <1>0, <1>4, <2>0, <2>1, SummaryLeft
  <2>3. Runners' = {[rqst |-> act'[i].rqst, type |-> act'[i].type] : i \in Running'}
    BY DEF Runners, Summary
  <2> QED
    BY <1>8, <2>2, <2>3 DEF Runners
<1> DEFINE G == {act[i].rqst : i \in D}
           H == {act[i].rqst : i \in failed}
<1>12. Frozen' = Frozen \cup H
  <2>1. \A i \in Zombie \cup failed : act'[i].rqst = act[i].rqst
    BY <1>2, <1>4, <1>9
  <2>2. Frozen' = {act'[i].rqst : i \in Zombie \cup failed}
    BY <1>6 DEF Frozen
  <2> QED
    BY <2>1, <2>2 DEF Frozen
<1>13. Owing' = Owing \ G /\ G \subseteq Owing
  <2>0. D \in SUBSET Live /\ Live \ Zombie \in SUBSET Live /\ D \subseteq Live \ Zombie
    BY <1>2, <1>4 DEF Running
  <2>1. Live' \ Zombie' = (Live \ Zombie) \ D
    BY <1>4, <1>5, <1>6
  <2>2. \A i \in (Live \ Zombie) \ D : act'[i].rqst = act[i].rqst
    BY <1>9
  <2>3. {act'[i].rqst : i \in (Live \ Zombie) \ D}
          = {act[i].rqst : i \in Live \ Zombie} \ {act[i].rqst : i \in D}
    BY <1>0, <2>0, <2>2, OwingLeft
  <2> QED
    BY <2>0, <2>1, <2>3 DEF Owing
<1>14. Answered' = Answered \cup G
  <2>1. AnsweredExact /\ AnsweredExact'
    BY AnsweredIs, AnsweredIsNext
  <2>2. Owing \subseteq 1 .. nbRcvd
    BY <1>0, OwingReceived
  <2>3. 0 \notin 1 .. nbRcvd
    OBVIOUS
  <2> HIDE DEF G
  <2> QED
    BY <1>1, <1>13, <2>1, <2>2, <2>3 DEF AnsweredExact
<1>15. Summary(D) = Summary(over) \cup Summary(failed)
  BY <1>4 DEF Summary
<1>16. Service!Rqsts(Summary(over) \cup Summary(failed)) = G /\ Service!Rqsts(Summary(failed)) = H
  BY <1>15, RqstsSummary
<1>17. Summary(over) \subseteq Runners /\ Summary(failed) \subseteq Runners
  BY <1>2 DEF Summary, Runners
<1>18. Summary(over) \cap Summary(failed) = {}
  <2> SUFFICES ASSUME NEW i \in over, NEW j \in failed,
                      [rqst |-> act[i].rqst, type |-> act[i].type]
                        = [rqst |-> act[j].rqst, type |-> act[j].type]
               PROVE  FALSE
    BY DEF Summary
  <2>1. act[i].rqst = act[j].rqst
    OBVIOUS
  <2>2. i = j
    BY <1>0, <1>2, <1>4, <2>1, OneActivityPerRequest DEF BooksInv
  <2> QED BY <1>2, <2>2
<1> HIDE DEF G, H
<1>19. PICK E \in SUBSET Runners, F \in SUBSET Runners :
         E = Summary(over) /\ F = Summary(failed)
  BY <1>17
<1>20. Service!Finish(E, F)
  BY <1>1, <1>10, <1>11, <1>12, <1>14, <1>15, <1>16, <1>18, <1>19
     DEF Service!Finish, Waiters, Runners, Frozen, Answered, Closing
<1> QED
  BY <1>20, ServiceFinishStep

\* An End request is accepted by a module that has no activity.
LEMMA ServiceEnd ==
  ASSUME RepliesInv, RepliesInv', NEW r \in RqstIds, NEW n \in AbortArgs,
         RqstEndModule(n, r)
  PROVE  Service!Next
<1>0. BooksInv /\ BooksInv'
  BY DEF RepliesInv
<1>1. /\ r = nbRcvd + 1 /\ nbRcvd' = r /\ nbRcvd < nbSent /\ r # 0
      /\ Closing = 0 /\ Closing' = r /\ endRqst' = r /\ act' = act
  BY <1>0 DEF RqstEndModule, StopTasks, Serve, BooksInv, EndIsLast, Closing, RqstIds
<1>2. Live' = {} /\ Live = {}
  <2>1. Live' = {}
    BY <1>0, <1>1 DEF BooksInv, EndIsLast
  <2> QED
    BY <1>1, <2>1 DEF Live
<1>3. Zombie = {} /\ Zombie' = {} /\ Running = {} /\ Running' = {}
  <2>1. Zombie = {}
    BY <1>2 DEF Live, Zombie
  <2>2. Zombie' = {}
    BY <1>1, <2>1 DEF Zombie
  <2> QED
    BY <1>2, <2>1, <2>2 DEF Running
<1>4. /\ Waiters = {} /\ Waiters' = {} /\ Runners = {} /\ Runners' = {}
      /\ Frozen = {} /\ Frozen' = {} /\ Owing = {} /\ Owing' = {}
  BY <1>2, <1>3 DEF Waiters, Runners, Frozen, Owing, Summary
<1>5. Answered' = Answered
  <2>1. AnsweredExact /\ AnsweredExact'
    BY AnsweredIs, AnsweredIsNext
  <2>2. nbRcvd \in Nat
    BY <1>0, OwingReceived
  <2>3. 1 .. nbRcvd' = (1 .. nbRcvd) \cup {r} /\ r \notin 1 .. nbRcvd /\ 0 \notin 1 .. nbRcvd
    BY <1>1, <2>2
  <2> QED
    BY <1>1, <1>4, <2>1, <2>3 DEF AnsweredExact
<1>6. nbRcvd < MaxRqst
  BY <1>0, <1>1, ConstantsAssumption DEF BooksInv, Inv, TypeOK, TypeSDI
<1>7. Service!End(r)
  BY <1>1, <1>4, <1>5, <1>6
     DEF Service!End, Service!Receive, Waiters, Runners, Frozen, Answered, Closing
<1>8. r \in Service!RqstIds
  BY DEF RqstIds, Service!RqstIds
<1> QED
  BY <1>7, <1>8 DEF Service!Next

\* The steps that leave the requests of all activities where they are.
LEMMA ServiceSame ==
  ASSUME RepliesInv, replies' = replies, nbRcvd' = nbRcvd, Closing' = Closing,
         Live' = Live, Zombie' = Zombie,
         \A i \in Live : /\ act'[i].rqst = act[i].rqst /\ act'[i].type = act[i].type
                         /\ Waiting(act'[i]) <=> Waiting(act[i])
  PROVE  UNCHANGED Service!vars
<1> DEFINE W == {i \in Live : Waiting(act[i])}
<1>1. W' = W /\ Running' = Running /\ W \subseteq Live /\ Running \subseteq Live
      /\ Zombie \subseteq Live
  BY DEF Running, Live, Zombie
<1>2. Waiters' = Waiters
  <2>1. Waiters' = {[rqst |-> act'[i].rqst, type |-> act'[i].type] : i \in W}
    BY <1>1 DEF Waiters, Summary
  <2> QED
    BY <1>1, <2>1 DEF Waiters, Summary
<1>3. Runners' = Runners
  <2>1. Runners' = {[rqst |-> act'[i].rqst, type |-> act'[i].type] : i \in Running}
    BY <1>1 DEF Runners, Summary
  <2> QED
    BY <1>1, <2>1 DEF Runners, Summary
<1>4. Frozen' = Frozen
  BY <1>1 DEF Frozen
<1>5. Answered' = Answered
  BY DEF Answered, HasFinal
<1> QED
  BY <1>2, <1>3, <1>4, <1>5 DEF Service!vars, Waiters, Runners, Frozen, Answered, Closing

LEMMA ServiceExit ==
  ASSUME RepliesInv, RepliesInv', CntrlExit
  PROVE  Service!Next \/ UNCHANGED Service!vars
<1>0. BooksInv /\ BooksInv'
  BY DEF RepliesInv
<1>1. /\ nbRcvd' = nbRcvd /\ endRqst' = endRqst /\ act' = act
      /\ Closing = endRqst /\ Closing' = 0
      /\ replies' = Replied({[rqst |-> r, reply |-> "OK"] : r \in {endRqst} \ {0}})
  BY DEF CntrlExit, endVars, Closing
<1>2. Live' = Live /\ Zombie' = Zombie
  BY <1>1 DEF Live, Zombie
<1>3. CASE endRqst # 0
  <2>1. Live = {} /\ endRqst \in 1 .. nbRcvd
    BY <1>0, <1>3 DEF BooksInv, EndIsLast
  <2>2. Zombie = {} /\ Running = {} /\ Running' = {}
    BY <1>2, <2>1 DEF Live, Zombie, Running
  <2>3. /\ Waiters = {} /\ Waiters' = {} /\ Runners = {} /\ Runners' = {}
        /\ Frozen = {} /\ Frozen' = {} /\ Owing = {} /\ Owing' = {}
    BY <1>2, <2>1, <2>2 DEF Waiters, Runners, Frozen, Owing, Summary
  <2>4. Answered' = Answered \cup {endRqst}
    <3>1. AnsweredExact /\ AnsweredExact'
      BY AnsweredIs, AnsweredIsNext
    <3>2. 0 \notin 1 .. nbRcvd
      OBVIOUS
    <3> QED
      BY <1>1, <2>1, <2>3, <3>1, <3>2 DEF AnsweredExact
  <2>5. Service!Exit
    BY <1>1, <1>3, <2>3, <2>4
       DEF Service!Exit, Waiters, Runners, Frozen, Answered, Closing
  <2> QED
    BY <2>5 DEF Service!Next
<1>4. CASE endRqst = 0
  <2> DEFINE R == {[rqst |-> r, reply |-> "OK"] : r \in {endRqst} \ {0}}
  <2>1. \A r \in RqstIds, m \in R : m.rqst # r
    BY <1>4
  <2>2. \A r \in RqstIds : HasFinal(r)' <=> HasFinal(r)
    <3> HIDE DEF R
    <3>1. \A r \in RqstIds : replies'[r] = replies[r]
      BY <1>1, <2>1, NotRepliedTo DEF R
    <3> QED
      BY <3>1 DEF HasFinal
  <2>3. Answered' = Answered
    BY <2>2 DEF Answered
  <2>4. Waiters' = Waiters /\ Runners' = Runners /\ Frozen' = Frozen
    <3>1. Running' = Running
      BY <1>1, <1>2 DEF Running
    <3> QED
      BY <1>1, <1>2, <3>1 DEF Waiters, Runners, Frozen, Summary
  <2> QED
    BY <1>1, <1>4, <2>3, <2>4
       DEF Service!vars, Waiters, Runners, Frozen, Answered, Closing
<1> QED BY <1>3, <1>4

LEMMA ServiceElsewhere ==
  ASSUME RepliesInv, Elsewhere
  PROVE  UNCHANGED Service!vars
<1>1. \A i \in Slots :
        /\ act'[i].rqst = act[i].rqst /\ act'[i].type = act[i].type
        /\ Waiting(act'[i]) <=> Waiting(act[i])
        /\ act'[i].status = "ETHER" <=> act[i].status = "ETHER"
        /\ act'[i].status = "ZOMBIE" <=> act[i].status = "ZOMBIE"
  <2> SUFFICES ASSUME NEW i \in Slots
               PROVE  /\ act'[i].rqst = act[i].rqst /\ act'[i].type = act[i].type
                      /\ Waiting(act'[i]) <=> Waiting(act[i])
                      /\ act'[i].status = "ETHER" <=> act[i].status = "ETHER"
                      /\ act'[i].status = "ZOMBIE" <=> act[i].status = "ZOMBIE"
    OBVIOUS
  <2>1. /\ Carried(i)
        /\ \/ act'[i].status = act[i].status
           \/ act[i].status \notin {"ETHER", "ZOMBIE"} /\ act'[i].status \in CodelStates
        /\ Waiting(act[i]) => act'[i] = act[i]
    BY CarriedElsewhere DEF RepliesInv, BooksInv
  <2>2. Waiting(act'[i]) <=> Waiting(act[i])
    BY <2>1 DEF Carried
  <2> QED
    BY <2>1, <2>2 DEF Carried, CodelStates
<1>2. Live' = Live /\ Zombie' = Zombie
  BY <1>1 DEF Live, Zombie
<1>3. \A i \in Live : /\ act'[i].rqst = act[i].rqst /\ act'[i].type = act[i].type
                      /\ Waiting(act'[i]) <=> Waiting(act[i])
  BY <1>1 DEF Live
<1>4. replies' = replies /\ nbRcvd' = nbRcvd /\ Closing' = Closing
  BY DEF Elsewhere, Closing
<1> QED
  BY <1>2, <1>3, <1>4, ServiceSame

\* Every request handler is one step of the service.
LEMMA ServiceRqst ==
  ASSUME RepliesInv, RepliesInv', CntrlRqst
  PROVE  Service!Next
<1>0. BooksInv /\ BooksInv'
  BY DEF RepliesInv
<1>1. PICK r \in RqstIds :
        /\ Serve(r)
        /\ \/ \E S \in SUBSET Slots, b \in Finals : AbortAndAnswer(S, r, b)
           \/ \E b \in Finals : Answer(r, b)
           \/ \E x \in ExecRqsts, s \in Slots : RqstExec(x, r, s)
           \/ \E x \in ExecRqsts, s \in Slots : RqstExecCodelError(x, r, s)
           \/ \E n \in AbortArgs : RqstResume(n, r)
           \/ \E n \in AbortArgs : RqstEndModule(n, r)
  BY <1>0, RqstCases DEF BooksInv, Inv
<1>2. endRqst = 0
  BY <1>0, <1>1 DEF Serve, BooksInv, EndIsLast
<1>3. ASSUME endRqst' = endRqst, NEW D \in SUBSET (Live \ Zombie), NEW Z \in SUBSET Zombie,
             \A i \in Slots : /\ i \in Live' <=> i \in Live \ (D \cup Z)
                              /\ i \in Live' => act'[i].status = act[i].status
                              /\ i \in Live' => act'[i].rqst = act[i].rqst
                              /\ i \in Live' => act'[i].type = act[i].type
                              /\ i \in Live' => (Waiting(act'[i]) <=> Waiting(act[i]))
      PROVE  Service!Next
  BY <1>1, <1>2, <1>3, ServiceReply
<1>4. ASSUME NEW S \in SUBSET Slots, NEW b \in Finals, AbortAndAnswer(S, r, b)
      PROVE  Service!Next
  <2>1. endRqst' = endRqst /\ act' = AbortTable(S)
    BY <1>4 DEF AbortAndAnswer, kept, endVars
  <2>2. \A i \in Slots : /\ i \in Live' <=> i \in Live \ Ended(S)
                         /\ i \in Live' => act'[i].status = act[i].status
                         /\ act'[i].rqst = act[i].rqst /\ act'[i].type = act[i].type
                         /\ i \notin Ended(S) => (Waiting(act'[i]) <=> Waiting(act[i]))
    BY <1>0, <2>1, AbortLeaves
  <2>3. PICK D \in SUBSET (Live \ Zombie), Z \in SUBSET Zombie :
          D = Ended(S) \ Zombie /\ Z = Ended(S) \cap Zombie
    BY DEF Ended, AbortEnds, CodelStates, Live
  <2>4. D \cup Z = Ended(S)
    BY <2>3
  <2> QED
    BY <1>3, <2>1, <2>2, <2>4
<1>5. ASSUME endRqst' = endRqst,
             \A i \in Slots :
               act'[i] = act[i] \/ (act[i].status = "ETHER" /\ act'[i].status = "ETHER")
      PROVE  Service!Next
  <2>1. PICK D \in SUBSET (Live \ Zombie), Z \in SUBSET Zombie : D = {} /\ Z = {}
    OBVIOUS
  <2> QED
    BY <1>3, <1>5, <2>1 DEF Live
<1>6. ASSUME NEW b \in Finals, Answer(r, b) PROVE Service!Next
  BY <1>5, <1>6 DEF Answer, kept, endVars
<1>7. ASSUME NEW x \in ExecRqsts, NEW s \in Slots, RqstExec(x, r, s)
      PROVE  Service!Next
  BY <1>7, ServiceAdmit
<1>8. ASSUME NEW x \in ExecRqsts, NEW s \in Slots, RqstExecCodelError(x, r, s)
      PROVE  Service!Next
  <2> DEFINE new == Freed(NewActivity(x, r, {}))
  <2>1. act' = [act EXCEPT ![s] = new] /\ act[s].status = "ETHER" /\ endRqst' = endRqst
    BY <1>8 DEF RqstExecCodelError, FirstFree, Live, kept, endVars
  <2>2. new.status = "ETHER"
    BY DEF Freed, NewActivity
  <2> HIDE DEF new
  <2>3. \A i \in Slots :
          act'[i] = act[i] \/ (act[i].status = "ETHER" /\ act'[i].status = "ETHER")
    BY <1>0, <2>1, <2>2 DEF BooksInv, Inv, TypeOK, TypeSDI
  <2> QED
    BY <1>5, <2>1, <2>3
<1>9. ASSUME NEW n \in AbortArgs, RqstResume(n, r) PROVE Service!Next
  BY <1>5, <1>9 DEF RqstResume, kept, endVars
<1>10. ASSUME NEW n \in AbortArgs, RqstEndModule(n, r) PROVE Service!Next
  BY <1>10, ServiceEnd
<1> HIDE DEF Service!Next
<1> QED
  BY <1>1, <1>4, <1>6, <1>7, <1>8, <1>9, <1>10

\* csServReplySend, csServRqstExec: whatever the tasks do, what the clients see
\* is an ActivityService: each step of the module admits, answers, launches or
\* ends activities as a step of the service does, or shows nothing to them.
THEOREM ServiceImplemented == Spec => ImplementsService
<1>1. Init => Service!Init
  <2> SUFFICES ASSUME Init PROVE Service!Init
    OBVIOUS
  <2>1. Live = {} /\ Zombie = {} /\ Running = {}
    BY DEF Init, InitSDI, Live, Zombie, Running
  <2>2. Waiters = {} /\ Runners = {} /\ Frozen = {}
    BY <2>1 DEF Waiters, Runners, Frozen, Summary
  <2>3. Answered = {}
    BY DEF Answered, HasFinal, Init, InitSDI
  <2>4. Closing = 0 /\ nbRcvd = 0
    BY DEF Closing, Init, InitSDI, InitCntrl
  <2> QED
    BY <2>2, <2>3, <2>4 DEF Service!Init, Waiters, Runners, Frozen, Answered, Closing
<1>2. RepliesInv /\ RepliesInv' /\ [Next]_vars => [Service!Next]_(Service!vars)
  <2> SUFFICES ASSUME RepliesInv, RepliesInv', [Next]_vars
               PROVE  Service!Next \/ UNCHANGED Service!vars
    OBVIOUS
  <2>1. CASE CntrlRqst
    BY <2>1, ServiceRqst
  <2>2. CASE CntrlIntEvnExec
    BY <2>2, ServiceFinish
  <2>3. CASE SpawnActivities
    BY <2>3, ServiceLaunch
  <2>4. CASE CntrlExit
    BY <2>4, ServiceExit
  <2>5. CASE Elsewhere
    BY <2>5, ServiceElsewhere
  <2> QED
    BY <2>1, <2>2, <2>3, <2>4, <2>5, NextCases DEF RepliesInv, BooksInv
<1> QED
  BY <1>1, <1>2, RepliesInvariant, PTL DEF Spec, ImplementsService, Service!Spec

-----------------------------------------------------------------------------
(* The lock of the SDIs, the transitions and the wake-ups *)

NoResume == GENOM_RESUME_EXEC_TASK \notin AbortArgs

-----------------------------------------------------------------------------
(* Mutual exclusion *)

\* One task at most is inside, the lock is taken just when one is, and the
\* tasks a permanent codel stopped do not go on.
LockInv ==
  ~stopModule =>
    /\ sdiFree <=> Inside = {}
    /\ \A p \in Inside, q \in Inside : p = q
    /\ \A t \in Tasks : exec[t].pc \in {"begin", "end"} => t \in suspending \cup suspended

\* The tasks stopped by a failed permanent codel, seen by the next state.
StoppedStay ==
  \A t \in Tasks : exec'[t].pc \in {"begin", "end"} => t \in suspending' \cup suspended'

LEMMA LockStays ==
  ASSUME LockInv, stopModule' \/ ~stopModule, Inside' = Inside, sdiFree' = sdiFree, StoppedStay
  PROVE  LockInv'
BY DEF LockInv, StoppedStay

LEMMA LockEntered ==
  ASSUME LockInv, stopModule' \/ ~stopModule, NEW p, sdiFree, sdiFree' = FALSE,
         Inside' = Inside \cup {p}, StoppedStay
  PROVE  LockInv'
BY DEF LockInv, StoppedStay

LEMMA LockLeft ==
  ASSUME LockInv, stopModule' \/ ~stopModule, NEW p \in Inside, sdiFree' = TRUE,
         Inside' = Inside \ {p}, StoppedStay
  PROVE  LockInv'
BY DEF LockInv, StoppedStay

\* Where one execution task goes, the others staying where they are.
LEMMA InsideMoves ==
  ASSUME TypeOK, NEW t \in Tasks,
         cntrlPc' = cntrlPc,
         \A p \in Tasks \ {t} : /\ exec'[p].pc = exec[p].pc
                                /\ p \in suspending' \cup suspended'
                                     <=> p \in suspending \cup suspended
  PROVE  /\ t \in Inside' => Inside' = Inside \cup {t}
         /\ t \notin Inside' => Inside' = Inside \ {t}
         /\ t \in Inside <=> /\ exec[t].pc \in {"loop", "codel", "relock", "end"}
                             /\ t \notin suspending \cup suspended
         /\ t \in Inside' <=> /\ exec'[t].pc \in {"loop", "codel", "relock", "end"}
                              /\ t \notin suspending' \cup suspended'
         /\ StoppedStay <=>
              /\ \A p \in Tasks \ {t} :
                   exec[p].pc \in {"begin", "end"} => p \in suspending \cup suspended
              /\ exec'[t].pc \in {"begin", "end"} => t \in suspending' \cup suspended'
<1>1. t # Cntrl
  BY ConstantsAssumption
<1>2. \A p : p # t => (p \in Inside' <=> p \in Inside)
  BY DEF Inside
<1>3. t \in Inside <=> /\ exec[t].pc \in {"loop", "codel", "relock", "end"}
                       /\ t \notin suspending \cup suspended
  BY <1>1 DEF Inside
<1>4. t \in Inside' <=> /\ exec'[t].pc \in {"loop", "codel", "relock", "end"}
                        /\ t \notin suspending' \cup suspended'
  BY <1>1 DEF Inside
<1>5. t \in Inside' => Inside' = Inside \cup {t}
  BY <1>2
<1>6. t \notin Inside' => Inside' = Inside \ {t}
  BY <1>2
<1>7. StoppedStay <=>
        /\ \A p \in Tasks \ {t} :
             exec[p].pc \in {"begin", "end"} => p \in suspending \cup suspended
        /\ exec'[t].pc \in {"begin", "end"} => t \in suspending' \cup suspended'
  BY DEF StoppedStay
<1> QED
  BY <1>3, <1>4, <1>5, <1>6, <1>7

\* A step of execution task t, by where it is before and after, and what it
\* does of the lock.
LEMMA ExecLock ==
  ASSUME TypeOK, LockInv, NEW t \in Tasks, stopModule' = stopModule, cntrlPc' = cntrlPc,
         \A p \in Tasks \ {t} : /\ exec'[p].pc = exec[p].pc
                                /\ p \in suspending' \cup suspended'
                                     <=> p \in suspending \cup suspended,
         exec'[t].pc \in {"begin", "end"} => t \in suspending' \cup suspended',
         \/ sdiFree' = sdiFree /\ (t \in Inside' <=> t \in Inside)
         \/ sdiFree /\ sdiFree' = FALSE /\ t \in Inside'
         \/ t \in Inside /\ sdiFree' = TRUE /\ t \notin Inside'
         \/ sdiFree /\ sdiFree' = TRUE /\ t \notin Inside'
  PROVE  LockInv'
<1>1. CASE stopModule
  BY <1>1 DEF LockInv
<1>2. CASE ~stopModule
  <2>1. StoppedStay
    BY <1>2, InsideMoves DEF LockInv
  <2>2. ASSUME sdiFree' = sdiFree, t \in Inside' <=> t \in Inside PROVE LockInv'
    <3>1. t \in Inside' => Inside' = Inside \cup {t}
      BY InsideMoves
    <3>2. t \notin Inside' => Inside' = Inside \ {t}
      BY InsideMoves
    <3>3. Inside' = Inside
      BY <2>2, <3>1, <3>2
    <3> QED BY <1>2, <2>1, <2>2, <3>3, LockStays
  <2>3. ASSUME sdiFree, sdiFree' = FALSE, t \in Inside' PROVE LockInv'
    <3>1. Inside' = Inside \cup {t}
      BY <2>3, InsideMoves
    <3> QED BY <1>2, <2>1, <2>3, <3>1, LockEntered
  <2>4. ASSUME t \in Inside, sdiFree' = TRUE, t \notin Inside' PROVE LockInv'
    <3>1. Inside' = Inside \ {t}
      BY <2>4, InsideMoves
    <3> QED BY <1>2, <2>1, <2>4, <3>1, LockLeft
  <2>5. ASSUME sdiFree, sdiFree' = TRUE, t \notin Inside' PROVE LockInv'
    <3>1. Inside = {}
      BY <1>2, <2>5 DEF LockInv
    <3>2. Inside' = Inside
      BY <2>5, <3>1, InsideMoves
    <3> QED BY <1>2, <2>1, <2>5, <3>2, LockStays
  <2> QED BY <2>2, <2>3, <2>4, <2>5
<1> QED BY <1>1, <1>2

LEMMA ExecKeepsLock ==
  ASSUME TypeOK, LockInv, NEW t \in Tasks, ExecStep(t), UNCHANGED cntrlVars
  PROVE  LockInv'
<1> USE DEF cntrlVars, halts
<1>0. /\ exec \in [Tasks -> ExecRecords] /\ cntrlPc' = cntrlPc /\ t # Cntrl
      /\ suspending \subseteq Tasks /\ suspended \subseteq Tasks
  BY ConstantsAssumption DEF TypeOK, TypeExec, ExecRecords, TypeSDI
<1>1. t \in Inside <=> /\ exec[t].pc \in {"loop", "codel", "relock", "end"}
                       /\ t \notin suspending \cup suspended
  BY <1>0 DEF Inside
<1>2. ASSUME cntrlPc' = cntrlPc
      PROVE  t \in Inside' <=> /\ exec'[t].pc \in {"loop", "codel", "relock", "end"}
                               /\ t \notin suspending' \cup suspended'
  BY <1>0 DEF Inside
<1>3. ASSUME NEW pc, Goto(t, pc)
      PROVE  /\ exec'[t].pc = pc
             /\ \A p \in Tasks \ {t} : exec'[p].pc = exec[p].pc
  BY <1>0, <1>3 DEF Goto, ExecRecords
<1>4. ASSUME ExecSuspend(t) PROVE LockInv'
  <2>1. /\ suspending' \cup suspended' = suspending \cup suspended /\ exec' = exec
        /\ sdiFree' = sdiFree /\ stopModule' = stopModule
    BY <1>4 DEF ExecSuspend
  <2>2. Inside' = Inside /\ (LockInv /\ ~stopModule => StoppedStay)
    BY <1>0, <2>1 DEF Inside, LockInv, StoppedStay
  <2> QED
    BY <2>1, <2>2, LockStays DEF LockInv
<1>5. ASSUME ExecWakeUp(t) PROVE LockInv'
  <2>1. exec'[t].pc = "take" /\ \A p \in Tasks \ {t} : exec'[p].pc = exec[p].pc
    BY <1>3, <1>5 DEF ExecWakeUp
  <2> QED
    BY <1>0, <1>1, <1>2, <1>5, <2>1, ExecLock DEF ExecWakeUp, At
<1>6. ASSUME ExecStop(t) PROVE LockInv'
  BY <1>6 DEF ExecStop, LockInv
<1>7. ASSUME NEW rec, exec' = [exec EXCEPT ![t] = rec]
      PROVE  exec'[t] = rec /\ \A p \in Tasks \ {t} : exec'[p].pc = exec[p].pc
  BY <1>0, <1>7
<1>8. ASSUME ExecTake(t) PROVE LockInv'
  <2> DEFINE rec == [Idle EXCEPT !.pc = "loop", !.nbActi = taskNbActi[t]]
  <2>1. rec.pc = "loop"
    BY DEF Idle
  <2>2. exec' = [exec EXCEPT ![t] = rec]
    BY <1>8 DEF ExecTake
  <2> HIDE DEF rec
  <2>3. exec'[t] = rec /\ \A p \in Tasks \ {t} : exec'[p].pc = exec[p].pc
    BY <1>0, <2>2
  <2> QED
    BY <1>0, <1>1, <1>2, <1>8, <2>1, <2>3, ExecLock DEF ExecTake, At, TakeSDIs
<1>9. ASSUME ExecTakeError(t) PROVE LockInv'
  <2>1. exec'[t].pc = "begin" /\ \A p \in Tasks \ {t} : exec'[p].pc = exec[p].pc
    BY <1>3, <1>9 DEF ExecTakeError
  <2> QED
    BY <1>0, <1>1, <1>2, <1>9, <2>1, ExecLock DEF ExecTakeError, At, Suspend, GiveSDIs
<1>10. ASSUME ExecBegin(t) PROVE LockInv'
  BY <1>10 DEF ExecBegin, At, LockInv, sdiVars
<1>11. ASSUME NEW i \in Slots, ExecSkip(t, i) PROVE LockInv'
  <2>1. \A p \in Tasks : exec'[p].pc = exec[p].pc
    BY <1>0, <1>11 DEF ExecSkip, ExecRecords
  <2> QED
    BY <1>0, <1>1, <1>2, <1>11, <2>1, ExecLock DEF ExecSkip, At, sdiVars
<1>12. ASSUME NEW i \in Slots, ExecCallUserFunc(t, i) PROVE LockInv'
  <2>1. exec'[t].pc = "codel" /\ \A p \in Tasks \ {t} : exec'[p].pc = exec[p].pc
    BY <1>0, <1>12 DEF ExecCallUserFunc, ExecRecords
  <2> QED
    BY <1>0, <1>1, <1>2, <1>12, <2>1, ExecLock DEF ExecCallUserFunc, At
<1>13. ASSUME GenomGiveSDIs(t) PROVE LockInv'
  <2>1. exec'[t].pc = "unlocked" /\ \A p \in Tasks \ {t} : exec'[p].pc = exec[p].pc
    BY <1>3, <1>13 DEF GenomGiveSDIs
  <2> QED
    BY <1>0, <1>1, <1>2, <1>13, <2>1, ExecLock DEF GenomGiveSDIs, At, GiveSDIs
<1>14. ASSUME GenomTakeSDIs(t) PROVE LockInv'
  <2>1. exec'[t].pc = "relock" /\ \A p \in Tasks \ {t} : exec'[p].pc = exec[p].pc
    BY <1>3, <1>14 DEF GenomTakeSDIs
  <2> QED
    BY <1>0, <1>1, <1>2, <1>14, <2>1, ExecLock DEF GenomTakeSDIs, At, TakeSDIs
<1>15. ASSUME NEW e \in Events, NEW b \in CodelBilans, NEW W \in CodelWakeUps,
              ExecCodelReturn(t, e, b, W)
       PROVE  LockInv'
  <2>1. exec'[t].pc = "loop" /\ \A p \in Tasks \ {t} : exec'[p].pc = exec[p].pc
    BY <1>0, <1>15 DEF ExecCodelReturn, ExecRecords
  <2> QED
    BY <1>0, <1>1, <1>2, <1>15, <2>1, ExecLock DEF ExecCodelReturn, At
<1>16. ASSUME NEW e \in Events, NEW b \in CodelBilans, ExecForbidden(t, e, b)
       PROVE  LockInv'
  <2>1. exec'[t].pc = "loop" /\ \A p \in Tasks \ {t} : exec'[p].pc = exec[p].pc
    BY <1>0, <1>16 DEF ExecForbidden, ExecRecords
  <2> QED
    BY <1>0, <1>1, <1>2, <1>16, <2>1, ExecLock
       DEF ExecForbidden, At, Suspend, GiveSDIs
<1>17. ASSUME NEW newBilan \in BOOLEAN, ExecEnd(t, newBilan) PROVE LockInv'
  <2>1. exec'[t].pc = "wait" /\ \A p \in Tasks \ {t} : exec'[p].pc = exec[p].pc
    BY <1>0, <1>17 DEF ExecEnd, Idle
  <2> QED
    BY <1>0, <1>1, <1>2, <1>17, <2>1, ExecLock DEF ExecEnd, At, GiveSDIs
<1>18. ASSUME ExecEndError(t) PROVE LockInv'
  <2>1. exec'[t].pc = "end" /\ \A p \in Tasks \ {t} : exec'[p].pc = exec[p].pc
    BY <1>3, <1>18 DEF ExecEndError
  <2> QED
    BY <1>0, <1>1, <1>2, <1>18, <2>1, ExecLock DEF ExecEndError, At, Suspend, GiveSDIs
<1> QED
  BY <1>4, <1>5, <1>6, <1>8, <1>9, <1>10, <1>11, <1>12, <1>13, <1>14, <1>15, <1>16,
     <1>17, <1>18 DEF ExecStep, ExecWait, ExecEnter, ExecRun

\* What the control task does of the lock: it is inside from CntrlIntEvnExec to
\* SpawnActivities, and the requests it serves in between leave the lock alone.
LEMMA CntrlKeepsLock ==
  ASSUME Inv, NoResume, LockInv, CntrlStep, UNCHANGED exec
  PROVE  LockInv'
<1> USE DEF halts, sdiVars, aside
<1>0. Cntrl \notin Tasks
  BY ConstantsAssumption
<1> DEFINE Ran == {t \in Tasks : /\ exec[t].pc \in {"loop", "codel", "relock", "end"}
                                 /\ t \notin suspending \cup suspended}
<1>1. Inside = Ran \cup (IF cntrlPc \in {"ext", "rqst"} THEN {Cntrl} ELSE {}) /\ Cntrl \notin Ran
  BY <1>0 DEF Inside
<1>2. ASSUME suspending' = suspending, suspended' = suspended
      PROVE  /\ Inside' = Ran \cup (IF cntrlPc' \in {"ext", "rqst"} THEN {Cntrl} ELSE {})
             /\ LockInv /\ ~stopModule => StoppedStay
  <2>1. Inside' = Ran \cup (IF cntrlPc' \in {"ext", "rqst"} THEN {Cntrl} ELSE {})
    BY <1>2 DEF Inside
  <2>2. LockInv /\ ~stopModule => StoppedStay
    BY <1>2 DEF LockInv, StoppedStay
  <2> QED BY <2>1, <2>2
<1> HIDE DEF Ran
<1>3. ASSUME suspending' = suspending, suspended' = suspended, sdiFree' = sdiFree,
             stopModule' = stopModule,
             cntrlPc \in {"ext", "rqst"} <=> cntrlPc' \in {"ext", "rqst"}
      PROVE  LockInv'
  BY <1>1, <1>2, <1>3, LockStays DEF LockInv
<1>4. ASSUME stopModule' PROVE LockInv'
  BY <1>4 DEF LockInv
<1>5. ASSUME CntrlRqst PROVE LockInv'
  <2>1. PICK r \in RqstIds :
          /\ Serve(r)
          /\ \/ \E S \in SUBSET Slots, b \in Finals : AbortAndAnswer(S, r, b)
             \/ \E b \in Finals : Answer(r, b)
             \/ \E x \in ExecRqsts, s \in Slots : RqstExec(x, r, s)
             \/ \E x \in ExecRqsts, s \in Slots : RqstExecCodelError(x, r, s)
             \/ \E n \in AbortArgs : RqstResume(n, r)
             \/ \E n \in AbortArgs : RqstEndModule(n, r)
    BY <1>5, RqstCases DEF Inv
  <2>2. cntrlPc \in {"ext", "rqst"}
    BY <2>1 DEF Serve
  <2>3. ASSUME NEW S \in SUBSET Slots, NEW b \in Finals, AbortAndAnswer(S, r, b) PROVE LockInv'
    BY <1>3, <2>2, <2>3 DEF AbortAndAnswer
  <2>4. ASSUME NEW b \in Finals, Answer(r, b) PROVE LockInv'
    BY <1>3, <2>2, <2>4 DEF Answer
  <2>5. ASSUME NEW x \in ExecRqsts, NEW s \in Slots, RqstExec(x, r, s) PROVE LockInv'
    BY <1>3, <2>2, <2>5 DEF RqstExec
  <2>6. ASSUME NEW x \in ExecRqsts, NEW s \in Slots, RqstExecCodelError(x, r, s) PROVE LockInv'
    BY <1>3, <2>2, <2>6 DEF RqstExecCodelError
  <2>7. ASSUME NEW n \in AbortArgs, RqstResume(n, r) PROVE LockInv'
    BY <2>7 DEF RqstResume, NoResume
  <2>8. ASSUME NEW n \in AbortArgs, RqstEndModule(n, r) PROVE LockInv'
    BY <1>4, <2>8 DEF RqstEndModule, StopTasks
  <2> QED
    BY <2>1, <2>3, <2>4, <2>5, <2>6, <2>7, <2>8
<1>6. ASSUME CntrlWakeUp PROVE LockInv'
  BY <1>3, <1>6 DEF CntrlWakeUp
<1>7. ASSUME CntrlIntEvnExec PROVE LockInv'
  <2>1. /\ sdiFree /\ sdiFree' = FALSE /\ stopModule' = stopModule
        /\ suspending' = suspending /\ suspended' = suspended
        /\ cntrlPc = "take" /\ cntrlPc' = "ext"
    BY <1>7 DEF CntrlIntEvnExec, TakeSDIs
  <2>2. Inside' = Inside \cup {Cntrl}
    BY <1>1, <1>2, <2>1
  <2> QED
    BY <1>2, <2>1, <2>2, LockEntered DEF LockInv
<1>8. ASSUME SpawnActivities PROVE LockInv'
  <2>1. /\ sdiFree' = TRUE /\ stopModule' = stopModule
        /\ suspending' = suspending /\ suspended' = suspended
        /\ cntrlPc \in {"ext", "rqst"} /\ cntrlPc' = "susp"
    BY <1>8 DEF SpawnActivities, GiveSDIs
  <2>2. Inside' = Inside \ {Cntrl} /\ Cntrl \in Inside
    BY <1>1, <1>2, <2>1
  <2> QED
    BY <1>2, <2>1, <2>2, LockLeft DEF LockInv
<1>9. ASSUME SignalEnd PROVE LockInv'
  BY <1>4, <1>9 DEF SignalEnd, StopTasks
<1>10. ASSUME NEW t \in Tasks, CntrlWaitEnd(t) PROVE LockInv'
  BY <1>3, <1>10 DEF CntrlWaitEnd
<1>11. ASSUME CntrlWakeUpEnd PROVE LockInv'
  BY <1>3, <1>11 DEF CntrlWakeUpEnd
<1>12. ASSUME CntrlExit PROVE LockInv'
  BY <1>3, <1>12 DEF CntrlExit
<1> QED
  BY <1>5, <1>6, <1>7, <1>8, <1>9, <1>10, <1>11, <1>12 DEF CntrlStep

LEMMA NextKeepsLock ==
  ASSUME Inv, NoResume, LockInv, [Next]_vars
  PROVE  LockInv'
<1> USE DEF halts, sdiVars
<1>1. ASSUME cntrlPc' = cntrlPc, exec' = exec, suspending' = suspending,
             suspended' = suspended, sdiFree' = sdiFree, stopModule' = stopModule
      PROVE  LockInv'
  <2>1. Inside' = Inside /\ (~stopModule => StoppedStay)
    BY <1>1 DEF Inside, LockInv, StoppedStay
  <2> QED
    BY <1>1, <2>1, LockStays DEF LockInv
<1>2. ASSUME NEW t \in Tasks, ExecStep(t), UNCHANGED cntrlVars PROVE LockInv'
  BY <1>2, ExecKeepsLock DEF Inv
<1>3. ASSUME CntrlStep, UNCHANGED exec PROVE LockInv'
  BY <1>3, CntrlKeepsLock
<1>4. ASSUME ClientSend PROVE LockInv'
  BY <1>1, <1>4 DEF ClientSend, cntrlVars
<1>5. ASSUME NEW t \in Tasks, ExternalEvent(t) PROVE LockInv'
  BY <1>1, <1>5 DEF ExternalEvent, cntrlVars
<1>6. ASSUME SignalHandler, UNCHANGED exec PROVE LockInv'
  BY <1>1, <1>6 DEF SignalHandler
<1>7. ASSUME UNCHANGED vars PROVE LockInv'
  BY <1>1, <1>7 DEF vars, cntrlVars
<1> QED
  BY <1>2, <1>3, <1>4, <1>5, <1>6, <1>7 DEF Next, Module

LEMMA InitLock == Init => LockInv
<1> SUFFICES ASSUME Init PROVE LockInv
  OBVIOUS
<1>1. \A t \in Tasks : exec[t].pc = "wait"
  BY DEF Init, InitExec, Idle
<1>2. cntrlPc = "susp" /\ sdiFree = TRUE
  BY DEF Init, InitCntrl, InitSDI
<1>3. Inside = {}
  BY <1>1, <1>2 DEF Inside
<1> QED
  BY <1>1, <1>2, <1>3 DEF LockInv

\* The lock of the SDIs follows the tasks inside, and no task is inside while one
\* that holds nothing believes it is.
THEOREM LockInvariant == NoResume => (Spec => [](Inv /\ LockInv))
<1> SUFFICES ASSUME NoResume PROVE Spec => [](Inv /\ LockInv)
  OBVIOUS
<1>1. Init => Inv /\ LockInv
  BY InitInv, InitLock
<1>2. Inv /\ LockInv /\ [Next]_vars => Inv' /\ LockInv'
  BY NextKeeps, NextKeepsLock
<1> QED
  BY <1>1, <1>2, PTL DEF Spec

\* commonStructTake and commonStructGive: as long as no client resumes suspended
\* tasks and the module is not stopped, one task at most works on the table, and
\* it holds the SDIs, whatever the codels unlock, forbid or fail.
THEOREM MutualExclusionHolds == NoResume => (Spec => []MutualExclusion)
<1> SUFFICES ASSUME NoResume PROVE Spec => []MutualExclusion
  OBVIOUS
<1>1. LockInv => MutualExclusion
  <2> SUFFICES ASSUME LockInv, ~stopModule
               PROVE  Cardinality(Inside) <= 1 /\ (sdiFree <=> Inside = {})
    BY DEF MutualExclusion
  <2>1. CASE Inside = {}
    BY <2>1, FS_EmptySet DEF LockInv
  <2>2. CASE Inside # {}
    <3>1. PICK p \in Inside : TRUE
      BY <2>2
    <3>2. Inside = {p}
      BY <3>1 DEF LockInv
    <3>3. Cardinality(Inside) = 1
      BY <3>2, FS_Singleton
    <3> QED
      BY <3>3 DEF LockInv
  <2> QED BY <2>1, <2>2
<1> QED
  BY <1>1, LockInvariant, PTL

-----------------------------------------------------------------------------
(* The transitions of the activities *)

\* The codels answer events of the table of filterAndSendEvn, or, but in FAIL,
\* none at all.
CodelsObey ==
  \A x \in ExecRqsts, s \in CodelStates :
    CodelResults[x][s] \subseteq
      Allowed[s] \cup (IF s = "FAIL" THEN {} ELSE {"NO_EVENT"})

\* The events that may be on an activity in each state.
EventLegal(a) ==
  /\ a.status \in {"ETHER", "ZOMBIE"} => a.evn = "NO_EVENT"
  /\ a.status = "INIT"  => a.evn \in {"NO_EVENT", "START"}
  /\ a.status = "SLEEP" => a.evn \in {"NO_EVENT", "INTER"}
  /\ a.status = "START" => a.evn \in Allowed["START"] \cup {"INTER", "NO_EVENT"}
  /\ a.status = "EXEC"  => a.evn \in Allowed["EXEC"] \cup {"INTER", "NO_EVENT"}
  /\ a.status = "END"   => a.evn \in Allowed["END"] \cup {"INTER", "NO_EVENT"}
  /\ a.status = "FAIL"  => a.evn \in {"FAIL", "ZOMBIE"}
  /\ a.status = "INTER" => a.evn \in Allowed["INTER"] \cup {"NO_EVENT"}

EventsLegal == \A i \in Slots : EventLegal(act[i])

\* The control task has processed every event it has to before it serves the
\* requests, and no execution task leaves one meanwhile.
NonePending ==
  cntrlPc \in {"ext", "rqst"} =>
    \A i \in Slots : act[i].evn \notin {"ETHER", "ZOMBIE", "SLEEP"}

StopEnds == stopModule => cntrlPc \in {"ending", "endsusp", "exited"}

LiveTyped == \A i \in Live : act[i].type \in ExecRqsts

TransInv == EventsLegal /\ NonePending /\ StopEnds /\ LiveTyped

\* One slot goes along the table.
Moves(i) == \/ act'[i].status \in {act[i].status, "ETHER"}
            \/ act'[i].status \in NextStates[act[i].status]

LEMMA CalledLegal ==
  ASSUME TypeSDI, EventsLegal, NEW j \in Slots, Called(j), NEW i \in Slots
  PROVE  EventLegal(act'[i]) /\ Moves(i)
<1>1. act[i] \in Activity /\ act \in [Slots -> Activity]
  BY DEF TypeSDI
<1>2. CASE i = j
  <2> DEFINE e == EventOf(i)
  <2>1. act'[i] = [act[i] EXCEPT !.status = e, !.evn = e]
    BY <1>1, <1>2 DEF Called
  <2>2. e \in CodelStates /\ act[i].status \notin {"ETHER", "ZOMBIE"}
    BY <1>2 DEF Called
  <2>3. EventLegal(act[i])
    BY DEF EventsLegal
  <2>4. e \in NextStates[act[i].status] \cup {act[i].status}
    BY <1>1, <2>2, <2>3 DEF EventLegal, EventOf, NextStates, Allowed, CodelStates, Activity,
       States
  <2> HIDE DEF e
  <2>5. act'[i].status = e /\ act'[i].evn = e
    BY <1>1, <2>1 DEF Activity
  <2>6. EventLegal(act'[i])
    BY <2>2, <2>5 DEF EventLegal, Allowed, CodelStates
  <2> QED
    BY <2>4, <2>5, <2>6 DEF Moves
<1>3. CASE i # j
  <2>1. act'[i] = act[i]
    BY <1>1, <1>3 DEF Called
  <2> QED
    BY <2>1 DEF EventsLegal, Moves
<1> QED BY <1>2, <1>3

LEMMA ReturnedLegal ==
  ASSUME TypeSDI, CodelsObey, EventsLegal, LiveTyped, NEW j \in Slots, NEW e \in Events,
         NEW b \in Bilans, Returned(j, e, b), NEW i \in Slots
  PROVE  EventLegal(act'[i]) /\ Moves(i)
<1>1. act[i] \in Activity /\ act \in [Slots -> Activity]
  BY DEF TypeSDI
<1>2. CASE i = j
  <2>1. act'[i] = [act[i] EXCEPT !.evn = e, !.bilan = b]
    BY <1>1, <1>2 DEF Returned
  <2>2. act[i].status \in CodelStates /\ e \in CodelResults[act[i].type][act[i].status]
    BY <1>2 DEF Returned
  <2>3. act'[i].status = act[i].status /\ act'[i].evn = e
    BY <1>1, <2>1 DEF Activity
  <2>4. act[i].type \in ExecRqsts
    BY <2>2 DEF LiveTyped, Live, CodelStates
  <2>5. e \in Allowed[act[i].status]
                \cup (IF act[i].status = "FAIL" THEN {} ELSE {"NO_EVENT"})
    BY <2>2, <2>4 DEF CodelsObey
  <2>6. EventLegal(act'[i])
    BY <2>2, <2>3, <2>5 DEF EventLegal, Allowed, CodelStates
  <2> QED
    BY <2>3, <2>6 DEF Moves
<1>3. CASE i # j
  <2>1. act'[i] = act[i]
    BY <1>1, <1>3 DEF Returned
  <2> QED
    BY <2>1 DEF EventsLegal, Moves
<1> QED BY <1>2, <1>3

LEMMA ExecStopSame ==
  ASSUME NEW t \in Tasks, ExecStep(t), UNCHANGED cntrlVars
  PROVE  stopModule' = stopModule /\ cntrlPc' = cntrlPc
<1> USE DEF cntrlVars, sdiVars
<1>1. ASSUME \/ ExecWakeUp(t) \/ ExecStop(t) \/ ExecTake(t) \/ ExecTakeError(t)
             \/ GenomTakeSDIs(t) \/ ExecSuspend(t) \/ ExecBegin(t)
             \/ GenomGiveSDIs(t) \/ ExecEndError(t)
      PROVE  stopModule' = stopModule
  BY <1>1 DEF ExecWakeUp, ExecStop, ExecTake, ExecTakeError, GenomTakeSDIs,
              ExecSuspend, ExecBegin, GenomGiveSDIs, ExecEndError
<1>2. ASSUME NEW i \in Slots, ExecSkip(t, i) \/ ExecCallUserFunc(t, i)
      PROVE  stopModule' = stopModule
  BY <1>2 DEF ExecSkip, ExecCallUserFunc
<1>3. ASSUME NEW e \in Events, NEW b \in CodelBilans,
             ExecForbidden(t, e, b) \/ \E W \in CodelWakeUps : ExecCodelReturn(t, e, b, W)
      PROVE  stopModule' = stopModule
  BY <1>3 DEF ExecForbidden, ExecCodelReturn
<1>4. ASSUME NEW newBilan \in BOOLEAN, ExecEnd(t, newBilan) PROVE stopModule' = stopModule
  BY <1>4 DEF ExecEnd
<1> QED
  BY <1>1, <1>2, <1>3, <1>4 DEF ExecStep, ExecWait, ExecEnter, ExecRun

LEMMA SameLegal ==
  ASSUME EventsLegal, NEW i \in Slots, act'[i] = act[i]
  PROVE  EventLegal(act'[i]) /\ Moves(i)
BY DEF EventsLegal, Moves

\* AbortActivity of an activity that has no event for the control task.
LEMMA AbortedLegal ==
  ASSUME TypeSDI, EventsLegal, NEW S \in SUBSET Slots, NEW i \in Slots,
         act[i].evn \notin {"ETHER", "ZOMBIE", "SLEEP"}, act'[i] = AbortTable(S)[i]
  PROVE  /\ EventLegal(act'[i]) /\ Moves(i)
         /\ act'[i].evn \notin {"ETHER", "ZOMBIE", "SLEEP"}
<1>1. act[i] \in Activity /\ EventLegal(act[i])
  BY DEF TypeSDI, EventsLegal
<1>2. CASE i \in Ended(S)
  <2>1. act'[i] = Freed(act[i])
    BY <1>2 DEF AbortTable
  <2>2. act'[i].status = "ETHER" /\ act'[i].evn = "NO_EVENT"
    BY <1>1, <2>1 DEF Freed, Activity
  <2> QED
    BY <2>2 DEF EventLegal, Moves
<1>3. CASE i \notin Ended(S) /\ i \in Interrupted(S)
  <2>1. act'[i] = [act[i] EXCEPT !.evn = "INTER"]
    BY <1>3 DEF AbortTable
  <2>2. act'[i].status = act[i].status /\ act'[i].evn = "INTER"
    BY <1>1, <2>1 DEF Activity
  <2>3. act[i].status \in {"SLEEP", "START", "EXEC", "END", "INTER"}
    BY <1>1, <1>3 DEF Interrupted, AbortInterrupts, CodelStates, EventLegal
  <2> QED
    BY <2>2, <2>3 DEF EventLegal, Moves, Allowed
<1>4. CASE i \notin Ended(S) /\ i \notin Interrupted(S)
  <2>1. act'[i] = act[i]
    BY <1>4 DEF AbortTable
  <2> QED BY <2>1, SameLegal
<1> QED BY <1>2, <1>3, <1>4

LEMMA EventProcessed ==
  ASSUME TypeSDI, EventsLegal, CntrlIntEvnExec, NEW i \in Slots
  PROVE  /\ EventLegal(act'[i]) /\ Moves(i)
         /\ act'[i].evn \notin {"ETHER", "ZOMBIE", "SLEEP"}
<1>1. act[i] \in Activity /\ EventLegal(act[i])
  BY DEF TypeSDI, EventsLegal
<1>2. CASE act[i].evn = "ETHER"
  <2>1. act'[i] = Freed(act[i])
    BY <1>2 DEF CntrlIntEvnExec
  <2>2. act'[i].status = "ETHER" /\ act'[i].evn = "NO_EVENT"
    BY <1>1, <2>1 DEF Freed, Activity
  <2> QED
    BY <2>2 DEF EventLegal, Moves
<1>3. CASE act[i].evn \in {"ZOMBIE", "SLEEP"}
  <2>1. act'[i] = [act[i] EXCEPT !.status = act[i].evn, !.evn = "NO_EVENT"]
    BY <1>3 DEF CntrlIntEvnExec
  <2>2. act'[i].status = act[i].evn /\ act'[i].evn = "NO_EVENT"
    BY <1>1, <2>1 DEF Activity
  <2>3. act[i].evn \in NextStates[act[i].status] \cup {act[i].status}
    BY <1>1, <1>3 DEF EventLegal, NextStates, Allowed, Activity, States, CodelStates
  <2> QED
    BY <1>3, <2>2, <2>3 DEF EventLegal, Moves
<1>4. CASE act[i].evn \notin {"ETHER", "ZOMBIE", "SLEEP"}
  <2>1. act'[i] = act[i]
    BY <1>4 DEF CntrlIntEvnExec
  <2> QED BY <1>4, <2>1, SameLegal
<1> QED BY <1>2, <1>3, <1>4

LEMMA SpawnLegal ==
  ASSUME TypeSDI, EventsLegal, SpawnActivities, NEW i \in Slots
  PROVE  EventLegal(act'[i]) /\ Moves(i)
<1> DEFINE over(j) == act[j].status \in {"ETHER", "ZOMBIE"}
           ready   == {k \in Slots : Waiting(act[k]) /\ \A j \in act[k].incomp : over(j)}
           e == IF i \in ready THEN "START" ELSE act[i].evn
           I == {j \in act[i].incomp : ~over(j)}
<1>1. act[i] \in Activity
  BY DEF TypeSDI
<1>2. CASE Waiting(act[i])
  <2>1. act'[i] = [act[i] EXCEPT !.evn = e, !.incomp = I]
    BY <1>2 DEF SpawnActivities
  <2>2. e \in {"NO_EVENT", "START"} /\ act[i].status = "INIT"
    BY <1>2 DEF Waiting
  <2> HIDE DEF e, I
  <2>3. act'[i].status = "INIT" /\ act'[i].evn = e
    BY <1>1, <2>1, <2>2 DEF Activity
  <2> QED
    BY <2>2, <2>3 DEF EventLegal, Moves
<1>3. CASE ~Waiting(act[i])
  <2>1. act'[i] = act[i]
    BY <1>3 DEF SpawnActivities
  <2> QED BY <2>1, SameLegal
<1> QED BY <1>2, <1>3

\* While the control task is inside, no execution task touches the table.
LEMMA CntrlAlone ==
  ASSUME Inv, LockInv, StopEnds, cntrlPc \in {"ext", "rqst"}, NEW t \in Tasks, ExecStep(t)
  PROVE  act' = act
<1>1. \A p \in Tasks : At(p, "loop") \/ At(p, "codel") \/ At(p, "relock") => FALSE
  <2>1. ~stopModule /\ Cntrl \in Inside /\ Cntrl \notin Tasks
    BY ConstantsAssumption DEF StopEnds, Inside
  <2>2. \A p \in Tasks : p \notin Inside
    BY <2>1 DEF LockInv
  <2> QED
    BY <2>2 DEF Inside, At
<1>2. ASSUME NEW i \in Slots, ExecCallUserFunc(t, i) PROVE FALSE
  BY <1>1, <1>2 DEF ExecCallUserFunc
<1>3. ASSUME NEW e \in Events, NEW b \in CodelBilans, NEW W \in CodelWakeUps,
             ExecCodelReturn(t, e, b, W)
      PROVE  FALSE
  BY <1>1, <1>3 DEF ExecCodelReturn
<1>4. ASSUME NEW e \in Events, NEW b \in CodelBilans, ExecForbidden(t, e, b) PROVE FALSE
  BY <1>1, <1>4 DEF ExecForbidden
<1>5. ASSUME \/ ExecWakeUp(t) \/ ExecStop(t) \/ ExecTake(t) \/ ExecTakeError(t)
             \/ GenomTakeSDIs(t) \/ ExecSuspend(t) \/ ExecBegin(t)
             \/ GenomGiveSDIs(t) \/ ExecEndError(t)
      PROVE  act' = act
  BY <1>5 DEF ExecWakeUp, ExecStop, ExecTake, ExecTakeError, GenomTakeSDIs,
              ExecSuspend, ExecBegin, GenomGiveSDIs, ExecEndError, sdiVars
<1>6. ASSUME NEW i \in Slots, ExecSkip(t, i) PROVE act' = act
  BY <1>6 DEF ExecSkip, sdiVars
<1>7. ASSUME NEW newBilan \in BOOLEAN, ExecEnd(t, newBilan) PROVE act' = act
  BY <1>7 DEF ExecEnd
<1> QED
  BY <1>2, <1>3, <1>4, <1>5, <1>6, <1>7 DEF ExecStep, ExecWait, ExecEnter, ExecRun

\* Every step moves activities along the table and leaves legal events.
LEMMA NextLegal ==
  ASSUME Inv, LockInv, TransInv, CodelsObey, [Next]_vars
  PROVE  /\ EventsLegal' /\ NonePending' /\ StopEnds'
         /\ \A i \in Live : Moves(i)
<1> USE DEF TransInv, cntrlVars, endVars, sdiVars, aside, kept
<1>0. TypeSDI /\ act \in [Slots -> Activity] /\ Live \subseteq Slots
  BY DEF Inv, TypeOK, TypeSDI, Live
<1> DEFINE Legal == /\ \A i \in Slots : EventLegal(act'[i])
                    /\ \A i \in Live : Moves(i)
           Quiet == \A i \in Slots : act'[i].evn \notin {"ETHER", "ZOMBIE", "SLEEP"}
           Goal == /\ EventsLegal' /\ NonePending' /\ StopEnds'
                   /\ \A i \in Live : Moves(i)
<1>1. ASSUME Legal, cntrlPc' \notin {"ext", "rqst"}, StopEnds' PROVE Goal
  BY <1>1 DEF EventsLegal, NonePending
<1>2. ASSUME Legal, Quiet, StopEnds' PROVE Goal
  BY <1>2 DEF EventsLegal, NonePending
<1>3. ASSUME act' = act PROVE Legal
  BY <1>0, <1>3, SameLegal
<1>4. ASSUME act' = act, cntrlPc' \in {"ext", "rqst"} => cntrlPc \in {"ext", "rqst"}, StopEnds'
      PROVE  Goal
  <2>1. cntrlPc' \in {"ext", "rqst"} => Quiet
    BY <1>4 DEF NonePending
  <2> HIDE DEF Legal, Quiet, Goal
  <2> QED
    BY <1>1, <1>2, <1>3, <1>4, <2>1
<1>5. ASSUME cntrlPc \in {"ext", "rqst"}
      PROVE  \A i \in Slots : act[i].evn \notin {"ETHER", "ZOMBIE", "SLEEP"}
  BY <1>5 DEF NonePending
<1>6. ASSUME CntrlRqst PROVE Goal
  <2>1. PICK r \in RqstIds :
          /\ Serve(r)
          /\ \/ \E S \in SUBSET Slots, b \in Finals : AbortAndAnswer(S, r, b)
             \/ \E b \in Finals : Answer(r, b)
             \/ \E x \in ExecRqsts, s \in Slots : RqstExec(x, r, s)
             \/ \E x \in ExecRqsts, s \in Slots : RqstExecCodelError(x, r, s)
             \/ \E n \in AbortArgs : RqstResume(n, r)
             \/ \E n \in AbortArgs : RqstEndModule(n, r)
    BY <1>6, RqstCases DEF Inv
  <2>2. cntrlPc \in {"ext", "rqst"} /\ ~stopModule
    BY <2>1 DEF Serve, StopEnds
  <2>3. \A i \in Slots : act[i].evn \notin {"ETHER", "ZOMBIE", "SLEEP"}
    BY <1>5, <2>2
  <2>4. ASSUME NEW S \in SUBSET Slots, NEW b \in Finals, AbortAndAnswer(S, r, b) PROVE Goal
    <3>1. \A i \in Slots : /\ EventLegal(act'[i]) /\ Moves(i)
                           /\ act'[i].evn \notin {"ETHER", "ZOMBIE", "SLEEP"}
      BY <1>0, <2>3, <2>4, AbortedLegal DEF AbortAndAnswer
    <3>2. StopEnds'
      BY <2>2, <2>4 DEF AbortAndAnswer, StopEnds
    <3> QED BY <1>0, <1>2, <3>1, <3>2
  <2>5. ASSUME NEW b \in Finals, Answer(r, b) PROVE Goal
    BY <1>4, <2>2, <2>5 DEF Answer, StopEnds
  <2>6. ASSUME NEW n \in AbortArgs, RqstResume(n, r) PROVE Goal
    BY <1>4, <2>2, <2>6 DEF RqstResume, StopEnds
  <2>7. ASSUME NEW n \in AbortArgs, RqstEndModule(n, r) PROVE Goal
    BY <1>4, <2>2, <2>7 DEF RqstEndModule, StopTasks, StopEnds
  <2>8. ASSUME NEW x \in ExecRqsts, NEW s \in Slots, RqstExec(x, r, s) PROVE Goal
    <3> DEFINE S == Targets(x)
               new == NewActivity(x, r, S \ Ended(S))
    <3>1. S \in SUBSET Slots
      BY DEF Targets, Live
    <3>2. act' = [AbortTable(S) EXCEPT ![s] = new] /\ s \notin Live
      BY <2>8 DEF RqstExec, FirstFree
    <3>3. new.status = "INIT" /\ new.evn = "NO_EVENT"
      BY DEF NewActivity
    <3> HIDE DEF new, S
    <3>4. act'[s] = new /\ \A i \in Slots \ {s} : act'[i] = AbortTable(S)[i]
      BY <1>0, <3>1, <3>2, AbortTableType
    <3>5. \A i \in Slots \ {s} : /\ EventLegal(act'[i]) /\ Moves(i)
                                 /\ act'[i].evn \notin {"ETHER", "ZOMBIE", "SLEEP"}
      BY <1>0, <2>3, <3>1, <3>4, AbortedLegal
    <3>6. EventLegal(act'[s]) /\ act'[s].evn \notin {"ETHER", "ZOMBIE", "SLEEP"}
      BY <3>3, <3>4 DEF EventLegal
    <3>7. Legal /\ Quiet
      BY <1>0, <3>2, <3>5, <3>6
    <3>8. StopEnds'
      BY <2>2, <2>8 DEF RqstExec, StopEnds
    <3> QED BY <1>2, <3>7, <3>8
  <2>9. ASSUME NEW x \in ExecRqsts, NEW s \in Slots, RqstExecCodelError(x, r, s) PROVE Goal
    <3> DEFINE new == Freed(NewActivity(x, r, {}))
    <3>1. new.status = "ETHER" /\ new.evn = "NO_EVENT"
      BY DEF Freed, NewActivity
    <3>2. act' = [act EXCEPT ![s] = new]
      BY <2>9 DEF RqstExecCodelError
    <3> HIDE DEF new
    <3>3. act'[s] = new /\ \A i \in Slots \ {s} : act'[i] = act[i]
      BY <1>0, <3>2
    <3>4. EventLegal(act'[s]) /\ Moves(s) /\ act'[s].evn \notin {"ETHER", "ZOMBIE", "SLEEP"}
      BY <3>1, <3>3 DEF EventLegal, Moves
    <3>5. \A i \in Slots \ {s} : /\ EventLegal(act'[i]) /\ Moves(i)
                                 /\ act'[i].evn \notin {"ETHER", "ZOMBIE", "SLEEP"}
      BY <2>3, <3>3, SameLegal
    <3>6. Legal /\ Quiet
      BY <1>0, <3>4, <3>5
    <3>7. StopEnds'
      BY <2>2, <2>9 DEF RqstExecCodelError, StopEnds
    <3> QED BY <1>2, <3>6, <3>7
  <2> HIDE DEF Goal
  <2> QED
    BY <2>1, <2>4, <2>5, <2>6, <2>7, <2>8, <2>9
<1>7. ASSUME CntrlIntEvnExec PROVE Goal
  <2>1. \A i \in Slots : /\ EventLegal(act'[i]) /\ Moves(i)
                         /\ act'[i].evn \notin {"ETHER", "ZOMBIE", "SLEEP"}
    BY <1>0, <1>7, EventProcessed
  <2>2. StopEnds'
    BY <1>7 DEF CntrlIntEvnExec, StopEnds
  <2> QED BY <1>0, <1>2, <2>1, <2>2
<1>8. ASSUME SpawnActivities PROVE Goal
  <2>1. \A i \in Slots : EventLegal(act'[i]) /\ Moves(i)
    BY <1>0, <1>8, SpawnLegal
  <2>2. StopEnds' /\ cntrlPc' \notin {"ext", "rqst"}
    BY <1>8 DEF SpawnActivities, StopEnds
  <2> QED BY <1>0, <1>1, <2>1, <2>2
<1>9. ASSUME NEW t \in Tasks, ExecStep(t), UNCHANGED cntrlVars PROVE Goal
  <2>0. StopEnds'
    BY <1>9, ExecStopSame DEF StopEnds
  <2>1. ASSUME cntrlPc \in {"ext", "rqst"} PROVE Goal
    BY <1>4, <1>9, <2>0, <2>1, CntrlAlone
  <2>2. ASSUME cntrlPc \notin {"ext", "rqst"} PROVE Goal
    <3>1. Legal
      <4>1. \/ act' = act
            \/ \E i \in Slots : Called(i)
            \/ \E i \in Slots, e \in Events, b \in Bilans : Returned(i, e, b)
        BY <1>9, ExecCases
      <4>2. ASSUME NEW j \in Slots, Called(j) PROVE Legal
        BY <1>0, <4>2, CalledLegal
      <4>3. ASSUME NEW j \in Slots, NEW e \in Events, NEW b \in Bilans, Returned(j, e, b)
            PROVE  Legal
        BY <1>0, <4>3, ReturnedLegal
      <4> HIDE DEF Legal
      <4> QED BY <1>3, <4>1, <4>2, <4>3
    <3> HIDE DEF Goal, Legal
    <3> QED
      BY <1>1, <1>9, <2>0, <2>2, <3>1
  <2> HIDE DEF Goal
  <2> QED BY <2>1, <2>2
<1>10. ASSUME ClientSend PROVE Goal
  BY <1>4, <1>10 DEF ClientSend, StopEnds
<1>11. ASSUME NEW t \in Tasks, ExternalEvent(t) PROVE Goal
  BY <1>4, <1>11 DEF ExternalEvent, StopEnds
<1>12. ASSUME SignalHandler PROVE Goal
  BY <1>4, <1>12 DEF SignalHandler, StopEnds
<1>13. ASSUME UNCHANGED vars PROVE Goal
  BY <1>4, <1>13 DEF vars, StopEnds
<1>14. ASSUME CntrlWakeUp PROVE Goal
  BY <1>4, <1>14 DEF CntrlWakeUp, StopEnds
<1>15. ASSUME SignalEnd PROVE Goal
  BY <1>4, <1>15 DEF SignalEnd, StopTasks, StopEnds
<1>16. ASSUME NEW t \in Tasks, CntrlWaitEnd(t) PROVE Goal
  BY <1>4, <1>16 DEF CntrlWaitEnd, StopEnds
<1>17. ASSUME CntrlWakeUpEnd PROVE Goal
  BY <1>4, <1>17 DEF CntrlWakeUpEnd, StopEnds
<1>18. ASSUME CntrlExit PROVE Goal
  BY <1>4, <1>18 DEF CntrlExit, StopEnds
<1> HIDE DEF Goal
<1>19. Goal
  BY <1>6, <1>7, <1>8, <1>9, <1>10, <1>11, <1>12, <1>13, <1>14, <1>15, <1>16, <1>17, <1>18
     DEF Next, Module, CntrlStep
<1> QED
  BY <1>19 DEF Goal

\* An activity keeps the type it was allocated with.
LEMMA NextKeepsTypes ==
  ASSUME Inv, LiveTyped, [Next]_vars
  PROVE  LiveTyped'
<1>1. CASE \A i \in Slots : Carried(i)
  BY <1>1 DEF LiveTyped, Live, Carried
<1>2. ASSUME NEW s \in Slots, Allocates(s) PROVE LiveTyped'
  <2>1. \A i \in Slots \ {s} : Carried(i)
    BY <1>2 DEF Allocates
  <2>2. \A i \in Slots \ {s} : act'[i].status # "ETHER" => act'[i].type \in ExecRqsts
    BY <2>1 DEF LiveTyped, Live, Carried
  <2>3. act'[s].status # "ETHER" => act'[s].type \in ExecRqsts
    BY <1>2 DEF Allocates
  <2> QED BY <2>2, <2>3 DEF LiveTyped, Live
<1> QED BY <1>1, <1>2, NextTable

LEMMA InitTrans == Init => TransInv
<1> SUFFICES ASSUME Init PROVE TransInv
  OBVIOUS
<1>1. \A i \in Slots : act[i].status = "ETHER" /\ act[i].evn = "NO_EVENT"
  BY DEF Init, InitSDI
<1>2. cntrlPc = "susp" /\ ~stopModule
  BY DEF Init, InitSDI, InitCntrl
<1> QED
  BY <1>1, <1>2 DEF TransInv, EventsLegal, EventLegal, NonePending, StopEnds, LiveTyped, Live

\* Every activity holds an event its state allows, and the requests are served
\* only once every event left by the execution tasks was processed.
THEOREM TransInvariant ==
  NoResume /\ CodelsObey => (Spec => [](Inv /\ LockInv /\ TransInv))
<1> SUFFICES ASSUME NoResume, CodelsObey PROVE Spec => [](Inv /\ LockInv /\ TransInv)
  OBVIOUS
<1>1. Init => Inv /\ LockInv /\ TransInv
  BY InitInv, InitLock, InitTrans
<1>2. Inv /\ LockInv /\ TransInv /\ [Next]_vars => Inv' /\ LockInv' /\ TransInv'
  <2> SUFFICES ASSUME Inv, LockInv, TransInv, [Next]_vars
               PROVE  Inv' /\ LockInv' /\ TransInv'
    OBVIOUS
  <2>1. Inv' /\ LockInv'
    BY NextKeeps, NextKeepsLock
  <2>2. LiveTyped'
    BY NextKeepsTypes DEF TransInv
  <2>3. EventsLegal' /\ NonePending' /\ StopEnds'
    BY NextLegal
  <2> QED BY <2>1, <2>2, <2>3 DEF TransInv
<1> QED
  BY <1>1, <1>2, PTL DEF Spec

\* filterAndSendEvn and AbortActivity: whatever the control task, the execution
\* tasks and the clients make of an activity meanwhile, it goes along the table,
\* as long as suspended tasks are not resumed and codels answer what they may.
THEOREM LegalTransitionsHold ==
  NoResume /\ CodelsObey => (Spec => LegalTransitions)
<1> SUFFICES ASSUME NoResume, CodelsObey PROVE Spec => LegalTransitions
  OBVIOUS
<1>1. Inv /\ LockInv /\ TransInv /\ [Next]_vars
        => [\A i \in Live : act'[i].status \in {act[i].status, "ETHER"}
                            \/ act'[i].status \in NextStates[act[i].status]
                            \/ act'[i].id # act[i].id]_vars
  BY NextLegal DEF Moves
<1>2. Spec => [](Inv /\ LockInv /\ TransInv)
  BY TransInvariant
<1> QED
  BY <1>1, <1>2, PTL DEF Spec, LegalTransitions

-----------------------------------------------------------------------------
(* The events that wake the tasks *)

\* The activities of t in the slots from n on.
From(t, n) == {j \in Slots : j >= n /\ act[j].task = t}

\* The slots that the loop of t has passed hold nothing to run, and the activities
\* of t further on are among those the loop still counts.
LoopSound(t) ==
  /\ \A j \in Slots : j < exec[t].i /\ act[j].task = t => act[j].evn \notin CodelStates
  /\ Cardinality(From(t, IF exec[t].pc = "loop" THEN exec[t].i ELSE exec[t].i + 1))
       <= exec[t].nbActi - exec[t].nb

\* What an aperiodic task without a pending event has left when it waits, and
\* leaves behind it in its loop.  New activities may come while it has given the
\* SDIs, until SpawnActivities signals every task.
TaskSound(t) ==
  /\ exec[t].pc = "wait" => \A j \in Slots : act[j].task = t => act[j].evn \notin CodelStates
  /\ exec[t].pc \in {"loop", "codel", "unlocked", "relock"}
       /\ t \notin suspending \cup suspended /\ cntrlPc # "rqst" => LoopSound(t)

TasksWoken ==
  \A t \in Tasks \ Periodic :
    signal[t] \/ exec[t].pc = "dead" \/ (~stopModule /\ TaskSound(t))

\* A free slot belongs to no task.
TasksGiven == \A i \in Slots : act[i].status = "ETHER" <=> act[i].task = NoTask

\* An execution task tells what it left to the control task before it gives the
\* SDIs at the end of its loop.
CntrlWoken ==
  /\ \A t \in Tasks : exec[t].wakeUpCntrl =>
       exec[t].pc \in {"loop", "codel", "unlocked", "relock", "end"}
  /\ cntrlPc \in {"susp", "ext", "rqst"} =>
       \/ signal[Cntrl]
       \/ \A i \in Slots : act[i].evn \in {"ETHER", "ZOMBIE", "SLEEP"} =>
            exec[act[i].task].wakeUpCntrl
  /\ cntrlPc = "susp" => signal[Cntrl] \/ nbRcvd = nbSent

-----------------------------------------------------------------------------
\* What a step may do to slot i without leaving an event unseen: free it, leave it,
\* take its event away, or give it one and signal its task; or, while requests
\* are served, make an activity of it that waits.
Tended(i) ==
  \/ act'[i].task = NoTask /\ act'[i].status = "ETHER" /\ act'[i].evn = "NO_EVENT"
  \/ /\ act'[i].task = act[i].task
     /\ act'[i].status = "ETHER" <=> act[i].status = "ETHER"
     /\ \/ act'[i].evn \in {act[i].evn, "NO_EVENT"}
        \/ /\ act'[i].evn \in {"START", "INTER"}
           /\ act[i].task \in Tasks \ Periodic => signal'[act[i].task]
  \/ /\ cntrlPc' = "rqst"
     /\ act'[i].task \in Tasks /\ act'[i].status # "ETHER" /\ act'[i].evn = "NO_EVENT"

\* Where task t is signalled, or as it was.
Spared(t) ==
  \/ signal'[t]
  \/ /\ ~signal[t] /\ stopModule' = stopModule
     /\ t \in suspending' \cup suspended' <=> t \in suspending \cup suspended
     /\ cntrlPc = "rqst" => cntrlPc' = "rqst"

LEMMA SignalledAt ==
  ASSUME TypeSDI, NEW S, signal' = Signalled(S), NEW p \in Tasks \cup {Cntrl}
  PROVE  signal'[p] <=> signal[p] \/ p \in S
BY DEF Signalled, TypeSDI

LEMMA TendedSame ==
  ASSUME NEW i, act'[i] = act[i]
  PROVE  Tended(i)
BY DEF Tended

LEMMA TendedAbort ==
  ASSUME TypeSDI, NEW S \in SUBSET Slots, NEW i \in Slots, act'[i] = AbortTable(S)[i],
         signal' = Signalled(AbortSignals(S))
  PROVE  Tended(i)
<1>1. act[i] \in Activity
  BY DEF TypeSDI
<1>2. CASE i \in Ended(S)
  <2>1. act'[i] = Freed(act[i])
    BY <1>2 DEF AbortTable
  <2> QED
    BY <1>1, <2>1 DEF Tended, Freed, Activity
<1>3. CASE i \notin Ended(S) /\ i \in Interrupted(S)
  <2>1. act'[i] = [act[i] EXCEPT !.evn = "INTER"]
    BY <1>3 DEF AbortTable
  <2>2. act[i].task \in Tasks \ Periodic => signal'[act[i].task]
    <3> SUFFICES ASSUME act[i].task \in Tasks \ Periodic PROVE signal'[act[i].task]
      OBVIOUS
    <3>1. act[i].task \in AbortSignals(S)
      BY <1>3 DEF AbortSignals, Aperiodic
    <3> QED
      BY <3>1, SignalledAt
  <2> QED
    BY <1>1, <2>1, <2>2 DEF Tended, Activity
<1>4. CASE i \notin Ended(S) /\ i \notin Interrupted(S)
  BY <1>4, TendedSame DEF AbortTable
<1> QED
  BY <1>2, <1>3, <1>4

LEMMA TendedEvents ==
  ASSUME TypeSDI, QuietSlots, CntrlIntEvnExec, NEW i \in Slots
  PROVE  Tended(i) /\ act'[i].evn \notin {"ETHER", "ZOMBIE", "SLEEP"}
<1>1. act[i] \in Activity
  BY DEF TypeSDI
<1>2. CASE act[i].evn = "ETHER"
  <2>1. act'[i] = Freed(act[i])
    BY <1>2 DEF CntrlIntEvnExec
  <2> QED
    BY <1>1, <2>1 DEF Tended, Freed, Activity
<1>3. CASE act[i].evn \in {"ZOMBIE", "SLEEP"}
  <2>1. act'[i] = [act[i] EXCEPT !.status = act[i].evn, !.evn = "NO_EVENT"]
    BY <1>3 DEF CntrlIntEvnExec
  <2>2. act[i].status \notin {"ETHER", "ZOMBIE"}
    BY <1>3 DEF QuietSlots
  <2> QED
    BY <1>1, <1>3, <2>1, <2>2 DEF Tended, Activity
<1>4. CASE act[i].evn \notin {"ETHER", "ZOMBIE", "SLEEP"}
  <2>1. act'[i] = act[i]
    BY <1>4 DEF CntrlIntEvnExec
  <2> QED BY <1>4, <2>1, TendedSame
<1> QED
  BY <1>2, <1>3, <1>4

LEMMA TendedSpawn ==
  ASSUME TypeSDI, SpawnActivities, NEW i \in Slots
  PROVE  Tended(i)
<1> DEFINE over(j) == act[j].status \in {"ETHER", "ZOMBIE"}
           ready   == {k \in Slots : Waiting(act[k]) /\ \A j \in act[k].incomp : over(j)}
           served  == IF cntrlPc = "rqst" THEN Tasks ELSE {}
           e == IF i \in ready THEN "START" ELSE act[i].evn
           I == {j \in act[i].incomp : ~over(j)}
           S == Aperiodic(served \cup {act[k].task : k \in ready})
<1>1. act[i] \in Activity
  BY DEF TypeSDI
<1>2. signal' = Signalled(S)
  BY DEF SpawnActivities
<1>3. i \in ready /\ act[i].task \in Tasks \ Periodic => act[i].task \in S
  BY DEF Aperiodic
<1>4. e = act[i].evn \/ (e = "START" /\ i \in ready)
  OBVIOUS
<1>5. CASE Waiting(act[i])
  <2>1. act'[i] = [act[i] EXCEPT !.evn = e, !.incomp = I]
    BY <1>5 DEF SpawnActivities
  <2> HIDE DEF e, I, S, ready
  <2>2. act'[i].evn = e /\ act'[i].task = act[i].task /\ act'[i].status = act[i].status
    BY <1>1, <2>1 DEF Activity
  <2>3. act[i].task \in Tasks \ Periodic /\ e # act[i].evn => signal'[act[i].task]
    BY <1>2, <1>3, <1>4, SignalledAt
  <2> QED
    BY <1>4, <2>2, <2>3 DEF Tended
<1>6. CASE ~Waiting(act[i])
  <2>1. act'[i] = act[i]
    BY <1>6 DEF SpawnActivities
  <2> QED
    BY <2>1, TendedSame
<1> QED
  BY <1>5, <1>6

\* What the control task has left to itself, when it sleeps or is about to.
Calm ==
  /\ cntrlPc' \in {"susp", "ext", "rqst"} =>
       \/ cntrlPc \in {"susp", "ext", "rqst"} /\ (signal[Cntrl] => signal'[Cntrl])
       \/ \A i \in Slots : act'[i].evn \notin {"ETHER", "ZOMBIE", "SLEEP"}
  /\ cntrlPc' = "susp" =>
       \/ signal'[Cntrl]
       \/ nbRcvd' = nbSent'
       \/ cntrlPc = "susp" /\ ~signal[Cntrl] /\ UNCHANGED <<nbRcvd, nbSent>>

Tends == /\ \A i \in Slots : Tended(i)
         /\ \A t \in Tasks \ Periodic : Spared(t)
         /\ Calm

LEMMA RqstTends ==
  ASSUME Inv, NoResume, CntrlRqst
  PROVE  Tends
<1> USE DEF Inv, aside, kept, halts
<1>0. /\ TypeSDI /\ act \in [Slots -> Activity] /\ Tasks \subseteq Tasks \cup {Cntrl}
      /\ Cntrl \in Tasks \cup {Cntrl} /\ NoTask \notin Tasks
  BY ConstantsAssumption DEF TypeOK, TypeSDI
<1>1. PICK r \in RqstIds :
        /\ Serve(r)
        /\ \/ \E S \in SUBSET Slots, b \in Finals : AbortAndAnswer(S, r, b)
           \/ \E b \in Finals : Answer(r, b)
           \/ \E x \in ExecRqsts, s \in Slots : RqstExec(x, r, s)
           \/ \E x \in ExecRqsts, s \in Slots : RqstExecCodelError(x, r, s)
           \/ \E n \in AbortArgs : RqstResume(n, r)
           \/ \E n \in AbortArgs : RqstEndModule(n, r)
  BY RqstCases
<1>2. cntrlPc \in {"ext", "rqst"}
  BY <1>1 DEF Serve
<1>3. ASSUME NEW S, signal' = Signalled(S)
      PROVE  \A p \in Tasks \cup {Cntrl} : signal[p] => signal'[p]
  BY <1>0, <1>3, SignalledAt
<1>4. ASSUME \A p \in Tasks \cup {Cntrl} : signal[p] => signal'[p],
             UNCHANGED <<suspending, suspended, stopModule>>, cntrlPc' = "rqst"
      PROVE  (\A t \in Tasks \ Periodic : Spared(t)) /\ Calm
  BY <1>2, <1>4 DEF Spared, Calm
<1>5. ASSUME NEW S \in SUBSET Slots, NEW b \in Finals, AbortAndAnswer(S, r, b) PROVE Tends
  <2>1. \A i \in Slots : Tended(i)
    BY <1>0, <1>5, TendedAbort DEF AbortAndAnswer
  <2> QED
    BY <1>3, <1>4, <1>5, <2>1 DEF AbortAndAnswer, Tends
<1>6. ASSUME NEW b \in Finals, Answer(r, b) PROVE Tends
  <2>1. \A i \in Slots : Tended(i)
    BY <1>6, TendedSame DEF Answer
  <2> QED
    BY <1>4, <1>6, <2>1 DEF Answer, Tends
<1>7. ASSUME NEW x \in ExecRqsts, NEW s \in Slots, RqstExec(x, r, s) PROVE Tends
  <2> DEFINE S == Targets(x)
             new == NewActivity(x, r, S \ Ended(S))
  <2>1. S \in SUBSET Slots /\ TaskOf[x] \in Tasks
    BY ConstantsAssumption DEF Targets, Live
  <2>2. act' = [AbortTable(S) EXCEPT ![s] = new] /\ signal' = Signalled(AbortSignals(S))
        /\ cntrlPc' = "rqst" /\ UNCHANGED <<suspending, suspended, stopModule>>
    BY <1>7 DEF RqstExec
  <2>3. AbortTable(S) \in [Slots -> Activity]
    BY <1>0, <2>1, AbortTableType
  <2>4. new.status = "INIT" /\ new.evn = "NO_EVENT" /\ new.task = TaskOf[x]
    BY DEF NewActivity
  <2> HIDE DEF new, S
  <2>5. act'[s] = new /\ (\A i \in Slots \ {s} : act'[i] = AbortTable(S)[i])
    BY <2>2, <2>3
  <2>6. Tended(s)
    BY <2>1, <2>2, <2>4, <2>5 DEF Tended
  <2>7. \A i \in Slots \ {s} : Tended(i)
    BY <1>0, <2>1, <2>2, <2>5, TendedAbort
  <2> QED
    BY <1>3, <1>4, <2>2, <2>6, <2>7 DEF Tends
<1>8. ASSUME NEW x \in ExecRqsts, NEW s \in Slots, RqstExecCodelError(x, r, s) PROVE Tends
  <2> DEFINE new == Freed(NewActivity(x, r, {}))
  <2>1. act' = [act EXCEPT ![s] = new] /\ signal' = signal
        /\ cntrlPc' = "rqst" /\ UNCHANGED <<suspending, suspended, stopModule>>
    BY <1>8 DEF RqstExecCodelError
  <2>2. new.status = "ETHER" /\ new.evn = "NO_EVENT" /\ new.task = NoTask
    BY DEF Freed, NewActivity
  <2> HIDE DEF new
  <2>3. Tended(s)
    BY <1>0, <2>1, <2>2 DEF Tended
  <2>4. \A i \in Slots \ {s} : Tended(i)
    BY <1>0, <2>1, TendedSame
  <2> QED
    BY <1>4, <2>1, <2>3, <2>4 DEF Tends
<1>9. ASSUME NEW n \in AbortArgs, RqstResume(n, r) PROVE Tends
  BY <1>9 DEF RqstResume, NoResume
<1>10. ASSUME NEW n \in AbortArgs, RqstEndModule(n, r) PROVE Tends
  <2>1. act' = act /\ signal' = Signalled(Aperiodic(Tasks)) /\ cntrlPc' = "ending"
    BY <1>10 DEF RqstEndModule, StopTasks
  <2>2. \A t \in Tasks \ Periodic : signal'[t]
    BY <1>0, <2>1, SignalledAt DEF Aperiodic
  <2> QED
    BY <2>1, <2>2, TendedSame DEF Tends, Spared, Calm
<1> QED
  BY <1>1, <1>5, <1>6, <1>7, <1>8, <1>9, <1>10

\* Every step of the control task, the clients or a signal tends the slots and
\* spares the tasks.
LEMMA CntrlTends ==
  ASSUME Inv, NoResume,
         \/ CntrlStep
         \/ ClientSend
         \/ \E t \in Tasks : ExternalEvent(t)
         \/ SignalHandler
         \/ UNCHANGED vars
  PROVE  Tends
<1> USE DEF Inv, halts, sdiVars, cntrlVars, endVars
<1>0. /\ TypeSDI /\ Cntrl \notin Tasks /\ signal \in [Tasks \cup {Cntrl} -> BOOLEAN]
      /\ Tasks \subseteq Tasks \cup {Cntrl} /\ Cntrl \in Tasks \cup {Cntrl}
  BY ConstantsAssumption DEF TypeOK, TypeSDI
<1>1. ASSUME act' = act, stopModule' = stopModule,
             UNCHANGED <<suspending, suspended>>, cntrlPc = "rqst" => cntrlPc' = "rqst",
             \A t \in Tasks : signal[t] => signal'[t], Calm
      PROVE  Tends
  BY <1>1, TendedSame DEF Tends, Spared
<1>2. ASSUME NEW S, signal' = Signalled(S)
      PROVE  \A p \in Tasks \cup {Cntrl} : signal[p] \/ p \in S => signal'[p]
  BY <1>0, <1>2, SignalledAt
<1>3. ASSUME signal' = [signal EXCEPT ![Cntrl] = FALSE]
      PROVE  \A t \in Tasks : signal[t] => signal'[t]
  BY <1>0, <1>3
<1>4. CASE CntrlWakeUp
  <2>1. Calm
    BY <1>4 DEF CntrlWakeUp, Calm
  <2> QED
    BY <1>1, <1>3, <1>4, <2>1 DEF CntrlWakeUp
<1>5. CASE CntrlIntEvnExec
  <2>1. \A i \in Slots : Tended(i) /\ act'[i].evn \notin {"ETHER", "ZOMBIE", "SLEEP"}
    BY <1>0, <1>5, TendedEvents
  <2>2. /\ UNCHANGED <<suspending, suspended, stopModule, signal>>
        /\ cntrlPc = "take" /\ cntrlPc' = "ext"
    BY <1>5 DEF CntrlIntEvnExec
  <2> QED
    BY <2>1, <2>2 DEF Tends, Spared, Calm
<1>6. CASE SpawnActivities
  <2> DEFINE over(j) == act[j].status \in {"ETHER", "ZOMBIE"}
             ready   == {k \in Slots : Waiting(act[k]) /\ \A j \in act[k].incomp : over(j)}
             served  == IF cntrlPc = "rqst" THEN Tasks ELSE {}
             S == Aperiodic(served \cup {act[k].task : k \in ready})
  <2>1. \A i \in Slots : Tended(i)
    BY <1>0, <1>6, TendedSpawn
  <2>2. /\ UNCHANGED <<suspending, suspended, stopModule, nbRcvd, nbSent>>
        /\ cntrlPc \in {"ext", "rqst"} /\ cntrlPc' = "susp" /\ nbRcvd = nbSent
        /\ signal' = Signalled(S)
    BY <1>6 DEF SpawnActivities
  <2>3. cntrlPc = "rqst" => Tasks \ Periodic \subseteq S
    BY DEF Aperiodic
  <2> HIDE DEF S
  <2> QED
    BY <1>0, <1>2, <2>1, <2>2, <2>3 DEF Tends, Spared, Calm
<1>7. CASE CntrlRqst
  BY <1>7, RqstTends
<1>8. CASE SignalEnd
  <2>1. act' = act /\ signal' = Signalled(Aperiodic(Tasks)) /\ cntrlPc' = "ending"
    BY <1>8 DEF SignalEnd, StopTasks
  <2>2. \A t \in Tasks \ Periodic : signal'[t]
    BY <1>0, <2>1, SignalledAt DEF Aperiodic
  <2> QED
    BY <2>1, <2>2, TendedSame DEF Tends, Spared, Calm
<1>9. ASSUME NEW t \in Tasks, CntrlWaitEnd(t) PROVE Tends
  <2>1. Calm
    BY <1>9 DEF CntrlWaitEnd, Calm
  <2> QED
    BY <1>1, <1>9, <2>1 DEF CntrlWaitEnd
<1>10. CASE CntrlWakeUpEnd
  <2>1. Calm
    BY <1>10 DEF CntrlWakeUpEnd, Calm
  <2> QED
    BY <1>1, <1>3, <1>10, <2>1 DEF CntrlWakeUpEnd
<1>11. CASE CntrlExit
  <2>1. Calm
    BY <1>11 DEF CntrlExit, Calm
  <2> QED
    BY <1>1, <1>11, <2>1 DEF CntrlExit
<1>12. CASE ClientSend \/ SignalHandler
  <2>1. signal' = Signalled({Cntrl})
    BY <1>12 DEF ClientSend, SignalHandler
  <2>2. Calm
    BY <1>0, <1>2, <1>12, <2>1 DEF ClientSend, SignalHandler, Calm
  <2> QED
    BY <1>0, <1>1, <1>2, <1>12, <2>1, <2>2 DEF ClientSend, SignalHandler
<1>13. ASSUME NEW t \in Tasks, ExternalEvent(t) PROVE Tends
  <2>1. Calm
    BY <1>0, <1>2, <1>13 DEF ExternalEvent, Calm
  <2> QED
    BY <1>0, <1>1, <1>2, <1>13, <2>1 DEF ExternalEvent
<1>14. CASE UNCHANGED vars
  <2>1. Calm
    BY <1>14 DEF vars, Calm
  <2> QED
    BY <1>1, <1>14, <2>1 DEF vars
<1> QED
  BY <1>4, <1>5, <1>6, <1>7, <1>8, <1>9, <1>10, <1>11, <1>12, <1>13, <1>14 DEF CntrlStep

LEMMA FewerFrom ==
  ASSUME NEW S \in SUBSET Slots, NEW T \in SUBSET S, NEW n \in Int, NEW m \in Int,
         Cardinality(S) <= n - m
  PROVE  Cardinality(T) <= n - m
<1>1. IsFiniteSet(S) /\ Cardinality(S) \in Nat /\ Cardinality(T) \in Nat
  BY SlotsFinite
<1>2. Cardinality(T) <= Cardinality(S)
  BY <1>1, FS_Subset
<1> QED
  BY <1>1, <1>2

\* A task that stays where it is keeps what it left behind it, if its slots only
\* lose activities or events, or get activities that wait, while requests are served.
LEMMA SoundKept ==
  ASSUME TypeOK, NEW t \in Tasks, TaskSound(t), exec'[t] = exec[t],
         t \in suspending' \cup suspended' <=> t \in suspending \cup suspended,
         cntrlPc = "rqst" => cntrlPc' = "rqst",
         \A j \in Slots : act'[j].task = t /\ act'[j].evn \in CodelStates
                            => act[j].task = t /\ act[j].evn \in CodelStates,
         \A j \in Slots : act'[j].task = t => act[j].task = t \/ cntrlPc' = "rqst"
  PROVE  TaskSound(t)'
<1> DEFINE n == IF exec[t].pc = "loop" THEN exec[t].i ELSE exec[t].i + 1
           Looping == /\ exec[t].pc \in {"loop", "codel", "unlocked", "relock"}
                      /\ t \notin suspending' \cup suspended' /\ cntrlPc' # "rqst"
<1>1. ASSUME Looping PROVE LoopSound(t)'
  <2>1. LoopSound(t)
    BY <1>1 DEF TaskSound
  <2>2. \A j \in Slots : j < exec[t].i /\ act'[j].task = t => act'[j].evn \notin CodelStates
    BY <2>1 DEF LoopSound
  <2> DEFINE S == {j \in Slots : j >= n /\ act[j].task = t}
             T == {j \in Slots : j >= n /\ act'[j].task = t}
  <2>3. S \in SUBSET Slots /\ T \in SUBSET S
    BY <1>1
  <2>4. Cardinality(S) <= exec[t].nbActi - exec[t].nb
    BY <2>1 DEF LoopSound, From
  <2>5. exec[t].nbActi \in Int /\ exec[t].nb \in Int
    BY DEF TypeOK, TypeExec
  <2> HIDE DEF S, T
  <2>6. Cardinality(T) <= exec[t].nbActi - exec[t].nb
    BY <2>3, <2>4, <2>5, FewerFrom
  <2> QED
    BY <2>2, <2>6 DEF LoopSound, From, T
<1>2. exec[t].pc = "wait" =>
        \A j \in Slots : act'[j].task = t => act'[j].evn \notin CodelStates
  BY DEF TaskSound
<1> HIDE DEF n
<1> QED
  BY <1>1, <1>2 DEF TaskSound

LEMMA TendedWoken ==
  ASSUME TypeOK, TasksWoken, Tends, exec' = exec
  PROVE  TasksWoken'
<1> SUFFICES ASSUME NEW t \in Tasks \ Periodic, ~signal'[t], exec[t].pc # "dead"
             PROVE  ~stopModule' /\ TaskSound(t)'
  BY DEF TasksWoken
<1>1. /\ ~signal[t] /\ stopModule' = stopModule
      /\ t \in suspending' \cup suspended' <=> t \in suspending \cup suspended
      /\ cntrlPc = "rqst" => cntrlPc' = "rqst"
  BY DEF Tends, Spared
<1>2. ~stopModule /\ TaskSound(t)
  BY <1>1 DEF TasksWoken
<1>3. t # NoTask
  BY ConstantsAssumption
<1>4. ASSUME NEW j \in Slots, act'[j].task = t
      PROVE  /\ act'[j].evn \in CodelStates => act[j].task = t /\ act[j].evn \in CodelStates
             /\ act[j].task = t \/ cntrlPc' = "rqst"
  BY <1>3, <1>4 DEF Tends, Tended, CodelStates
<1>5. TaskSound(t)'
  BY <1>1, <1>2, <1>4, SoundKept
<1> QED
  BY <1>1, <1>2, <1>5

LEMMA TendedGiven ==
  ASSUME TasksGiven, \A i \in Slots : Tended(i)
  PROVE  TasksGiven'
BY ConstantsAssumption DEF TasksGiven, Tended

LEMMA TendedCntrl ==
  ASSUME CntrlWoken, Tends, exec' = exec
  PROVE  CntrlWoken'
<1> DEFINE Left == \A i \in Slots : act[i].evn \in {"ETHER", "ZOMBIE", "SLEEP"} =>
                     exec[act[i].task].wakeUpCntrl
<1>1. \A i \in Slots : act'[i].evn \in {"ETHER", "ZOMBIE", "SLEEP"} =>
        act'[i].evn = act[i].evn /\ act'[i].task = act[i].task
  BY DEF Tends, Tended
<1>2. Left => Left'
  BY <1>1
<1>3. cntrlPc' \in {"susp", "ext", "rqst"} => signal'[Cntrl] \/ Left'
  <2>1. CASE cntrlPc \in {"susp", "ext", "rqst"} /\ (signal[Cntrl] => signal'[Cntrl])
    BY <1>2, <2>1 DEF CntrlWoken
  <2> QED
    BY <2>1 DEF Tends, Calm
<1>4. cntrlPc' = "susp" => signal'[Cntrl] \/ nbRcvd' = nbSent'
  BY DEF Tends, Calm, CntrlWoken
<1> QED
  BY <1>3, <1>4 DEF CntrlWoken

-----------------------------------------------------------------------------
\* What a step of execution task t leaves to the others.
Apart(t) ==
  /\ \A p \in Tasks \ {t} : /\ exec'[p] = exec[p]
                            /\ p \in suspending' \cup suspended'
                                 <=> p \in suspending \cup suspended
  /\ \A p \in (Tasks \cup {Cntrl}) \ {t} : signal[p] => signal'[p]
  /\ \A j \in Slots : /\ act'[j].task = act[j].task
                      /\ act'[j].status = "ETHER" <=> act[j].status = "ETHER"
                      /\ act[j].task # t => act'[j].evn = act[j].evn
  /\ UNCHANGED <<stopModule, cntrlPc, nbRcvd, nbSent>>

\* What it has to see to itself.
Woken(t) == signal[t] \/ exec[t].pc = "dead" \/ (~stopModule /\ TaskSound(t))

Tells(t) ==
  /\ exec'[t].wakeUpCntrl => exec'[t].pc \in {"loop", "codel", "unlocked", "relock", "end"}
  /\ \/ signal'[Cntrl]
     \/ \A j \in Slots :
          /\ act[j].task = t /\ act'[j].evn \in {"ETHER", "ZOMBIE", "SLEEP"}
          /\ act[j].evn \in {"ETHER", "ZOMBIE", "SLEEP"} => exec[t].wakeUpCntrl
          => exec'[t].wakeUpCntrl

LEMMA ApartKeeps ==
  ASSUME Inv, TasksGiven, TasksWoken, CntrlWoken, NEW t \in Tasks, Apart(t),
         t \notin Periodic => Woken(t)', Tells(t)
  PROVE  TasksGiven' /\ TasksWoken' /\ CntrlWoken'
<1> USE DEF Inv
<1>1. TasksGiven'
  BY DEF TasksGiven, Apart
<1>2. ASSUME NEW p \in Tasks \ Periodic PROVE Woken(p)'
  <2>1. CASE p = t
    BY <1>2, <2>1
  <2>2. CASE p # t
    <3>1. /\ exec'[p] = exec[p] /\ (signal[p] => signal'[p])
          /\ p \in suspending' \cup suspended' <=> p \in suspending \cup suspended
          /\ stopModule' = stopModule /\ cntrlPc' = cntrlPc
      BY <2>2 DEF Apart
    <3>2. \A j \in Slots : act'[j].task = p => act[j].task = p /\ act'[j].evn = act[j].evn
      BY <2>2 DEF Apart
    <3>3. TaskSound(p) => TaskSound(p)'
      BY <3>1, <3>2, SoundKept
    <3>4. Woken(p)
      BY DEF TasksWoken, Woken
    <3> QED
      BY <3>1, <3>3, <3>4 DEF Woken
  <2> QED BY <2>1, <2>2
<1>3. TasksWoken'
  BY <1>2 DEF TasksWoken, Woken
<1>4. \A p \in Tasks : exec'[p].wakeUpCntrl =>
        exec'[p].pc \in {"loop", "codel", "unlocked", "relock", "end"}
  BY DEF CntrlWoken, Tells, Apart
<1>5. t # Cntrl /\ Cntrl \in (Tasks \cup {Cntrl}) \ {t}
  BY ConstantsAssumption
<1>6. ASSUME cntrlPc' \in {"susp", "ext", "rqst"}, ~signal'[Cntrl],
             NEW j \in Slots, act'[j].evn \in {"ETHER", "ZOMBIE", "SLEEP"}
      PROVE  exec'[act'[j].task].wakeUpCntrl
  <2>1. /\ act'[j].task = act[j].task
        /\ act[j].evn \in {"ETHER", "ZOMBIE", "SLEEP"} => exec[act[j].task].wakeUpCntrl
    BY <1>5, <1>6 DEF Apart, CntrlWoken
  <2>2. CASE act[j].task = t
    BY <1>6, <2>1, <2>2 DEF Tells
  <2>3. CASE act[j].task # t
    <3>1. act'[j].evn = act[j].evn
      BY <2>3 DEF Apart
    <3>2. act[j].status # "ETHER"
      BY <1>6, <3>1 DEF QuietSlots
    <3>3. act[j].task \in Tasks
      BY <3>2 DEF TasksGiven, TypeOK, TypeSDI, Activity
    <3>4. exec'[act[j].task] = exec[act[j].task]
      BY <2>3, <3>3 DEF Apart
    <3> QED
      BY <1>6, <2>1, <3>1, <3>4
  <2> QED BY <2>2, <2>3
<1>7. CntrlWoken'
  BY <1>4, <1>5, <1>6 DEF CntrlWoken, Apart
<1> QED
  BY <1>1, <1>3, <1>7

\* Task t goes on in its loop: the slots up to k are seen.
LEMMA LoopGoes ==
  ASSUME NEW t, NEW k \in Int,
         IF exec'[t].pc = "loop" THEN exec'[t].i = k ELSE exec'[t].i + 1 = k,
         \A j \in Slots : act'[j].task = act[j].task,
         \A j \in Slots : j < exec'[t].i /\ act[j].task = t => act'[j].evn \notin CodelStates,
         Cardinality(From(t, k)) <= exec'[t].nbActi - exec'[t].nb
  PROVE  LoopSound(t)'
<1>1. {j \in Slots : j >= k /\ act'[j].task = t} = From(t, k)
  BY DEF From
<1> QED
  BY <1>1 DEF LoopSound, From

LEMMA NextFrom ==
  ASSUME NEW t, NEW k \in Int, NEW i \in Slots, NextSlot(t, k, i)
  PROVE  /\ Cardinality(From(t, i + 1)) = Cardinality(From(t, k)) - 1
         /\ Cardinality(From(t, k)) \in Nat
         /\ \A j \in Slots : j < i + 1 /\ act[j].task = t => j < k \/ j = i
<1>1. Slots \subseteq Int /\ i \in Int
  BY DEF Slots
<1>2. i >= k /\ act[i].task = t
  BY DEF NextSlot
<1>3. ASSUME NEW j \in Slots, act[j].task = t, j >= k, j < i PROVE FALSE
  <2>1. j \in k .. i - 1
    BY <1>1, <1>3
  <2> QED
    BY <1>3, <2>1 DEF NextSlot
<1>4. \A j \in Slots : act[j].task = t =>
        /\ j >= i + 1 <=> j >= k /\ j # i
        /\ j < i + 1 => j < k \/ j = i
  <2> SUFFICES ASSUME NEW j \in Slots, act[j].task = t
               PROVE  /\ j >= i + 1 <=> j >= k /\ j # i
                      /\ j < i + 1 => j < k \/ j = i
    OBVIOUS
  <2>1. ~(j >= k /\ j < i) /\ j \in Int
    BY <1>1, <1>3
  <2> QED
    BY <1>1, <1>2, <2>1
<1>5. From(t, i + 1) = From(t, k) \ {i}
  BY <1>4 DEF From
<1>6. {i} \in SUBSET From(t, k) /\ From(t, k) \in SUBSET Slots
  BY <1>2 DEF From
<1>7. Cardinality(From(t, k) \ {i}) = Cardinality(From(t, k)) - Cardinality({i})
  BY <1>6, CountRemoved
<1>8. Cardinality({i}) = 1 /\ Cardinality(From(t, k)) \in Nat
  BY <1>6, FS_Singleton, SlotsFinite
<1>9. Cardinality(From(t, i + 1)) = Cardinality(From(t, k)) - 1
  BY <1>5, <1>7, <1>8
<1> QED
  BY <1>4, <1>8, <1>9

LEMMA ExecWakes ==
  ASSUME Inv, LockInv, CountersExact, TasksGiven, TasksWoken, CntrlWoken,
         NEW t \in Tasks, ExecStep(t), UNCHANGED cntrlVars
  PROVE  Apart(t) /\ (t \notin Periodic => Woken(t)') /\ Tells(t)
<1> USE DEF Inv, halts, sdiVars, cntrlVars
<1> DEFINE Looping == {"loop", "codel", "unlocked", "relock", "end"}
           Fine == Apart(t) /\ (t \notin Periodic => Woken(t)') /\ Tells(t)
           Halted(p) == p \in suspending \cup suspended
<1>0. /\ act \in [Slots -> Activity] /\ signal \in [Tasks \cup {Cntrl} -> BOOLEAN]
      /\ exec \in [Tasks -> ExecRecords] /\ exec[t] \in ExecRecords
      /\ t # Cntrl /\ Cntrl \notin Tasks /\ Slots \subseteq Int
      /\ TypeSDI /\ Tasks \subseteq Tasks \cup {Cntrl}
      /\ Cntrl \in Tasks \cup {Cntrl}
  BY ConstantsAssumption DEF TypeOK, TypeExec, TypeSDI, ExecRecords, Slots
<1>1. exec[t].wakeUpCntrl => exec[t].pc \in Looping
  BY DEF CntrlWoken
<1>2. t \notin Periodic => Woken(t)
  BY DEF TasksWoken, Woken
<1>3. UNCHANGED <<nbRcvd, nbSent, cntrlPc>>
  BY ExecCases DEF letters
<1>4. stopModule' = stopModule
  BY ExecStopSame
<1>5. ASSUME NEW pc, Goto(t, pc)
      PROVE  /\ exec'[t].pc = pc /\ exec'[t].i = exec[t].i /\ exec'[t].nb = exec[t].nb
             /\ exec'[t].nbActi = exec[t].nbActi
             /\ exec'[t].wakeUpCntrl = exec[t].wakeUpCntrl
             /\ \A p \in Tasks \ {t} : exec'[p] = exec[p]
  BY <1>0, <1>5 DEF Goto, ExecRecords
<1>6. ASSUME NEW S, signal' = Signalled(S)
      PROVE  \A p \in Tasks \cup {Cntrl} : signal'[p] <=> signal[p] \/ p \in S
  BY <1>0, <1>6, SignalledAt
<1>7. ASSUME act' = act, \A p \in Tasks \ {t} : exec'[p] = exec[p],
             \A p \in Tasks \ {t} : Halted(p)' <=> Halted(p),
             \A p \in Tasks \cup {Cntrl} : p # t /\ signal[p] => signal'[p]
      PROVE  Apart(t)
  BY <1>3, <1>4, <1>7 DEF Apart
<1>8. ASSUME act' = act, exec'[t].wakeUpCntrl => exec'[t].pc \in Looping,
             exec[t].wakeUpCntrl => exec'[t].wakeUpCntrl \/ signal'[Cntrl]
      PROVE  Tells(t)
  BY <1>8 DEF Tells
<1>9. ASSUME signal[t] => signal'[t], exec[t].pc # "dead",
             t \notin Periodic /\ ~signal'[t] /\ ~stopModule /\ TaskSound(t) => TaskSound(t)'
      PROVE  t \notin Periodic => Woken(t)'
  BY <1>2, <1>4, <1>9 DEF Woken
<1>10. ASSUME exec'[t].pc \notin {"wait", "loop", "codel", "unlocked", "relock"}
       PROVE  TaskSound(t)'
  BY <1>10 DEF TaskSound
<1> HIDE DEF Looping
<1>11. ASSUME ExecSuspend(t) PROVE Fine
  <2>1. /\ act' = act /\ exec' = exec /\ signal' = signal
        /\ suspending' \cup suspended' = suspending \cup suspended
    BY <1>11 DEF ExecSuspend
  <2>2. TaskSound(t) => TaskSound(t)'
    BY <1>3, <2>1, SoundKept
  <2>3. t \notin Periodic => Woken(t)'
    BY <1>2, <1>4, <2>1, <2>2 DEF Woken
  <2> QED
    BY <1>1, <1>7, <1>8, <2>1, <2>3
<1>12. ASSUME ExecWakeUp(t) PROVE Fine
  <2>1. /\ act' = act /\ Goto(t, "take") /\ exec[t].pc = "wait" /\ ~stopModule
        /\ suspending' = suspending /\ suspended' = suspended
        /\ signal' = signal \/ signal' = [signal EXCEPT ![t] = FALSE]
    BY <1>12 DEF ExecWakeUp, At
  <2>2. \A p \in Tasks \cup {Cntrl} : p # t /\ signal[p] => signal'[p]
    BY <1>0, <2>1
  <2>3. TaskSound(t)'
    BY <1>5, <1>10, <2>1
  <2>4. ~exec[t].wakeUpCntrl
    BY <1>1, <2>1 DEF Looping
  <2> QED
    BY <1>4, <1>5, <1>7, <1>8, <2>1, <2>2, <2>3, <2>4 DEF Woken
<1>13. ASSUME ExecStop(t) PROVE Fine
  <2>1. /\ act' = act /\ Goto(t, "dead") /\ exec[t].pc = "wait"
        /\ suspending' = suspending /\ suspended' = suspended
        /\ signal' = Signalled({Cntrl})
    BY <1>13 DEF ExecStop, At
  <2>2. ~exec[t].wakeUpCntrl
    BY <1>1, <2>1 DEF Looping
  <2> QED
    BY <1>5, <1>6, <1>7, <1>8, <2>1, <2>2 DEF Woken
<1>14. ASSUME ExecTake(t) PROVE Fine
  <2> DEFINE rec == [Idle EXCEPT !.pc = "loop", !.nbActi = taskNbActi[t]]
  <2>1. /\ act' = act /\ exec[t].pc = "take" /\ signal' = signal
        /\ suspending' = suspending /\ suspended' = suspended
        /\ exec' = [exec EXCEPT ![t] = rec]
    BY <1>14 DEF ExecTake, At
  <2>2. /\ rec.pc = "loop" /\ rec.i = 0 /\ rec.nb = 0 /\ rec.nbActi = taskNbActi[t]
        /\ rec.wakeUpCntrl = FALSE
    BY DEF Idle
  <2> HIDE DEF rec
  <2>3. exec'[t] = rec /\ \A p \in Tasks \ {t} : exec'[p] = exec[p]
    BY <1>0, <2>1
  <2>4. ~exec[t].wakeUpCntrl
    BY <1>1, <2>1 DEF Looping
  <2>5. TaskSound(t)'
    <3>1. \A j \in Slots : j >= 0
      BY DEF Slots
    <3>2. t # NoTask
      BY ConstantsAssumption
    <3>3. From(t, 0) = {j \in Live : act[j].task = t}
      BY <3>1, <3>2 DEF From, Live, TasksGiven
    <3>4. taskNbActi[t] \in Int /\ taskNbActi[t] = Cardinality(From(t, 0))
      BY <3>3 DEF CountersExact, TypeSDI, TypeOK
    <3>5. Cardinality(From(t, 0)) <= exec'[t].nbActi - exec'[t].nb
      BY <2>2, <2>3, <3>4
    <3>6. \A j \in Slots : ~(j < exec'[t].i)
      BY <1>0, <2>2, <2>3, <3>1
    <3>7. LoopSound(t)'
      BY <2>1, <2>2, <2>3, <3>5, <3>6, LoopGoes
    <3> QED
      BY <2>2, <2>3, <3>7 DEF TaskSound
  <2>6. t \notin Periodic => Woken(t)'
    BY <1>9, <2>1, <2>5
  <2> QED
    BY <1>7, <1>8, <2>1, <2>2, <2>3, <2>4, <2>6
<1>15. ASSUME NEW pc, Suspend(t), Goto(t, pc), act' = act,
              \/ exec[t].pc = "take" /\ pc = "begin"
              \/ exec[t].pc = "loop" /\ pc = "end"
       PROVE  Fine
  <2>1. /\ signal' = Signalled({Cntrl})
        /\ suspending' = suspending \cup {t} /\ suspended' = suspended
    BY <1>15 DEF Suspend
  <2>2. signal'[Cntrl] /\ \A p \in Tasks \cup {Cntrl} : signal[p] => signal'[p]
    BY <1>0, <1>6, <2>1
  <2>3. exec'[t].wakeUpCntrl => exec'[t].pc \in Looping
    BY <1>1, <1>5, <1>15 DEF Looping
  <2>4. t \notin Periodic => Woken(t)'
    BY <1>0, <1>5, <1>9, <1>10, <1>15, <2>2
  <2>5. Apart(t)
    BY <1>5, <1>7, <1>15, <2>1, <2>2
  <2>6. Tells(t)
    BY <1>8, <1>15, <2>2, <2>3
  <2> QED
    BY <2>4, <2>5, <2>6
<1>16. ASSUME ExecBegin(t) PROVE Fine
  <2> DEFINE rec == [Idle EXCEPT !.pc = "loop", !.nbActi = taskNbActi[t]]
  <2>1. /\ act' = act /\ exec[t].pc = "begin" /\ signal' = signal /\ ~Halted(t)
        /\ suspending' = suspending /\ suspended' = suspended
        /\ exec' = [exec EXCEPT ![t] = rec]
    BY <1>16 DEF ExecBegin, At
  <2>2. rec.wakeUpCntrl = FALSE
    BY DEF Idle
  <2> HIDE DEF rec
  <2>3. exec'[t] = rec /\ \A p \in Tasks \ {t} : exec'[p] = exec[p]
    BY <1>0, <2>1
  <2>4. ~exec[t].wakeUpCntrl
    BY <1>1, <2>1 DEF Looping
  <2>5. stopModule
    BY <2>1 DEF LockInv
  <2>6. t \notin Periodic => Woken(t)'
    BY <1>2, <2>1, <2>5 DEF Woken
  <2> QED
    BY <1>7, <1>8, <2>1, <2>2, <2>3, <2>4, <2>6
<1>18. ASSUME At(t, "loop"), ~ScanOver(t), NEW i \in Slots, NextSlot(t, exec[t].i, i),
              TaskSound(t), \A j \in Slots : act'[j].task = act[j].task,
              \A j \in Slots : j # i => act'[j].evn = act[j].evn,
              UNCHANGED <<suspending, suspended>>,
              exec'[t].nb = exec[t].nb + 1, exec'[t].nbActi = exec[t].nbActi,
              \/ /\ exec'[t].pc = "loop" /\ exec'[t].i = i + 1
                 /\ act'[i].evn \notin CodelStates
              \/ exec'[t].pc = "codel" /\ exec'[t].i = i
       PROVE  TaskSound(t)'
  <2> SUFFICES ASSUME cntrlPc # "rqst" PROVE LoopSound(t)'
    BY <1>3, <1>18 DEF TaskSound
  <2>1. LoopSound(t) /\ exec[t].pc = "loop"
    BY <1>18 DEF TaskSound, At
  <2>2. exec[t].i \in Int /\ exec[t].nb \in Int /\ exec[t].nbActi \in Int
    BY <1>0, ConstantsAssumption DEF ExecRecords
  <2>3. /\ Cardinality(From(t, i + 1)) = Cardinality(From(t, exec[t].i)) - 1
        /\ Cardinality(From(t, exec[t].i)) \in Nat
        /\ \A j \in Slots : j < i + 1 /\ act[j].task = t => j < exec[t].i \/ j = i
    BY <1>18, <2>2, NextFrom
  <2>4. Cardinality(From(t, exec[t].i)) <= exec[t].nbActi - exec[t].nb
    BY <2>1 DEF LoopSound
  <2>5. Cardinality(From(t, i + 1)) <= exec'[t].nbActi - exec'[t].nb
    BY <1>18, <2>2, <2>3, <2>4
  <2>6. ASSUME NEW j \in Slots, j < exec'[t].i, act[j].task = t
        PROVE  act'[j].evn \notin CodelStates
    <3>1. i \in Int /\ j \in Int
      BY <1>0
    <3>2. j < i + 1 /\ (j # i \/ act'[i].evn \notin CodelStates)
      BY <1>18, <2>6, <3>1
    <3>3. j < exec[t].i \/ j = i
      BY <2>3, <2>6, <3>2
    <3>4. CASE j = i
      BY <3>2, <3>4
    <3>5. CASE j # i
      BY <1>18, <2>1, <2>6, <3>3, <3>5 DEF LoopSound
    <3> QED BY <3>4, <3>5
  <2>7. IF exec'[t].pc = "loop" THEN exec'[t].i = i + 1 ELSE exec'[t].i + 1 = i + 1
    BY <1>0, <1>18
  <2>8. i + 1 \in Int
    BY <1>0
  <2> QED
    BY <1>18, <2>5, <2>6, <2>7, <2>8, LoopGoes
<1>19. ASSUME NEW i \in Slots, ExecSkip(t, i) PROVE Fine
  <2> DEFINE rec == [exec[t] EXCEPT !.i = i + 1, !.nb = @ + 1]
  <2>1. /\ act' = act /\ signal' = signal /\ At(t, "loop") /\ ~ScanOver(t)
        /\ suspending' = suspending /\ suspended' = suspended
        /\ NextSlot(t, exec[t].i, i) /\ EventOf(i) \notin CodelStates
    BY <1>19 DEF ExecSkip
  <2>2. exec' = [exec EXCEPT ![t] = rec]
    BY <1>0, <1>19 DEF ExecSkip
  <2>3. /\ rec.pc = exec[t].pc /\ rec.i = i + 1 /\ rec.nb = exec[t].nb + 1
        /\ rec.nbActi = exec[t].nbActi /\ rec.wakeUpCntrl = exec[t].wakeUpCntrl
    BY <1>0 DEF ExecRecords
  <2> HIDE DEF rec
  <2>4. exec'[t] = rec /\ \A p \in Tasks \ {t} : exec'[p] = exec[p]
    BY <1>0, <2>2
  <2>5. act'[i].evn \notin CodelStates
    BY <2>1 DEF EventOf, CodelStates
  <2>6. TaskSound(t) => TaskSound(t)'
    BY <1>18, <2>1, <2>3, <2>4, <2>5 DEF At
  <2>7. t \notin Periodic => Woken(t)'
    BY <1>9, <2>1, <2>6 DEF At
  <2> QED
    BY <1>1, <1>7, <1>8, <2>1, <2>3, <2>4, <2>7
<1>20. ASSUME NEW i \in Slots, ExecCallUserFunc(t, i) PROVE Fine
  <2> DEFINE rec == [exec[t] EXCEPT !.pc = "codel", !.i = i, !.nb = @ + 1]
             e == EventOf(i)
             new == [act[i] EXCEPT !.status = e, !.evn = e]
  <2>1. /\ signal' = signal /\ At(t, "loop") /\ ~ScanOver(t)
        /\ suspending' = suspending /\ suspended' = suspended
        /\ NextSlot(t, exec[t].i, i) /\ EventOf(i) \in CodelStates
    BY <1>20 DEF ExecCallUserFunc
  <2>2. exec' = [exec EXCEPT ![t] = rec]
    BY <1>0, <1>20 DEF ExecCallUserFunc
  <2>3. /\ rec.pc = "codel" /\ rec.i = i /\ rec.nb = exec[t].nb + 1
        /\ rec.nbActi = exec[t].nbActi /\ rec.wakeUpCntrl = exec[t].wakeUpCntrl
    BY <1>0 DEF ExecRecords
  <2> HIDE DEF rec
  <2>4. exec'[t] = rec /\ \A p \in Tasks \ {t} : exec'[p] = exec[p]
    BY <1>0, <2>2
  <2>5. act[i].status # "ETHER" /\ act[i].task = t
    BY <2>1 DEF NextSlot, EventOf, QuietSlots, CodelStates
  <2>6. act' = [act EXCEPT ![i] = new]
    BY <1>0, <1>20 DEF ExecCallUserFunc
  <2>7. new.status = e /\ new.evn = e /\ new.task = act[i].task
    BY <1>0 DEF Activity
  <2>8. e \in CodelStates /\ e \notin {"ETHER", "ZOMBIE", "SLEEP"}
    BY <2>1 DEF CodelStates
  <2> HIDE DEF new, e
  <2>9. act'[i] = new /\ \A j \in Slots : j # i => act'[j] = act[j]
    BY <1>0, <2>6
  <2>10. \A j \in Slots : act'[j].task = act[j].task
    BY <2>7, <2>9
  <2>11. TaskSound(t) => TaskSound(t)'
    BY <1>18, <2>1, <2>3, <2>4, <2>9, <2>10
  <2>12. t \notin Periodic => Woken(t)'
    BY <1>9, <2>1, <2>11 DEF At
  <2>13. Apart(t)
    BY <1>3, <1>4, <2>1, <2>4, <2>5, <2>7, <2>8, <2>9 DEF Apart
  <2>14. Tells(t)
    BY <2>3, <2>4, <2>7, <2>8, <2>9 DEF Tells
  <2> QED
    BY <2>12, <2>13, <2>14
<1>21. ASSUME GenomGiveSDIs(t) \/ GenomTakeSDIs(t) PROVE Fine
  <2>1. PICK pc \in {"unlocked", "relock"} : Goto(t, pc)
    BY <1>21 DEF GenomGiveSDIs, GenomTakeSDIs
  <2>2. /\ act' = act /\ signal' = signal /\ exec[t].pc \in {"codel", "unlocked"} /\ ~Halted(t)
        /\ suspending' = suspending /\ suspended' = suspended
    BY <1>21 DEF GenomGiveSDIs, GenomTakeSDIs, At
  <2>3. exec[t].i \in Int
    BY <1>0, ConstantsAssumption DEF ExecRecords
  <2>4. ASSUME TaskSound(t), cntrlPc # "rqst" PROVE LoopSound(t)'
    <3>1. LoopSound(t)
      BY <2>2, <2>4 DEF TaskSound
    <3>2. Cardinality(From(t, exec[t].i + 1)) <= exec'[t].nbActi - exec'[t].nb
      BY <1>5, <2>1, <2>2, <3>1 DEF LoopSound
    <3>3. \A j \in Slots : j < exec'[t].i /\ act[j].task = t => act'[j].evn \notin CodelStates
      BY <1>5, <2>1, <2>2, <3>1 DEF LoopSound
    <3>4. exec[t].i + 1 \in Int /\ exec'[t].pc # "loop" /\ exec'[t].i + 1 = exec[t].i + 1
      BY <1>5, <2>1, <2>3
    <3> QED
      BY <2>2, <3>2, <3>3, <3>4, LoopGoes
  <2>5. TaskSound(t) => TaskSound(t)'
    BY <1>3, <1>5, <2>1, <2>4 DEF TaskSound
  <2>6. t \notin Periodic => Woken(t)'
    BY <1>9, <2>2, <2>5
  <2>7. exec'[t].wakeUpCntrl => exec'[t].pc \in Looping
    BY <1>5, <2>1 DEF Looping
  <2> QED
    BY <1>5, <1>7, <1>8, <2>1, <2>2, <2>6, <2>7
<1>22. ASSUME NEW e \in Events, NEW b \in CodelBilans, NEW i, i = exec[t].i,
              At(t, "codel") \/ At(t, "relock"),
              act' = [act EXCEPT ![i].evn = e, ![i].bilan = b]
       PROVE  /\ i \in Slots /\ act[i].task = t /\ act[i].status \in CodelStates
              /\ act'[i].evn = e
              /\ \A j \in Slots : j # i => act'[j] = act[j]
              /\ \A j \in Slots : act'[j].task = act[j].task /\ act'[j].status = act[j].status
  <2>1. i \in Slots /\ act[i].task = t /\ act[i].status \in CodelStates
    BY <1>22 DEF CodelOwned, InCodel, At
  <2> DEFINE new == [act[i] EXCEPT !.evn = e, !.bilan = b]
  <2>2. act' = [act EXCEPT ![i] = new]
    BY <1>0, <1>22, <2>1
  <2>3. new.evn = e /\ new.task = act[i].task /\ new.status = act[i].status
    BY <1>0, <2>1 DEF Activity
  <2> HIDE DEF new
  <2>4. act'[i] = new /\ \A j \in Slots : j # i => act'[j] = act[j]
    BY <1>0, <2>1, <2>2
  <2> QED
    BY <2>1, <2>3, <2>4
<1>23. ASSUME NEW e \in Events, NEW b \in CodelBilans, NEW W \in CodelWakeUps,
              ExecCodelReturn(t, e, b, W)
       PROVE  Fine
  <2> DEFINE i == exec[t].i
             s == act[i].status
             w == exec[t].wakeUpCntrl \/ e # s
             rec == [exec[t] EXCEPT !.pc = "loop", !.i = i + 1, !.wakeUpCntrl = w]
  <2>1. /\ At(t, "codel") \/ At(t, "relock")
        /\ suspending' = suspending /\ suspended' = suspended
        /\ act' = [act EXCEPT ![i].evn = e, ![i].bilan = b]
        /\ signal' = IF e = "SLEEP" THEN signal ELSE Signalled(Aperiodic({t}))
        /\ exec' = [exec EXCEPT ![t] = rec]
    BY <1>0, <1>23 DEF ExecCodelReturn
  <2>2. /\ i \in Slots /\ act[i].task = t /\ s \in CodelStates
        /\ act'[i].evn = e
        /\ \A j \in Slots : j # i => act'[j] = act[j]
        /\ \A j \in Slots : act'[j].task = act[j].task /\ act'[j].status = act[j].status
    BY <1>22, <2>1
  <2>3. /\ rec.pc = "loop" /\ rec.i = i + 1 /\ rec.nb = exec[t].nb
        /\ rec.nbActi = exec[t].nbActi /\ rec.wakeUpCntrl = w
    BY <1>0 DEF ExecRecords
  <2>4. exec[t].pc \in {"codel", "relock"} /\ ~Halted(t) /\ i \in Int
    BY <1>0, <2>1, <2>2 DEF At
  <2> HIDE DEF rec, i
  <2>5. exec'[t] = rec /\ \A p \in Tasks \ {t} : exec'[p] = exec[p]
    BY <1>0, <2>1
  <2>6. \A p \in Tasks \cup {Cntrl} : signal[p] => signal'[p]
    BY <1>6, <2>1
  <2>7. e # "SLEEP" /\ t \notin Periodic => signal'[t]
    BY <1>0, <1>6, <2>1 DEF Aperiodic
  <2>8. ASSUME TaskSound(t), cntrlPc # "rqst", e = "SLEEP" PROVE LoopSound(t)'
    <3>1. LoopSound(t)
      BY <2>4, <2>8 DEF TaskSound
    <3>2. Cardinality(From(t, i + 1)) <= exec'[t].nbActi - exec'[t].nb
      BY <2>3, <2>4, <2>5, <3>1 DEF LoopSound, i
    <3>3. ASSUME NEW j \in Slots, j < i + 1, act[j].task = t PROVE act'[j].evn \notin CodelStates
      <4>1. CASE j = i
        BY <2>2, <2>8, <4>1 DEF CodelStates
      <4>2. CASE j # i
        <5>1. j < i
          BY <1>0, <2>4, <3>3, <4>2
        <5> QED
          BY <2>2, <3>1, <3>3, <4>2, <5>1 DEF LoopSound, i
      <4> QED BY <4>1, <4>2
    <3>4. i + 1 \in Int /\ exec'[t].pc = "loop" /\ exec'[t].i = i + 1
      BY <2>3, <2>4, <2>5
    <3> QED
      BY <2>2, <3>2, <3>3, <3>4, LoopGoes
  <2>9. TaskSound(t) /\ e = "SLEEP" => TaskSound(t)'
    BY <1>3, <2>3, <2>5, <2>8 DEF TaskSound
  <2>10. t \notin Periodic => Woken(t)'
    BY <1>0, <1>9, <2>4, <2>6, <2>7, <2>9
  <2>11. Apart(t)
    BY <1>3, <1>4, <2>1, <2>2, <2>5, <2>6 DEF Apart
  <2>12. exec'[t].wakeUpCntrl <=> w
    BY <2>3, <2>5
  <2>13. e \in {"ETHER", "ZOMBIE", "SLEEP"} => w
    BY <2>2 DEF CodelStates
  <2>14. exec[t].wakeUpCntrl => w
    OBVIOUS
  <2> HIDE DEF w
  <2>15. Tells(t)
    <3>1. exec'[t].pc \in Looping
      BY <2>3, <2>5 DEF Looping
    <3>2. ASSUME NEW j \in Slots, act'[j].evn \in {"ETHER", "ZOMBIE", "SLEEP"},
                 act[j].evn \in {"ETHER", "ZOMBIE", "SLEEP"} => exec[t].wakeUpCntrl
          PROVE  exec'[t].wakeUpCntrl
      BY <2>2, <2>12, <2>13, <2>14, <3>2
    <3> QED
      BY <3>1, <3>2 DEF Tells, Looping
  <2> QED
    BY <2>10, <2>11, <2>15
<1>24. ASSUME NEW e \in Events, NEW b \in CodelBilans, ExecForbidden(t, e, b)
       PROVE  Fine
  <2> DEFINE i == exec[t].i
             rec == [exec[t] EXCEPT !.pc = "loop", !.i = i + 1]
  <2>1. /\ At(t, "codel") \/ At(t, "relock")
        /\ suspending' = suspending \cup {t} /\ suspended' = suspended
        /\ act' = [act EXCEPT ![i].evn = e, ![i].bilan = b]
        /\ signal' = Signalled({Cntrl})
        /\ exec' = [exec EXCEPT ![t] = rec]
    BY <1>0, <1>24 DEF ExecForbidden, Suspend
  <2>2. /\ i \in Slots /\ act[i].task = t /\ act[i].status \in CodelStates
        /\ act'[i].evn = e
        /\ \A j \in Slots : j # i => act'[j] = act[j]
        /\ \A j \in Slots : act'[j].task = act[j].task /\ act'[j].status = act[j].status
    BY <1>22, <2>1
  <2>3. rec.pc = "loop"
    BY <1>0 DEF ExecRecords
  <2> HIDE DEF rec, i
  <2>4. exec'[t] = rec /\ \A p \in Tasks \ {t} : exec'[p] = exec[p]
    BY <1>0, <2>1
  <2>5. signal'[Cntrl] /\ \A p \in Tasks \cup {Cntrl} : signal[p] => signal'[p]
    BY <1>0, <1>6, <2>1
  <2>6. TaskSound(t)'
    BY <2>1, <2>3, <2>4 DEF TaskSound
  <2>7. exec[t].pc # "dead"
    BY <2>1 DEF At
  <2>8. t \notin Periodic => Woken(t)'
    BY <1>0, <1>9, <2>5, <2>6, <2>7
  <2>9. Apart(t)
    BY <1>3, <1>4, <2>1, <2>2, <2>4, <2>5 DEF Apart
  <2>10. Tells(t)
    BY <2>3, <2>4, <2>5 DEF Tells
  <2> QED
    BY <2>8, <2>9, <2>10
<1>25. ASSUME NEW newBilan \in BOOLEAN, ExecEnd(t, newBilan) PROVE Fine
  <2> DEFINE S == {p \in Tasks : wakeUp[p]}
                    \cup (IF exec[t].wakeUpCntrl \/ newBilan THEN {Cntrl} ELSE {})
  <2>1. /\ act' = act /\ signal' = Signalled(S) /\ exec' = [exec EXCEPT ![t] = Idle]
        /\ suspending' = suspending /\ suspended' = suspended
        /\ \/ exec[t].pc = "loop" /\ ScanOver(t)
           \/ exec[t].pc = "end"
        /\ ~Halted(t)
    BY <1>25 DEF ExecEnd, At
  <2>2. exec[t].wakeUpCntrl => Cntrl \in S
    OBVIOUS
  <2> HIDE DEF S
  <2>3. /\ exec'[t].pc = "wait" /\ ~exec'[t].wakeUpCntrl
        /\ \A p \in Tasks \ {t} : exec'[p] = exec[p]
    BY <1>0, <2>1 DEF Idle
  <2>4. \A p \in Tasks \cup {Cntrl} : signal[p] \/ p \in S => signal'[p]
    BY <1>6, <2>1
  <2>5. ASSUME ~stopModule, TaskSound(t) PROVE TaskSound(t)'
    <3>1. exec[t].pc = "loop" /\ ScanOver(t)
      BY <2>1, <2>5 DEF LockInv
    <3>2. t \in Inside /\ (cntrlPc = "rqst" => Cntrl \in Inside)
      BY <2>1, <3>1 DEF Inside
    <3>3. cntrlPc # "rqst"
      BY <1>0, <2>5, <3>2 DEF LockInv
    <3>4. LoopSound(t)
      BY <2>1, <2>5, <3>1, <3>3 DEF TaskSound
    <3>5. exec[t].nb \in Int /\ exec[t].nbActi \in Int /\ exec[t].i \in Int
      BY <1>0, ConstantsAssumption DEF ExecRecords
    <3> DEFINE F == From(t, exec[t].i)
    <3>6. F \in SUBSET Slots
      BY DEF From
    <3>7. IsFiniteSet(F) /\ Cardinality(F) \in Nat
      BY <3>6, SlotsFinite
    <3>8. Cardinality(F) <= exec[t].nbActi - exec[t].nb
      BY <3>1, <3>4 DEF LoopSound
    <3>9. F = {}
      <4>1. CASE exec[t].nb >= exec[t].nbActi
        <5> HIDE DEF F
        <5>1. Cardinality(F) = 0
          BY <3>5, <3>7, <3>8, <4>1
        <5> QED
          BY <3>7, <5>1, FS_EmptySet
      <4>2. CASE \A j \in Slots : j >= exec[t].i => act[j].task # t
        BY <4>2 DEF From
      <4> QED
        BY <3>1, <4>1, <4>2 DEF ScanOver
    <3>10. ASSUME NEW j \in Slots, act[j].task = t PROVE act[j].evn \notin CodelStates
      <4>1. ~(j >= exec[t].i)
        BY <3>9, <3>10 DEF From
      <4>2. j < exec[t].i
        BY <1>0, <3>5, <4>1
      <4> QED
        BY <3>4, <3>10, <4>2 DEF LoopSound
    <3> QED
      BY <2>1, <2>3, <3>10 DEF TaskSound
  <2>6. t \notin Periodic => Woken(t)'
    BY <1>0, <1>9, <2>1, <2>4, <2>5
  <2>7. Apart(t)
    BY <1>7, <2>1, <2>3, <2>4
  <2>8. Tells(t)
    BY <1>0, <1>8, <2>1, <2>2, <2>3, <2>4
  <2> QED
    BY <2>6, <2>7, <2>8
<1> HIDE DEF Fine
<1>26. Fine
  BY <1>11, <1>12, <1>13, <1>14, <1>15, <1>16, <1>19, <1>20, <1>21, <1>23, <1>24, <1>25
     DEF ExecStep, ExecWait, ExecEnter, ExecRun, ExecTakeError, ExecEndError, At
<1> QED
  BY <1>26 DEF Fine

\* The steps of every task keep the events seen.
LEMMA NextWakes ==
  ASSUME Inv, LockInv, CountersExact, NoResume, TasksGiven, TasksWoken, CntrlWoken, [Next]_vars
  PROVE  TasksGiven' /\ TasksWoken' /\ CntrlWoken'
<1>1. ASSUME NEW t \in Tasks, ExecStep(t), UNCHANGED cntrlVars
      PROVE  TasksGiven' /\ TasksWoken' /\ CntrlWoken'
  BY <1>1, ExecWakes, ApartKeeps
<1>2. ASSUME \/ CntrlStep
             \/ ClientSend
             \/ \E t \in Tasks : ExternalEvent(t)
             \/ SignalHandler
             \/ UNCHANGED vars,
             exec' = exec
      PROVE  TasksGiven' /\ TasksWoken' /\ CntrlWoken'
  <2>1. Tends
    BY <1>2, CntrlTends
  <2>2. TypeOK /\ \A i \in Slots : Tended(i)
    BY <2>1 DEF Tends, Inv
  <2> QED
    BY <1>2, <2>1, <2>2, TendedGiven, TendedWoken, TendedCntrl
<1> QED
  BY <1>1, <1>2 DEF Next, Module, ClientSend, ExternalEvent, vars

LEMMA InitWoken == Init => TasksGiven /\ TasksWoken /\ CntrlWoken
<1> SUFFICES ASSUME Init PROVE TasksGiven /\ TasksWoken /\ CntrlWoken
  OBVIOUS
<1>1. \A i \in Slots : /\ act[i].status = "ETHER" /\ act[i].evn = "NO_EVENT"
                       /\ act[i].task = NoTask
  BY DEF Init, InitSDI
<1>2. /\ ~stopModule /\ cntrlPc = "susp" /\ nbRcvd = nbSent /\ signal[Cntrl]
      /\ \A t \in Tasks : exec[t].pc = "wait" /\ ~exec[t].wakeUpCntrl
  BY DEF Init, InitSDI, InitCntrl, InitExec, Idle
<1>3. TasksWoken
  BY <1>1, <1>2 DEF TasksWoken, TaskSound, CodelStates
<1> QED
  BY <1>1, <1>2, <1>3 DEF TasksGiven, CntrlWoken

\* What the tasks leave behind them while they loop is seen: by the events they
\* signal, or by the task itself before it sleeps.
THEOREM WakeInvariant ==
  NoResume => (Spec => [](BooksInv /\ LockInv /\ TasksGiven /\ TasksWoken /\ CntrlWoken))
<1> SUFFICES ASSUME NoResume
             PROVE  Spec => [](BooksInv /\ LockInv /\ TasksGiven /\ TasksWoken /\ CntrlWoken)
  OBVIOUS
<1>1. Init => BooksInv /\ LockInv /\ TasksGiven /\ TasksWoken /\ CntrlWoken
  BY InitBooks, InitLock, InitWoken
<1>2. BooksInv /\ LockInv /\ TasksGiven /\ TasksWoken /\ CntrlWoken /\ [Next]_vars
        => BooksInv' /\ LockInv' /\ TasksGiven' /\ TasksWoken' /\ CntrlWoken'
  <2> SUFFICES ASSUME BooksInv, LockInv, TasksGiven, TasksWoken, CntrlWoken, [Next]_vars
               PROVE  BooksInv' /\ LockInv' /\ TasksGiven' /\ TasksWoken' /\ CntrlWoken'
    OBVIOUS
  <2>1. Inv /\ CountersExact
    BY DEF BooksInv
  <2>2. BooksInv'
    BY NextKeepsBooksInv
  <2>3. LockInv'
    BY <2>1, NextKeepsLock
  <2>4. TasksGiven' /\ TasksWoken' /\ CntrlWoken'
    BY <2>1, NextWakes
  <2> QED
    BY <2>2, <2>3, <2>4
<1> QED
  BY <1>1, <1>2, PTL DEF Spec

\* h2evnSignal and h2evnSusp: work is never left to a task that sleeps without
\* an event, an event on a slot for an execution task, a letter or an event of an
\* activity for the control task, with any tasks, activities and codels, as long
\* as no suspended task is resumed.
THEOREM NoLostWakeUpHolds == NoResume => (Spec => []NoLostWakeUp)
<1> SUFFICES ASSUME NoResume PROVE Spec => []NoLostWakeUp
  OBVIOUS
<1>1. BooksInv /\ LockInv /\ TasksGiven /\ TasksWoken /\ CntrlWoken => NoLostWakeUp
  BY DEF TasksWoken, TaskSound, CntrlWoken, NoLostWakeUp
<1> QED
  BY <1>1, WakeInvariant, PTL

=============================================================================
