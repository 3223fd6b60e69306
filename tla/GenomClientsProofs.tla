-------------------------- MODULE GenomClientsProofs --------------------------
(***************************************************************************)
(* What GenomClients checks on two slots and three requests, proved for    *)
(* any number of each: the table of the test program agrees with csLib,    *)
(* the library reports what the module answered, the init program does not *)
(* lie, and the module is suspended only by a client that left.            *)
(***************************************************************************)
EXTENDS GenomClients, FiniteSetTheorems, TLAPS

\* An exchange has its final reply when the module answered it, and its client
\* gives its id back after that only.
ExchSound ==
  \A i \in DOMAIN exch :
    /\ exch[i].final = "none" <=> exch[i].stage # "answered"
    /\ exch[i].open \/ exch[i].stage = "answered"

\* i is the id of a request of c, whose replies are not all read.
Owned(i, c) == i \in DOMAIN exch /\ exch[i].client = c /\ exch[i].open

\* Where the test program waits, its slot is on; a slot that is on holds the id
\* of a request of the test program whose replies are not all read, no two the
\* same.
SlotsOwned ==
  /\ \A a \in OnSlots : /\ Owned(slot[a].id, Tester)
                        /\ exch[slot[a].id].rqst = slot[a].rqst
  /\ \A a, b \in OnSlots : slot[a].id = slot[b].id => a = b

TestSound ==
  /\ SlotsOwned
  /\ test.pc \in {"call", "confirm"} => test.acti \in Acti /\ test.rqst \in DOMAIN Getter
  /\ Silent => /\ test.pc \in {"call", "confirm", "interm", "final", "poll"}
               /\ test.outer \in DOMAIN Getter
  /\ test.pc \in {"interm", "final", "poll"} => test.acti \in OnSlots
  /\ At("replies") => test.acti \in 1 .. NbSlots + 1
  /\ At("abort") => /\ Owned(test.id, Tester)
                    /\ \A a \in OnSlots : slot[a].id # test.id

\* The input of a request is fetched with a control request, which answers once.
FetchByCntrl == \A r \in DOMAIN Getter : Getter[r] \in CntrlRqsts \cup {None}

\* Then the slot of a request is off until it is sent, the program counts the
\* slots that are on, and no request is without its slot.
PathSound ==
  /\ test.pc # "poll"
  /\ test.pc \in {"call", "confirm"} => test.acti \notin OnSlots
  /\ Silent => test.pc # "interm" /\ test.rqst \in CntrlRqsts

NoneLost ==
  \A i \in DOMAIN exch : Owned(i, Tester) =>
    (\E a \in OnSlots : slot[a].id = i) \/ (At("abort") /\ test.id = i)

\* The intermediate reply of an execution request was read, or the final one is
\* there, unless the program waits for it: a poll cannot find it missing.
Acked(i) ==
  exch[i].rqst \notin ExecRqsts \/ exch[i].stage = "answered" \/ exch[i].ack # "none"

AckedSound ==
  \A a \in OnSlots : (At("interm") /\ test.acti = a) \/ Acked(slot[a].id)

TableSound ==
  PathSound /\ NoneLost /\ AckedSound /\ nbRqstOn = Cardinality(OnSlots)

\* A function of the library that waits has its request; one that gave the final
\* report gave that of the module.
CallerSound(c) ==
  /\ lib[c].pc \in {"interm", "final"} => Owned(lib[c].id, c)
  /\ lib[c].pc = "interm" /\ c \in Servs => lib[c].fn = "RqstAndAck"
  /\ lib[c].pc = "idle" /\ lib[c].status \in {"FINAL_REPLY_OK", "TERM"} =>
       /\ lib[c].id \in DOMAIN exch
       /\ exch[lib[c].id].stage = "answered"
       /\ \/ lib[c].bilan = exch[lib[c].id].final
          \/ /\ c \in Programs /\ lib[c].fn # "RqstAndRcv"
             /\ IsAbort(c) /\ exch[lib[c].id].final = "OK"

LibSound == \A c \in Callers : CallerSound(c)

\* The init program: its status is that of the first reply it read.
InitSound ==
  /\ init.pc \in {"interm", "final"} => Owned(init.id, Initer)
  /\ init.pc = "final" => init.status # "FINAL_REPLY_OK"
  /\ init.pc = "end" =>
       /\ init.id \in DOMAIN exch
       /\ init.status = "FINAL_REPLY_OK" /\ init.errno = "OK" =>
            exch[init.id].final = "OK"
  /\ init.ret = "OK" => /\ init.pc = "over" /\ init.id \in DOMAIN exch
                        /\ exch[init.id].final = "OK"

\* TypeTest without the bound on nbRqstOn, which needs the rest.
SlotRecord == [on : BOOLEAN, rqst : Requests \cup {None}, id : 0 .. MaxSent]
TestRecord == [pc    : {"menu", "call", "confirm", "interm", "final", "poll",
                        "replies", "abort", "exited"},
               acti  : 0 .. NbSlots + 1,
               rqst  : Requests \cup {None},
               outer : Requests \cup {None},
               id    : 0 .. MaxSent,
               wait  : BOOLEAN]

TypeSlots == slot \in [Acti -> SlotRecord] /\ test \in TestRecord

ClientsInv ==
  /\ TypeCs /\ TypeSlots /\ TypeLib
  /\ ExchSound /\ TestSound /\ LibSound /\ InitSound /\ SuspendedByLeaver

-----------------------------------------------------------------------------
(* The exchanges *)

\* What a step of the clients C, or of the module, leaves of the exchanges: their
\* clients and requests, the answers, and the ids of the other clients.
Undisturbed(C) ==
  /\ DOMAIN exch \subseteq DOMAIN exch'
  /\ \A i \in DOMAIN exch :
       /\ exch'[i].client = exch[i].client /\ exch'[i].rqst = exch[i].rqst
       /\ exch[i].stage = "answered" =>
            exch'[i].stage = "answered" /\ exch'[i].final = exch[i].final
       /\ exch[i].ack # "none" => exch'[i].ack # "none"
       /\ exch[i].client \notin C => exch'[i].open = exch[i].open
  /\ \A i \in DOMAIN exch' \ DOMAIN exch : exch'[i].client \in C

\* What a step of the client c leaves to the others.
Polite(c) ==
  /\ TypeCs' /\ ExchSound'
  /\ server' = server /\ alive' \subseteq alive
  /\ Undisturbed({c})
  /\ \A i \in DOMAIN exch : exch'[i].stage = exch[i].stage

\* A request is in the mailbox, under an id no request had.
Added(c, r) ==
  /\ NewId \in 1 .. MaxSent /\ NewId \notin DOMAIN exch
  /\ DOMAIN exch' = DOMAIN exch \cup {NewId}
  /\ \A i \in DOMAIN exch : exch'[i] = exch[i]
  /\ exch'[NewId].client = c /\ exch'[NewId].rqst = r /\ exch'[NewId].open

\* The replies of i are read, its id is free after the last one.
ReadOf(i, status) ==
  /\ DOMAIN exch' = DOMAIN exch
  /\ \A j \in DOMAIN exch \ {i} : exch'[j] = exch[j]
  /\ exch'[i].client = exch[i].client /\ exch'[i].rqst = exch[i].rqst
  /\ exch'[i].final = exch[i].final /\ exch'[i].stage = exch[i].stage
  /\ exch[i].ack # "none" => exch'[i].ack # "none"
  /\ exch'[i].open <=> status \in Unfinished
  /\ status \notin Unfinished => exch[i].stage = "answered"

\* A final status is that of the final reply.
LEMMA StatusIsOfReply ==
  ASSUME NEW e \in Exchange, NEW block, NEW status \in ReplyStatus(e, block),
         status \notin Unfinished
  PROVE  /\ e.final # "none"
         /\ status = "FINAL_REPLY_OK" \/ status = "ERROR"
         /\ status = "FINAL_REPLY_OK" => e.final = "OK"
BY DEF Exchange, ReplyStatus, FinalStatus, Unfinished

LEMMA ExchAt ==
  ASSUME TypeCs, NEW i \in DOMAIN exch
  PROVE  exch[i] \in Exchange /\ i \in 1 .. MaxSent
BY CsAssumption DEF TypeCs

LEMMA SendPolite ==
  ASSUME TypeCs, ExchSound, NEW c \in Clients, NEW r \in Requests,
         csClientRqstSend(c, r), UNCHANGED <<server, alive>>
  PROVE  Polite(c) /\ Added(c, r)
<1> DEFINE e == [client |-> c, rqst |-> r, stage |-> "queued", ack |-> "none",
                 final |-> "none", open |-> TRUE]
<1>1. e \in Exchange
  BY DEF Exchange, Bilans
<1>2. exch \in Seq(Exchange) /\ exch' = Append(exch, e) /\ Len(exch) < MaxSent
  BY DEF TypeCs, csClientRqstSend
<1>3. e.client = c /\ e.rqst = r /\ e.stage = "queued" /\ e.final = "none" /\ e.open
  OBVIOUS
<1> HIDE DEF e
<1>4. /\ exch' \in Seq(Exchange) /\ Len(exch') = Len(exch) + 1
      /\ DOMAIN exch = 1 .. Len(exch) /\ DOMAIN exch' = 1 .. Len(exch) + 1
      /\ \A i \in DOMAIN exch : exch'[i] = exch[i]
      /\ exch'[Len(exch) + 1] = e
      /\ Len(exch) \in Nat
  BY <1>1, <1>2
<1>5. TypeCs'
  BY <1>2, <1>4, CsAssumption DEF TypeCs
<1>6. Added(c, r)
  BY <1>2, <1>3, <1>4, CsAssumption DEF Added, NewId
<1>7. \A i \in DOMAIN exch' : i \in DOMAIN exch \/ i = NewId
  BY <1>6 DEF Added
<1>8. ExchSound'
  BY <1>3, <1>4, <1>7 DEF ExchSound, NewId
<1>9. Undisturbed({c}) /\ \A i \in DOMAIN exch : exch'[i].stage = exch[i].stage
  BY <1>4, <1>6, <1>7 DEF Added, Undisturbed
<1> QED
  BY <1>5, <1>6, <1>8, <1>9 DEF Polite

LEMMA ReadPolite ==
  ASSUME TypeCs, ExchSound, NEW c, NEW i, Owned(i, c),
         NEW block, NEW status \in ReplyStatus(exch[i], block),
         csClientReplyRcv(i, status), server' = server, alive' \subseteq alive
  PROVE  Polite(c) /\ ReadOf(i, status)
<1>1. i \in DOMAIN exch /\ exch[i] \in Exchange /\ exch[i].client = c
  BY ExchAt DEF Owned
<1>2. exch \in Seq(Exchange) /\ Len(exch) <= MaxSent
  BY DEF TypeCs
<1> DEFINE new == [exch[i] EXCEPT !.open = status \in Unfinished,
                                  !.ack = IF @ = "sent" THEN "read" ELSE @]
<1>3. exch' = [exch EXCEPT ![i] = new]
  BY <1>1, <1>2 DEF csClientReplyRcv, Exchange
<1>4. (status \in Unfinished) = TRUE \/ (status \in Unfinished) = FALSE
  OBVIOUS
<1>5. /\ new \in Exchange /\ new.client = exch[i].client /\ new.rqst = exch[i].rqst
      /\ new.final = exch[i].final /\ new.stage = exch[i].stage
      /\ exch[i].ack # "none" => new.ack # "none"
      /\ new.open <=> status \in Unfinished
  BY <1>1, <1>4 DEF Exchange
<1> HIDE DEF new
<1>6. /\ exch' \in Seq(Exchange) /\ Len(exch') = Len(exch) /\ DOMAIN exch' = DOMAIN exch
      /\ \A j \in DOMAIN exch \ {i} : exch'[j] = exch[j]
      /\ exch'[i] = new
  BY <1>1, <1>2, <1>3, <1>5
<1>7. TypeCs'
  BY <1>2, <1>6 DEF TypeCs
<1>8. status \notin Unfinished => exch[i].stage = "answered"
  BY <1>1, StatusIsOfReply DEF ExchSound
<1>9. ReadOf(i, status)
  BY <1>5, <1>6, <1>8 DEF ReadOf
<1>10. ExchSound'
  BY <1>1, <1>9 DEF ReadOf, ExchSound
<1>11. Undisturbed({c}) /\ \A j \in DOMAIN exch : exch'[j].stage = exch[j].stage
  BY <1>1, <1>9 DEF ReadOf, Undisturbed
<1> QED
  BY <1>7, <1>9, <1>10, <1>11 DEF Polite

LEMMA StillPolite ==
  ASSUME TypeCs, ExchSound, NEW c, UNCHANGED exch, server' = server, alive' \subseteq alive
  PROVE  Polite(c)
BY DEF TypeCs, ExchSound, Polite, Undisturbed

\* The module answers requests that were not, suspends itself when the client of
\* one is gone.
LEMMA ServerUndisturbing ==
  ASSUME TypeCs, ExchSound, SuspendedByLeaver, NEW i \in DOMAIN exch, ServerStep(i)
  PROVE  TypeCs' /\ ExchSound' /\ SuspendedByLeaver' /\ Undisturbed({})
<1>1. exch \in Seq(Exchange) /\ Len(exch) <= MaxSent /\ exch[i] \in Exchange
  BY ExchAt DEF TypeCs
<1>2. alive' = alive /\ server = "up"
  BY DEF ServerStep, ServeCntrl, ServeExec, Launch, Finish, ServeEnd
<1>3. exch[i].stage \in {"queued", "waiting", "running"}
  BY DEF ServerStep, ServeCntrl, ServeExec, Launch, Finish, ServeEnd, IsHead, Queue, Active
<1> DEFINE Moved ==
       \E stage \in {"waiting", "running", "answered"}, final \in Bilans \cup {"none"},
          ack \in {exch[i].ack, "sent"} :
         /\ stage = "answered" <=> final # "none"
         /\ exch' = [exch EXCEPT ![i] = [@ EXCEPT !.stage = stage, !.final = final, !.ack = ack]]
           Told == server' = IF exch[i].client \in alive THEN server ELSE "suspended"
<1>4. \A bilan \in Bilans : Answer(i, bilan) => Moved /\ Told
  <2> SUFFICES ASSUME NEW bilan \in Bilans, Answer(i, bilan) PROVE Moved /\ Told
    OBVIOUS
  <2>1. bilan # "none"
    BY CsAssumption DEF Bilans
  <2>2. exch' = [exch EXCEPT ![i] = [@ EXCEPT !.stage = "answered", !.final = bilan,
                                              !.ack = exch[i].ack]]
    BY <1>1 DEF Answer, Exchange
  <2>3. Moved
    BY <1>1, <2>1, <2>2 DEF Exchange
  <2> QED
    BY <2>3 DEF Answer, csServReplySend
<1>4a. exch[i].final = "none"
  BY <1>3 DEF ExchSound
<1>5. Moved /\ (Told \/ server' \in {server, "ended"})
  <2>1. CASE ServeCntrl(i)
    BY <1>4, <2>1 DEF ServeCntrl
  <2>2. CASE ServeExec(i)
    <3>1. CASE \E bilan \in Errors : Answer(i, bilan)
      BY <1>4, <3>1 DEF Bilans
    <3>2. CASE exch' = [exch EXCEPT ![i].stage = "waiting"] /\ UNCHANGED server
      <4>1. exch' = [exch EXCEPT ![i] = [@ EXCEPT !.stage = "waiting", !.final = "none",
                                                  !.ack = exch[i].ack]]
        BY <1>1, <1>4a, <3>2 DEF Exchange
      <4> QED
        BY <3>2, <4>1
    <3> QED
      BY <2>2, <3>1, <3>2 DEF ServeExec
  <2>3. CASE Launch(i)
    <3>1. exch' = [exch EXCEPT ![i].stage = "running", ![i].ack = "sent"]
      BY <2>3 DEF Launch
    <3>2. exch' = [exch EXCEPT ![i] = [@ EXCEPT !.stage = "running", !.final = "none",
                                                !.ack = "sent"]]
      BY <1>1, <1>4a, <3>1 DEF Exchange
    <3> QED
      BY <2>3, <3>2 DEF Launch, csServReplySend
  <2>4. CASE Finish(i)
    BY <1>4, <2>4 DEF Finish
  <2>5. CASE ServeEnd(i)
    <3>1. CASE \E bilan \in Errors : Answer(i, bilan)
      BY <1>4, <3>1 DEF Bilans
    <3>2. CASE /\ server' = "ended"
               /\ exch' = [exch EXCEPT ![i].stage = "answered", ![i].final = "OK"]
      <4>1. exch' = [exch EXCEPT ![i] = [@ EXCEPT !.stage = "answered", !.final = "OK",
                                                  !.ack = exch[i].ack]]
        BY <1>1, <3>2 DEF Exchange
      <4>2. "OK" \in Bilans /\ "OK" # "none"
        BY DEF Bilans
      <4> QED
        BY <1>1, <3>2, <4>1, <4>2
    <3> QED
      BY <2>5, <3>1, <3>2 DEF ServeEnd
  <2> QED
    BY <2>1, <2>2, <2>3, <2>4, <2>5 DEF ServerStep
<1>6. CASE Moved
  <2>1. PICK stage \in {"waiting", "running", "answered"}, final \in Bilans \cup {"none"},
             ack \in {exch[i].ack, "sent"} :
          /\ stage = "answered" <=> final # "none"
          /\ exch' = [exch EXCEPT ![i] = [@ EXCEPT !.stage = stage, !.final = final, !.ack = ack]]
    BY <1>6
  <2> DEFINE new == [exch[i] EXCEPT !.stage = stage, !.final = final, !.ack = ack]
  <2>2. /\ new \in Exchange /\ new.client = exch[i].client /\ new.rqst = exch[i].rqst
        /\ new.open = exch[i].open /\ new.stage = stage /\ new.final = final
        /\ exch[i].ack # "none" => new.ack # "none"
    BY <1>1 DEF Exchange
  <2>3. exch' = [exch EXCEPT ![i] = new]
    BY <2>1
  <2> HIDE DEF new
  <2>4. /\ exch' \in Seq(Exchange) /\ Len(exch') = Len(exch) /\ DOMAIN exch' = DOMAIN exch
        /\ \A j \in DOMAIN exch \ {i} : exch'[j] = exch[j]
        /\ exch'[i] = new
    BY <1>1, <2>2, <2>3
  <2>5. server' \in {"up", "suspended", "ended"}
    BY <1>2, <1>5
  <2>6. TypeCs'
    BY <1>1, <1>2, <2>4, <2>5 DEF TypeCs
  <2>7. exch[i].open
    BY <1>3 DEF ExchSound
  <2>8. ExchSound'
    BY <2>1, <2>2, <2>4, <2>7 DEF ExchSound
  <2>9. Undisturbed({})
    BY <1>3, <2>2, <2>4 DEF Undisturbed
  <2>10. SuspendedByLeaver'
    <3> SUFFICES ASSUME server' = "suspended"
                 PROVE  /\ exch'[i].client \notin alive' /\ exch'[i].open
                        /\ exch'[i].stage # "queued" /\ i \in DOMAIN exch'
      BY DEF SuspendedByLeaver
    <3>1. exch[i].client \notin alive
      BY <1>2, <1>5
    <3>2. exch'[i] = new /\ i \in DOMAIN exch'
      BY <2>4
    <3>3. new.client \notin alive'
      BY <1>2, <2>2, <3>1
    <3>4. new.open /\ new.stage # "queued"
      BY <2>2, <2>7
    <3> QED
      BY <3>2, <3>3, <3>4
  <2> QED
    BY <2>6, <2>8, <2>9, <2>10
<1> QED
  BY <1>5, <1>6

-----------------------------------------------------------------------------
(* What a step of the one leaves to the other *)

LEMMA OwnedKept ==
  ASSUME NEW C, Undisturbed(C), NEW c, c \notin C, NEW i, Owned(i, c)
  PROVE  Owned(i, c)'
BY DEF Undisturbed, Owned

LEMMA TestKept ==
  ASSUME TypeSlots, TestSound, NEW C, Undisturbed(C), Tester \notin C, UNCHANGED testVars
  PROVE  TypeSlots' /\ TestSound'
<1>1. slot' = slot /\ test' = test
  BY DEF testVars
<1>2. TypeSlots'
  BY <1>1 DEF TypeSlots
<1>3. OnSlots' = OnSlots
  BY <1>1 DEF OnSlots
<1>4. \A i \in DOMAIN exch :
         exch[i].client = Tester =>
           /\ i \in DOMAIN exch' /\ exch'[i].client = Tester
           /\ exch'[i].open = exch[i].open /\ exch'[i].rqst = exch[i].rqst
  BY DEF Undisturbed
<1>5. \A a \in OnSlots : /\ slot[a].id \in DOMAIN exch'
                         /\ exch'[slot[a].id].client = Tester /\ exch'[slot[a].id].open
                         /\ exch'[slot[a].id].rqst = slot[a].rqst
  BY <1>4 DEF TestSound, SlotsOwned, Owned
<1>6. At("abort") => /\ test.id \in DOMAIN exch'
                     /\ exch'[test.id].client = Tester /\ exch'[test.id].open
  BY <1>4 DEF TestSound, Owned
<1> QED
  BY <1>1, <1>2, <1>3, <1>5, <1>6 DEF TestSound, SlotsOwned, At, Silent, Owned

LEMMA CallerKept ==
  ASSUME NEW C, Undisturbed(C), NEW c, c \notin C, lib'[c] = lib[c], CallerSound(c)
  PROVE  CallerSound(c)'
BY DEF CallerSound, Owned, Undisturbed, IsAbort

LEMMA LibKept ==
  ASSUME NEW C, Undisturbed(C), C \cap Callers = {}, lib' = lib, TypeCs, LibSound
  PROVE  LibSound'
BY CallerKept DEF LibSound

LEMMA InitKept ==
  ASSUME NEW C, Undisturbed(C), Initer \notin C, init' = init, ExchSound, InitSound
  PROVE  InitSound'
<1>1. \A i \in DOMAIN exch : i \in DOMAIN exch'
  BY DEF Undisturbed
<1>2. \A i \in DOMAIN exch : exch[i].final = "OK" => exch'[i].final = "OK"
  BY DEF Undisturbed, ExchSound
<1>3. \A i : Owned(i, Initer) => Owned(i, Initer)'
  BY OwnedKept
<1>4. init.pc \in {"interm", "final"} => Owned(init.id, Initer)'
  BY <1>3 DEF InitSound
<1> QED
  BY <1>1, <1>2, <1>4 DEF InitSound, Owned

\* The one who left is not one who moves.
LEMMA SuspendedKept ==
  ASSUME NEW c \in alive, Polite(c), SuspendedByLeaver
  PROVE  SuspendedByLeaver'
<1> SUFFICES ASSUME server = "suspended" PROVE SuspendedByLeaver'
  BY DEF Polite, SuspendedByLeaver
<1>1. PICK i \in DOMAIN exch : /\ exch[i].client \notin alive /\ exch[i].open
                               /\ exch[i].stage # "queued"
  BY DEF SuspendedByLeaver
<1>2. /\ i \in DOMAIN exch' /\ exch'[i].client = exch[i].client
      /\ exch'[i].open = exch[i].open /\ exch'[i].stage = exch[i].stage
      /\ alive' \subseteq alive
  BY <1>1 DEF Polite, Undisturbed
<1> QED
  BY <1>1, <1>2 DEF SuspendedByLeaver

-----------------------------------------------------------------------------
(* The library *)

CallerRecord ==
  [pc     : {"idle", "interm", "final", "over"},
   id     : 0 .. MaxSent,
   fn     : {"none", "RqstSend", "RqstAndAck", "RqstAndRcv"},
   status : {"none", "OK", "SENT", "ACK", "TERM", "ERROR"}
              \cup Unfinished \cup {"FINAL_REPLY_OK"},
   bilan  : Bilans \cup OsErrors]

InitRecord ==
  [pc : {"send", "interm", "final", "end", "over"}, id : 0 .. MaxSent,
   status : {"none", "FINAL_REPLY_OK", "WAITING_FINAL_REPLY", "ERROR"},
   errno : Bilans \cup OsErrors, ret : {"none", "OK", "ERROR"}]

LEMMA LibRecords == TypeLib <=> lib \in [Callers -> CallerRecord] /\ init \in InitRecord
BY DEF TypeLib, CallerRecord, InitRecord

\* A step of the caller c of the library.
LibGoal(c) ==
  /\ Polite(c) /\ CallerSound(c)'
  /\ init' = init
  /\ lib' \in [Callers -> CallerRecord]
  /\ \A d \in Callers \ {c} : lib'[d] = lib[d]

\* A caller is sound when it does not wait, and did not just get a final report.
LEMMA CallerChange ==
  ASSUME lib \in [Callers -> CallerRecord], NEW c \in Callers, NEW new \in CallerRecord,
         lib' = [lib EXCEPT ![c] = new]
  PROVE  /\ lib' \in [Callers -> CallerRecord] /\ lib'[c] = new
         /\ \A d \in Callers \ {c} : lib'[d] = lib[d]
OBVIOUS

LEMMA SendSound ==
  ASSUME ClientsInv, NEW c \in Callers, NEW r \in Requests,
         NEW fn \in {"RqstSend", "RqstAndAck", "RqstAndRcv"}, Send(c, r, fn)
  PROVE  LibGoal(c)
<1>1. /\ TypeCs /\ ExchSound /\ CallerSound(c) /\ c \in Clients
      /\ lib \in [Callers -> CallerRecord] /\ lib[c] \in CallerRecord
  BY LibAssumption, LibRecords DEF ClientsInv, LibSound, Callers
<1>2. init' = init /\ UNCHANGED <<server, alive>> /\ lib[c].pc = "idle"
  BY DEF Send
<1>3. CASE /\ csClientRqstSend(c, r)
           /\ \E pc \in {"interm", "final"}, status \in {"SENT", "OK"} :
                /\ pc = "interm" /\ c \in Servs => fn = "RqstAndAck"
                /\ lib' = [lib EXCEPT ![c] = [@ EXCEPT !.pc = pc, !.id = NewId, !.fn = fn,
                                                       !.status = status]]
  <2>1. Polite(c) /\ Added(c, r)
    BY <1>1, <1>2, <1>3, SendPolite
  <2>2. PICK pc \in {"interm", "final"}, status \in {"SENT", "OK"} :
           /\ pc = "interm" /\ c \in Servs => fn = "RqstAndAck"
           /\ lib' = [lib EXCEPT ![c] = [@ EXCEPT !.pc = pc, !.id = NewId, !.fn = fn,
                                                  !.status = status]]
    BY <1>3
  <2> DEFINE new == [lib[c] EXCEPT !.pc = pc, !.id = NewId, !.fn = fn, !.status = status]
  <2>3. new \in CallerRecord /\ new.pc = pc /\ new.id = NewId /\ new.fn = fn
    <3>1. NewId \in 0 .. MaxSent
      BY <2>1, CsAssumption DEF Added
    <3> QED
      BY <1>1, <3>1 DEF CallerRecord
  <2>4. lib' = [lib EXCEPT ![c] = new]
    BY <2>2
  <2> HIDE DEF new
  <2>5. /\ lib' \in [Callers -> CallerRecord] /\ lib'[c] = new
        /\ \A d \in Callers \ {c} : lib'[d] = lib[d]
    BY <1>1, <2>3, <2>4, CallerChange
  <2>6. CallerSound(c)'
    BY <2>1, <2>2, <2>3, <2>5 DEF Added, CallerSound, Owned
  <2> QED
    BY <1>2, <2>1, <2>5, <2>6 DEF LibGoal
<1>4. CASE /\ UNCHANGED exch
           /\ \E bilan \in Bilans \cup OsErrors :
                lib' = [lib EXCEPT ![c] = [@ EXCEPT !.status = "ERROR", !.bilan = bilan]]
  <2>1. Polite(c)
    BY <1>1, <1>2, <1>4, StillPolite
  <2>2. PICK bilan \in Bilans \cup OsErrors :
           lib' = [lib EXCEPT ![c] = [@ EXCEPT !.status = "ERROR", !.bilan = bilan]]
    BY <1>4
  <2> DEFINE new == [lib[c] EXCEPT !.status = "ERROR", !.bilan = bilan]
  <2>3. new \in CallerRecord /\ new.pc = "idle" /\ new.status = "ERROR"
    BY <1>1, <1>2 DEF CallerRecord
  <2>4. lib' = [lib EXCEPT ![c] = new]
    BY <2>2
  <2> HIDE DEF new
  <2>5. /\ lib' \in [Callers -> CallerRecord] /\ lib'[c] = new
        /\ \A d \in Callers \ {c} : lib'[d] = lib[d]
    BY <1>1, <2>3, <2>4, CallerChange
  <2>6. CallerSound(c)'
    BY <2>3, <2>5 DEF CallerSound
  <2> QED
    BY <1>2, <2>1, <2>5, <2>6 DEF LibGoal
<1>5. CASE ~ csClientRqstSend(c, r)
  <2>1. PICK e \in OsErrors :
           lib' = [lib EXCEPT ![c].status = "ERROR",
                ![c].bilan = IF fn = "RqstSend" \/ c \in Servs THEN @ ELSE e]
    BY <1>5 DEF Send
  <2> DEFINE bilan == IF fn = "RqstSend" \/ c \in Servs THEN lib[c].bilan ELSE e
  <2>2. lib' = [lib EXCEPT ![c] = [@ EXCEPT !.status = "ERROR", !.bilan = bilan]]
    BY <1>1, <2>1 DEF CallerRecord
  <2>3. bilan \in Bilans \cup OsErrors
    BY <1>1 DEF CallerRecord
  <2> QED
    BY <1>4, <1>5, <2>2, <2>3 DEF Send
<1>6. CASE csClientRqstSend(c, r) /\ ~ SendError
  <2> DEFINE pc == CASE fn = "RqstSend"   -> "final"
                     [] fn = "RqstAndAck" -> "interm"
                     [] fn = "RqstAndRcv" ->
                          IF r \in ExecRqsts /\ c \notin Servs THEN "interm" ELSE "final"
             status == IF c \in Scripts THEN "SENT" ELSE "OK"
  <2>1. lib' = [lib EXCEPT ![c] = [@ EXCEPT !.pc = pc, !.id = NewId, !.fn = fn,
                                            !.status = status]]
    BY <1>6 DEF Send
  <2>2. /\ pc \in {"interm", "final"} /\ status \in {"SENT", "OK"}
        /\ pc = "interm" /\ c \in Servs => fn = "RqstAndAck"
    OBVIOUS
  <2> HIDE DEF pc, status
  <2> QED
    BY <1>3, <1>6, <2>1, <2>2
<1>7. csClientRqstSend(c, r) => ~ SendError
  BY DEF csClientRqstSend, SendError
<1> QED
  BY <1>5, <1>6, <1>7

\* What a function of the library reports of a final status is what the module
\* answered.
LEMMA ReportIsFinal ==
  ASSUME NEW c \in Callers, CallerSound(c), lib[c] \in CallerRecord,
         lib[c].pc \in {"interm", "final"},
         NEW e \in Exchange, NEW block \in Blocks(c), NEW status \in ReplyStatus(e, block)
  PROVE  /\ Report(c, e, status).status \in {"OK", "SENT", "ACK", "TERM", "ERROR"}
                                              \cup Unfinished \cup {"FINAL_REPLY_OK"}
         /\ Report(c, e, status).bilan \in Bilans \cup OsErrors
         /\ status \notin Unfinished
              /\ Report(c, e, status).status \in {"FINAL_REPLY_OK", "TERM"}
              => \/ Report(c, e, status).bilan = e.final
                 \/ /\ c \in Programs /\ lib[c].fn # "RqstAndRcv"
                    /\ IsAbort(c) /\ e.final = "OK"
<1> DEFINE r == Report(c, e, status)
           Good(x) == /\ x.status \in {"OK", "SENT", "ACK", "TERM", "ERROR"}
                                        \cup Unfinished \cup {"FINAL_REPLY_OK"}
                      /\ x.bilan \in Bilans \cup OsErrors
                      /\ status \notin Unfinished /\ x.status \in {"FINAL_REPLY_OK", "TERM"}
                           => x.bilan = e.final
           Excepted == c \in Programs /\ lib[c].fn # "RqstAndRcv" /\ IsAbort(c)
<1>1. status \in Unfinished \cup {"FINAL_REPLY_OK", "ERROR"}
  BY DEF ReplyStatus, FinalStatus, Unfinished
<1>2. /\ e.final \in Bilans \cup {"none"}
      /\ status \notin Unfinished => e.final # "none"
      /\ status = "FINAL_REPLY_OK" => e.final = "OK"
  BY StatusIsOfReply DEF Exchange, Unfinished
<1>3. lib[c].bilan \in Bilans \cup OsErrors /\ "OK" \in Bilans
  BY DEF CallerRecord, Bilans
<1>4. /\ Good(ReplyRcv(e, status, lib[c].bilan)) /\ Good(RqstAndRcv(e, status, lib[c].bilan))
      /\ ReplyRcv(e, status, lib[c].bilan).status \in Unfinished \cup {"FINAL_REPLY_OK"}
  BY <1>1, <1>2, <1>3 DEF ReplyRcv, RqstAndRcv, AbortReplyRcv, Unfinished
<1>5. Good(RqstAndAck(e, status, lib[c].bilan))
  BY <1>4 DEF RqstAndAck
<1>6. Good(ReplyRcvCb(e, status, lib[c].bilan))
  BY <1>4, <1>1, <1>2, <1>3 DEF ReplyRcvCb, ReplyRcv, Unfinished
<1>7. Good(TclservRqstAndAck(e, status, lib[c].bilan))
  BY <1>3 DEF TclservRqstAndAck
<1>8. CASE c \in Servs /\ c \notin Scripts
  <2>0. CASE IsAbort(c)
    <3>1. r = TclservRqstAndAck(e, status, lib[c].bilan)
      BY <1>8, <2>0 DEF Report
    <3> QED
      BY <1>7, <3>1
  <2>1. CASE lib[c].pc = "interm"
    <3>1. r = TclservRqstAndAck(e, status, lib[c].bilan)
      BY <1>8, <2>1 DEF Report, CallerSound
    <3> QED
      BY <1>7, <3>1
  <2>2. CASE lib[c].pc = "final" /\ ~IsAbort(c)
    <3>1. r = TclservReplyRcv(e, status, lib[c].bilan)
      BY <1>8, <2>2 DEF Report
    <3>2. block = "BLOCK_ON_FINAL_REPLY"
      BY <1>8, <2>2 DEF Blocks
    <3>3. e.final # "none"
      BY <3>2 DEF ReplyStatus
    <3> QED
      BY <1>2, <3>1, <3>3 DEF TclservReplyRcv
  <2> QED
    BY <2>0, <2>1, <2>2
<1>9. CASE c \in Scripts \/ c \notin Servs
  <2>1. \/ r \in {ReplyRcvCb(e, status, lib[c].bilan), RqstAndRcv(e, status, lib[c].bilan),
                  RqstAndAck(e, status, lib[c].bilan), ReplyRcv(e, status, lib[c].bilan)}
        \/ Excepted /\ r = AbortReplyRcv(e, status, lib[c].bilan)
    BY <1>9 DEF Report, Callers
  <2>2. Good(r) \/ (Excepted /\ r = AbortReplyRcv(e, status, lib[c].bilan))
    <3> HIDE DEF Good, r, Excepted
    <3> QED
      BY <1>4, <1>5, <1>6, <2>1
  <2>3. CASE Excepted /\ r = AbortReplyRcv(e, status, lib[c].bilan)
    BY <1>1, <1>2, <1>3, <2>3 DEF AbortReplyRcv, Unfinished
  <2> QED
    BY <2>2, <2>3
<1> QED
  BY <1>8, <1>9

LEMMA ReceiveSound ==
  ASSUME ClientsInv, NEW c \in Callers, Receive(c)
  PROVE  LibGoal(c)
<1>1. /\ TypeCs /\ ExchSound /\ CallerSound(c) /\ Owned(lib[c].id, c)
      /\ lib \in [Callers -> CallerRecord] /\ lib[c] \in CallerRecord
  BY LibRecords DEF ClientsInv, LibSound, CallerSound, Receive
<1>2. init' = init /\ UNCHANGED <<server, alive>> /\ lib[c].pc \in {"interm", "final"}
  BY DEF Receive
<1> DEFINE e == exch[lib[c].id]
<1>3. PICK block \in Blocks(c), status \in Unfinished \cup {"FINAL_REPLY_OK", "ERROR"} :
         /\ status \in ReplyStatus(e, block)
         /\ csClientReplyRcv(lib[c].id, status)
         /\ lib' = [lib EXCEPT ![c].status = Report(c, e, status).status,
                               ![c].bilan = Report(c, e, status).bilan,
                               ![c].pc = IF status \in Unfinished THEN "final" ELSE "idle"]
  BY DEF Receive
<1>4. Polite(c) /\ ReadOf(lib[c].id, status)
  BY <1>1, <1>2, <1>3, ReadPolite
<1>5. e \in Exchange /\ lib[c].id \in DOMAIN exch
  BY <1>1, ExchAt DEF Owned
<1> DEFINE rs == Report(c, e, status).status
           rb == Report(c, e, status).bilan
           pc == IF status \in Unfinished THEN "final" ELSE "idle"
           new == [lib[c] EXCEPT !.status = rs, !.bilan = rb, !.pc = pc]
<1>6. /\ rs \in {"OK", "SENT", "ACK", "TERM", "ERROR"} \cup Unfinished \cup {"FINAL_REPLY_OK"}
      /\ rb \in Bilans \cup OsErrors
      /\ status \notin Unfinished /\ rs \in {"FINAL_REPLY_OK", "TERM"} =>
           rb = e.final \/ (c \in Programs /\ lib[c].fn # "RqstAndRcv" /\ IsAbort(c)
                              /\ e.final = "OK")
  BY <1>1, <1>2, <1>3, <1>5, ReportIsFinal
<1>7. lib' = [lib EXCEPT ![c] = new]
  BY <1>1, <1>3 DEF CallerRecord
<1>8. /\ pc \in {"final", "idle"}
      /\ pc = "final" <=> status \in Unfinished
  OBVIOUS
<1> HIDE DEF rs, rb, pc
<1>9. /\ new \in CallerRecord /\ new.pc = pc /\ new.status = rs /\ new.bilan = rb
      /\ new.id = lib[c].id /\ new.fn = lib[c].fn
  BY <1>1, <1>6, <1>8 DEF CallerRecord
<1> HIDE DEF new
<1>10. /\ lib' \in [Callers -> CallerRecord] /\ lib'[c] = new
       /\ \A d \in Callers \ {c} : lib'[d] = lib[d]
  BY <1>1, <1>7, <1>9, CallerChange
<1>11. CallerSound(c)'
  BY <1>1, <1>4, <1>5, <1>6, <1>8, <1>9, <1>10 DEF CallerSound, Owned, ReadOf, IsAbort
<1> QED
  BY <1>2, <1>4, <1>10, <1>11 DEF LibGoal

LEMMA BadBlockTypeSound ==
  ASSUME ClientsInv, NEW c \in Callers, BadBlockType(c)
  PROVE  LibGoal(c)
<1>1. /\ TypeCs /\ ExchSound /\ CallerSound(c)
      /\ lib \in [Callers -> CallerRecord] /\ lib[c] \in CallerRecord
  BY LibRecords DEF ClientsInv, LibSound
<1>2. /\ init' = init /\ server' = server /\ exch' = exch /\ alive' \subseteq alive
      /\ lib' = [lib EXCEPT ![c].status = "ERROR"] /\ lib[c].pc = "final"
  BY DEF BadBlockType, csVars
<1>3. Polite(c)
  BY <1>1, <1>2, StillPolite
<1> DEFINE new == [lib[c] EXCEPT !.status = "ERROR"]
<1>4. /\ new \in CallerRecord /\ new.pc = "final" /\ new.id = lib[c].id
      /\ lib' = [lib EXCEPT ![c] = new]
  BY <1>1, <1>2 DEF CallerRecord
<1> HIDE DEF new
<1>5. /\ lib' \in [Callers -> CallerRecord] /\ lib'[c] = new
      /\ \A d \in Callers \ {c} : lib'[d] = lib[d]
  BY <1>1, <1>4, CallerChange
<1>6. CallerSound(c)'
  BY <1>1, <1>2, <1>4, <1>5 DEF CallerSound, Owned
<1> QED
  BY <1>2, <1>3, <1>5, <1>6 DEF LibGoal

LEMMA ClientEndSound ==
  ASSUME ClientsInv, NEW c \in Callers, ClientEnd(c)
  PROVE  LibGoal(c)
<1>1. /\ TypeCs /\ ExchSound
      /\ lib \in [Callers -> CallerRecord] /\ lib[c] \in CallerRecord
  BY LibRecords DEF ClientsInv
<1>2. /\ init' = init /\ server' = server /\ exch' = exch /\ alive' \subseteq alive
      /\ lib' = [lib EXCEPT ![c].pc = "over"]
  BY DEF ClientEnd, csClientEnd
<1>3. Polite(c)
  BY <1>1, <1>2, StillPolite
<1> DEFINE new == [lib[c] EXCEPT !.pc = "over"]
<1>4. new \in CallerRecord /\ new.pc = "over" /\ lib' = [lib EXCEPT ![c] = new]
  BY <1>1, <1>2 DEF CallerRecord
<1> HIDE DEF new
<1>5. /\ lib' \in [Callers -> CallerRecord] /\ lib'[c] = new
      /\ \A d \in Callers \ {c} : lib'[d] = lib[d]
  BY <1>1, <1>4, CallerChange
<1>6. CallerSound(c)'
  BY <1>4, <1>5 DEF CallerSound
<1> QED
  BY <1>2, <1>3, <1>5, <1>6 DEF LibGoal

-----------------------------------------------------------------------------
(* The init program *)

InitGoal ==
  Polite(Initer) /\ init' \in InitRecord /\ InitSound' /\ lib' = lib

LEMMA InitSendSound == ClientsInv /\ InitSend => InitGoal
<1> SUFFICES ASSUME ClientsInv, InitSend PROVE InitGoal
  OBVIOUS
<1>1. /\ TypeCs /\ ExchSound /\ InitSound /\ init \in InitRecord
      /\ Initer \in Clients /\ InitRqst \in Requests
  BY LibAssumption, LibRecords DEF ClientsInv, Requests
<1>2. lib' = lib /\ UNCHANGED <<server, alive>> /\ init.pc = "send"
  BY DEF InitSend
<1>3. CASE /\ csClientRqstSend(Initer, InitRqst)
           /\ init' = [init EXCEPT !.pc = "interm", !.id = NewId]
  <2>1. Polite(Initer) /\ Added(Initer, InitRqst)
    BY <1>1, <1>2, <1>3, SendPolite
  <2>2. NewId \in 0 .. MaxSent
    BY <2>1, CsAssumption DEF Added
  <2>3. /\ init' \in InitRecord /\ init'.pc = "interm" /\ init'.id = NewId
        /\ init'.ret = init.ret
    BY <1>1, <1>3, <2>2 DEF InitRecord
  <2>4. init.ret # "OK"
    BY <1>1, <1>2 DEF InitSound
  <2> QED
    BY <1>2, <2>1, <2>3, <2>4 DEF InitGoal, InitSound, Added, Owned
<1>4. CASE /\ SendError /\ UNCHANGED exch
           /\ init' = [init EXCEPT !.pc = "over", !.ret = "ERROR"]
  <2>1. Polite(Initer)
    BY <1>1, <1>2, <1>4, StillPolite
  <2>2. init' \in InitRecord /\ init'.pc = "over" /\ init'.ret = "ERROR"
    BY <1>1, <1>4 DEF InitRecord
  <2> QED
    BY <1>2, <2>1, <2>2 DEF InitGoal, InitSound
<1> QED
  BY <1>3, <1>4 DEF InitSend

LEMMA InitReceiveSound == ClientsInv /\ InitReceive => InitGoal
<1> SUFFICES ASSUME ClientsInv, InitReceive PROVE InitGoal
  OBVIOUS
<1>1. /\ TypeCs /\ ExchSound /\ InitSound /\ init \in InitRecord
      /\ init.pc \in {"interm", "final"}
      /\ lib' = lib /\ server' = server /\ alive' = alive
  BY LibRecords DEF ClientsInv, InitReceive
<1>2. Owned(init.id, Initer) /\ init.id \in DOMAIN exch /\ exch[init.id] \in Exchange
  BY <1>1, ExchAt DEF InitSound, Owned
<1> DEFINE block == IF init.pc = "interm" THEN "BLOCK_ON_INTERMED_REPLY"
                                          ELSE "BLOCK_ON_FINAL_REPLY"
<1>3. PICK status \in {"WAITING_FINAL_REPLY", "FINAL_REPLY_OK", "ERROR"} :
        /\ status \in ReplyStatus(exch[init.id], block)
        /\ csClientReplyRcv(init.id, status)
        /\ init' = [init EXCEPT
             !.pc = IF status \in Unfinished THEN "final" ELSE "end",
             !.status = IF init.pc = "interm" THEN status ELSE @,
             !.errno = IF status = "ERROR" THEN exch[init.id].final ELSE @]
  BY DEF InitReceive
<1> HIDE DEF block
<1>4. Polite(Initer) /\ ReadOf(init.id, status)
  BY <1>1, <1>2, <1>3, ReadPolite
<1>5. /\ status \notin Unfinished => exch[init.id].final \in Bilans
      /\ status = "FINAL_REPLY_OK" => exch[init.id].final = "OK"
  BY <1>2, <1>3, StatusIsOfReply DEF Exchange, Unfinished
<1> DEFINE pc == IF status \in Unfinished THEN "final" ELSE "end"
           st == IF init.pc = "interm" THEN status ELSE init.status
           er == IF status = "ERROR" THEN exch[init.id].final ELSE init.errno
<1>6. /\ init' \in InitRecord /\ init'.pc = pc /\ init'.status = st /\ init'.errno = er
      /\ init'.id = init.id /\ init'.ret = init.ret
  BY <1>1, <1>3, <1>5 DEF InitRecord, Unfinished
<1>7. CASE status \in Unfinished
  BY <1>1, <1>2, <1>4, <1>6, <1>7 DEF InitGoal, InitSound, ReadOf, Owned, Unfinished
<1>8. CASE status \notin Unfinished
  <2>1. init'.status = "FINAL_REPLY_OK" /\ init.pc = "interm" => exch[init.id].final = "OK"
    BY <1>5, <1>6
  <2>2. init.pc = "final" => init'.status # "FINAL_REPLY_OK"
    BY <1>1, <1>6 DEF InitSound
  <2>3. init.ret = "OK" => exch[init.id].final = "OK"
    BY <1>1 DEF InitSound
  <2> QED
    BY <1>1, <1>2, <1>4, <1>6, <1>8, <2>1, <2>2, <2>3 DEF InitGoal, InitSound, ReadOf
<1> QED
  BY <1>7, <1>8

LEMMA InitEndSound == ClientsInv /\ InitEnd => InitGoal
<1> SUFFICES ASSUME ClientsInv, InitEnd PROVE InitGoal
  OBVIOUS
<1>1. /\ TypeCs /\ ExchSound /\ InitSound /\ init \in InitRecord /\ init.pc = "end"
      /\ lib' = lib /\ server' = server /\ exch' = exch /\ alive' \subseteq alive
      /\ init' = [init EXCEPT !.pc = "over", !.ret = InitReturn(init)]
  BY LibRecords DEF ClientsInv, InitEnd, csClientEnd
<1>2. Polite(Initer)
  BY <1>1, StillPolite
<1>3. /\ InitReturn(init) \in {"OK", "ERROR"}
      /\ InitReturn(init) = "OK" => init.status = "FINAL_REPLY_OK" /\ init.errno = "OK"
  BY DEF InitReturn
<1>4. /\ init' \in InitRecord /\ init'.pc = "over" /\ init'.ret = InitReturn(init)
      /\ init'.id = init.id
  BY <1>1, <1>3 DEF InitRecord
<1> QED
  BY <1>1, <1>2, <1>3, <1>4 DEF InitGoal, InitSound

-----------------------------------------------------------------------------
(* The test program *)

TestGoal == Polite(Tester) /\ TypeSlots' /\ TestSound' /\ UNCHANGED libVars

\* The facts every step starts from.
LEMMA TestFacts ==
  ASSUME ClientsInv
  PROVE  /\ TypeCs /\ ExchSound /\ TestSound /\ SlotsOwned
         /\ slot \in [Acti -> SlotRecord] /\ test \in TestRecord
         /\ Tester \in Clients /\ OnSlots \subseteq Acti
         /\ DOMAIN Getter = ExecRqsts \cup CntrlRqsts
         /\ DOMAIN Getter \subseteq Requests /\ None \notin Requests
         /\ \A r \in DOMAIN Getter : Getter[r] # None => Getter[r] \in DOMAIN Getter
BY TestAssumption DEF ClientsInv, TypeSlots, TestSound, OnSlots, Requests

\* A function that has a slot returns to the function that fetched an input, in
\* the same slot, or to the menu.
LEMMA ReturnedSound ==
  ASSUME ClientsInv, NEW t \in TestRecord, t = Returned
  PROVE  /\ Silent => /\ t.pc = "confirm" /\ t.acti \in Acti /\ t.acti = test.acti
                      /\ t.rqst \in DOMAIN Getter /\ t.outer = None
         /\ ~Silent => t.pc = "menu" /\ t.outer = None
BY TestFacts DEF Returned, TestRecord, TestSound, Silent, OnSlots

LEMMA ReturnedType == ClientsInv => Returned \in TestRecord
<1> SUFFICES ASSUME ClientsInv PROVE Returned \in TestRecord
  OBVIOUS
<1>1. 0 \in 0 .. NbSlots + 1
  BY TestAssumption
<1>2. Silent => test.outer \in Requests
  BY TestFacts DEF TestSound
<1>3. CASE Silent
  BY <1>2, <1>3, TestFacts DEF Returned, TestRecord
<1>4. CASE ~Silent
  BY <1>1, <1>4, TestFacts DEF Returned, TestRecord
<1> QED
  BY <1>3, <1>4

\* A step that leaves the slots and the requests alone.
LEMMA StillOwned ==
  ASSUME ClientsInv, UNCHANGED <<slot, exch>>
  PROVE  SlotsOwned' /\ OnSlots' = OnSlots /\ slot' \in [Acti -> SlotRecord]
BY TestFacts DEF SlotsOwned, OnSlots, Owned

LEMMA TestStill ==
  ASSUME ClientsInv, UNCHANGED <<slot, csVars, libVars>>, test' \in TestRecord,
         test'.pc \in {"call", "confirm"} =>
           test'.acti \in Acti /\ test'.rqst \in DOMAIN Getter,
         test'.outer # None => test'.pc \in {"call", "confirm"} /\ test'.outer \in DOMAIN Getter,
         test'.pc \in {"poll"} => test'.acti \in OnSlots,
         test'.pc \notin {"interm", "final", "abort"},
         test'.pc = "replies" => test'.acti \in 1 .. NbSlots + 1
  PROVE  TestGoal
<1>1. Polite(Tester)
  BY TestFacts, StillPolite DEF csVars
<1>2. SlotsOwned' /\ OnSlots' = OnSlots /\ slot' \in [Acti -> SlotRecord]
  BY StillOwned DEF csVars
<1> QED
  BY <1>1, <1>2 DEF TestGoal, TypeSlots, TestSound, Silent, At

LEMMA SendRequestSound ==
  ASSUME ClientsInv, testSendRequest, UNCHANGED libVars PROVE TestGoal
<1>1. PICK r \in DOMAIN Getter, a \in Acti :
        test' = [test EXCEPT !.pc = "call", !.acti = a, !.rqst = r]
  BY DEF testSendRequest
<1>2. /\ test' \in TestRecord /\ test'.pc = "call" /\ test'.acti = a /\ test'.rqst = r
      /\ test'.outer = test.outer
  <2>1. a \in 0 .. NbSlots + 1 /\ r \in Requests
    BY TestFacts, TestAssumption DEF Acti
  <2> QED
    BY <1>1, <2>1, TestFacts DEF TestRecord
<1>3. test.outer = None
  BY TestFacts DEF testSendRequest, TestSound, At, Silent
<1> QED
  BY <1>2, <1>3, TestStill DEF testSendRequest

LEMMA GetInputSound ==
  ASSUME ClientsInv, testSendAndGetInput, UNCHANGED libVars PROVE TestGoal
<1>1. /\ test.pc = "call" /\ test.acti \in Acti /\ test.rqst \in DOMAIN Getter
      /\ test.outer # None => test.outer \in DOMAIN Getter
      /\ UNCHANGED <<slot, csVars>>
  BY TestFacts DEF testSendAndGetInput, TestSound, At, Silent
<1>2. CASE test' = [test EXCEPT !.pc = "confirm"]
  <2>1. /\ test' \in TestRecord /\ test'.pc = "confirm" /\ test'.acti = test.acti
        /\ test'.rqst = test.rqst /\ test'.outer = test.outer
    BY <1>2, TestFacts DEF TestRecord
  <2> QED
    BY <1>1, <2>1, TestStill
<1>3. CASE /\ Getter[test.rqst] # None
           /\ test' = [test EXCEPT !.pc = "call", !.rqst = Getter[test.rqst],
                                   !.outer = test.rqst]
  <2>1. Getter[test.rqst] \in DOMAIN Getter /\ Getter[test.rqst] \in Requests
    BY <1>1, <1>3, TestFacts
  <2>2. /\ test' \in TestRecord /\ test'.pc = "call" /\ test'.acti = test.acti
        /\ test'.rqst = Getter[test.rqst] /\ test'.outer = test.rqst
    BY <1>3, <2>1, TestFacts DEF TestRecord
  <2> QED
    BY <1>1, <2>1, <2>2, TestStill
<1> QED
  BY <1>2, <1>3 DEF testSendAndGetInput

LEMMA NotSentSound ==
  ASSUME ClientsInv, NotSent, UNCHANGED libVars PROVE TestGoal
<1>1. test' \in TestRecord /\ test' = Returned /\ UNCHANGED <<slot, csVars>>
  BY ReturnedType DEF NotSent
<1>2. /\ Silent => /\ test'.pc = "confirm" /\ test'.acti \in Acti
                   /\ test'.rqst \in DOMAIN Getter /\ test'.outer = None
      /\ ~Silent => test'.pc = "menu" /\ test'.outer = None
  BY <1>1, ReturnedSound
<1> QED
  BY <1>1, <1>2, TestStill

\* A request is sent and has its slot.
LEMMA SentSound ==
  ASSUME ClientsInv, testSendRqst, UNCHANGED <<server, alive>>, At("confirm")
  PROVE  /\ Polite(Tester) /\ Added(Tester, test.rqst)
         /\ slot' \in [Acti -> SlotRecord] /\ SlotsOwned'
         /\ slot'[test.acti].id = NewId
         /\ \A b \in Acti \ {test.acti} : slot'[b] = slot[b]
         /\ OnSlots' = OnSlots \cup {test.acti}
<1>1. test.acti \in Acti /\ test.rqst \in Requests
  BY TestFacts DEF TestSound, At
<1>2. Polite(Tester) /\ Added(Tester, test.rqst)
  BY <1>1, TestFacts, SendPolite DEF testSendRqst
<1> DEFINE new == [on |-> TRUE, rqst |-> test.rqst, id |-> NewId]
<1>3. NewId \in 0 .. MaxSent
  BY <1>2, CsAssumption DEF Added
<1>4. /\ new \in SlotRecord /\ new.on /\ new.rqst = test.rqst /\ new.id = NewId
      /\ slot' = [slot EXCEPT ![test.acti] = new]
  BY <1>1, <1>3 DEF SlotRecord, testSendRqst
<1> HIDE DEF new
<1>5. /\ slot' \in [Acti -> SlotRecord] /\ slot'[test.acti] = new
      /\ \A b \in Acti \ {test.acti} : slot'[b] = slot[b]
  BY <1>1, <1>4, TestFacts
<1>6. OnSlots' = OnSlots \cup {test.acti}
  BY <1>1, <1>4, <1>5 DEF OnSlots
<1>7. (\A a \in OnSlots : /\ Owned(slot[a].id, Tester)
                         /\ exch[slot[a].id].rqst = slot[a].rqst)'
  <2> SUFFICES ASSUME NEW a \in OnSlots'
               PROVE  /\ slot'[a].id \in DOMAIN exch' /\ exch'[slot'[a].id].client = Tester
                      /\ exch'[slot'[a].id].open /\ exch'[slot'[a].id].rqst = slot'[a].rqst
    BY DEF Owned
  <2>1. CASE a = test.acti
    BY <1>2, <1>4, <1>5, <2>1 DEF Added
  <2>2. CASE a # test.acti
    <3>1. a \in OnSlots /\ slot'[a] = slot[a]
      BY <1>5, <1>6, <2>2, TestFacts
    <3> QED
      BY <1>2, <3>1, TestFacts DEF Added, SlotsOwned, Owned
  <2> QED
    BY <2>1, <2>2
<1>8. \A a, b \in OnSlots' : slot'[a].id = slot'[b].id => a = b
  <2> SUFFICES ASSUME NEW a \in OnSlots', NEW b \in OnSlots', slot'[a].id = slot'[b].id
               PROVE  a = b
    OBVIOUS
  <2>1. \A d \in OnSlots : slot[d].id # NewId
    BY <1>2, TestFacts DEF Added, SlotsOwned, Owned
  <2>2. \A d \in OnSlots' : d = test.acti \/ (d \in OnSlots /\ slot'[d] = slot[d])
    BY <1>5, <1>6, TestFacts
  <2> QED
    BY <1>4, <1>5, <2>1, <2>2, TestFacts DEF SlotsOwned
<1> QED
  BY <1>2, <1>4, <1>5, <1>6, <1>7, <1>8 DEF SlotsOwned

LEMMA SendCntrlSound ==
  ASSUME ClientsInv, testSendAndRcvCntrlRqst, UNCHANGED libVars PROVE TestGoal
<1>1. At("confirm") /\ UNCHANGED <<server, alive>> /\ testSendRqst
  BY DEF testSendAndRcvCntrlRqst
<1>2. /\ Polite(Tester) /\ slot' \in [Acti -> SlotRecord] /\ SlotsOwned'
      /\ OnSlots' = OnSlots \cup {test.acti}
  BY <1>1, SentSound
<1>3. /\ test' \in TestRecord /\ test'.pc = "final" /\ test'.acti = test.acti
      /\ test'.outer = test.outer
  BY TestFacts DEF testSendAndRcvCntrlRqst, TestRecord
<1> QED
  BY <1>2, <1>3, TestFacts DEF TestGoal, TypeSlots, TestSound, At, Silent

LEMMA SendExecSound ==
  ASSUME ClientsInv, testSendAndOrRcvExecRqst, UNCHANGED libVars PROVE TestGoal
<1>1. At("confirm") /\ UNCHANGED <<server, alive>>
  BY DEF testSendAndOrRcvExecRqst
<1>2. CASE slot[test.acti].on
  <2>1. /\ UNCHANGED <<slot, csVars>>
        /\ test' = [test EXCEPT !.pc = "poll"]
    BY <1>1, <1>2 DEF testSendAndOrRcvExecRqst, csVars
  <2>2. /\ test' \in TestRecord /\ test'.pc = "poll" /\ test'.acti = test.acti
        /\ test'.outer = test.outer
    BY <2>1, TestFacts DEF TestRecord
  <2>3. SlotsOwned' /\ OnSlots' = OnSlots /\ slot' \in [Acti -> SlotRecord]
    BY <2>1, StillOwned DEF csVars
  <2>4. Polite(Tester)
    BY <2>1, TestFacts, StillPolite DEF csVars
  <2>5. test.acti \in OnSlots
    BY <1>1, <1>2, TestFacts DEF TestSound, OnSlots, At
  <2> QED
    BY <2>2, <2>3, <2>4, <2>5, TestFacts DEF TestGoal, TypeSlots, TestSound, At, Silent
<1>3. CASE ~slot[test.acti].on
  <2>1. PICK w \in BOOLEAN : testSendRqst /\ test' = [test EXCEPT !.pc = "interm", !.wait = w]
    BY <1>3, TestAssumption DEF testSendAndOrRcvExecRqst
  <2>2. /\ Polite(Tester) /\ slot' \in [Acti -> SlotRecord] /\ SlotsOwned'
        /\ OnSlots' = OnSlots \cup {test.acti}
    BY <1>1, <2>1, SentSound
  <2>3. /\ test' \in TestRecord /\ test'.pc = "interm" /\ test'.acti = test.acti
        /\ test'.outer = test.outer
    BY <2>1, TestFacts DEF TestRecord
  <2> QED
    BY <2>2, <2>3, TestFacts DEF TestGoal, TypeSlots, TestSound, At, Silent
<1> QED
  BY <1>2, <1>3

\* Replies of the request of a slot are read; it goes off unless the
\* final one is awaited.
LEMMA RcvSound ==
  ASSUME ClientsInv, NEW a \in OnSlots, NEW block, NEW status,
         testRcvReply(a, block, status)
  PROVE  /\ Polite(Tester) /\ ReadOf(slot[a].id, status)
         /\ slot' \in [Acti -> SlotRecord] /\ SlotsOwned'
         /\ \A b \in Acti : slot'[b].id = slot[b].id
         /\ OnSlots' = IF status = "WAITING_FINAL_REPLY" THEN OnSlots ELSE OnSlots \ {a}
<1>1. /\ Owned(slot[a].id, Tester) /\ status \in ReplyStatus(exch[slot[a].id], block)
      /\ csClientReplyRcv(slot[a].id, status) /\ server' = server /\ alive' \subseteq alive
  BY TestFacts DEF testRcvReply, SlotsOwned
<1>2. Polite(Tester) /\ ReadOf(slot[a].id, status)
  BY <1>1, TestFacts, ReadPolite
<1>3. CASE status = "WAITING_FINAL_REPLY"
  <2>1. slot' = slot
    BY <1>3 DEF testRcvReply, OffSlot
  <2>2. slot' \in [Acti -> SlotRecord] /\ OnSlots' = OnSlots
    BY <2>1, TestFacts DEF OnSlots
  <2>3. \A b \in OnSlots :
          /\ slot[b].id \in DOMAIN exch' /\ exch'[slot[b].id].client = Tester
          /\ exch'[slot[b].id].open /\ exch'[slot[b].id].rqst = slot[b].rqst
    BY <1>2, <1>3, TestFacts DEF SlotsOwned, Owned, ReadOf, Unfinished
  <2>4. SlotsOwned'
    BY <2>1, <2>2, <2>3, TestFacts DEF SlotsOwned, Owned
  <2> QED
    BY <1>2, <1>3, <2>1, <2>2, <2>4
<1>4. CASE status # "WAITING_FINAL_REPLY"
  <2>1. slot' = [slot EXCEPT ![a].on = FALSE]
    BY <1>4 DEF testRcvReply, OffSlot
  <2> DEFINE new == [slot[a] EXCEPT !.on = FALSE]
  <2>2. /\ new \in SlotRecord /\ ~new.on /\ new.id = slot[a].id
        /\ slot' = [slot EXCEPT ![a] = new]
    BY <2>1, TestFacts DEF SlotRecord
  <2> HIDE DEF new
  <2>3. /\ slot' \in [Acti -> SlotRecord] /\ slot'[a] = new
        /\ \A b \in Acti \ {a} : slot'[b] = slot[b]
    BY <2>2, TestFacts
  <2>4. OnSlots' = OnSlots \ {a}
    BY <2>2, <2>3, TestFacts DEF OnSlots
  <2>5. \A b \in OnSlots' :
          /\ b \in OnSlots /\ slot'[b] = slot[b]
          /\ slot[b].id \in DOMAIN exch' /\ exch'[slot[b].id] = exch[slot[b].id]
    BY <1>2, <2>3, <2>4, TestFacts DEF SlotsOwned, Owned, ReadOf
  <2>6. SlotsOwned'
    BY <2>5, TestFacts DEF SlotsOwned, Owned
  <2> QED
    BY <1>2, <1>4, <2>2, <2>3, <2>4, <2>6
<1> QED
  BY <1>3, <1>4

\* ... and the function returns.
LEMMA RcvReturned ==
  ASSUME ClientsInv, NEW a \in OnSlots, NEW block, NEW status,
         testRcvReply(a, block, status), test' = Returned, UNCHANGED libVars
  PROVE  TestGoal
<1>1. Polite(Tester) /\ slot' \in [Acti -> SlotRecord] /\ SlotsOwned'
  BY RcvSound
<1>2. test' \in TestRecord
  BY ReturnedType
<1>3. /\ Silent => /\ test'.pc = "confirm" /\ test'.acti \in Acti
                   /\ test'.rqst \in DOMAIN Getter /\ test'.outer = None
      /\ ~Silent => test'.pc = "menu" /\ test'.outer = None
  BY <1>2, ReturnedSound
<1> QED
  BY <1>1, <1>2, <1>3 DEF TestGoal, TypeSlots, TestSound, At, Silent

LEMMA RcvIntermediateSound ==
  ASSUME ClientsInv, RcvIntermediate, UNCHANGED libVars PROVE TestGoal
<1>1. PICK status \in {"WAITING_FINAL_REPLY", "FINAL_REPLY_OK", "ERROR"} :
        /\ testRcvReply(test.acti, "BLOCK_ON_INTERMED_REPLY", status)
        /\ test' = IF status = "WAITING_FINAL_REPLY" /\ test.wait
                   THEN [test EXCEPT !.pc = "final"]
                   ELSE Returned
  BY DEF RcvIntermediate
<1>2. test.acti \in OnSlots
  BY TestFacts DEF RcvIntermediate, TestSound, At
<1>3. CASE test' = Returned
  BY <1>1, <1>2, <1>3, RcvReturned
<1>4. CASE status = "WAITING_FINAL_REPLY" /\ test' = [test EXCEPT !.pc = "final"]
  <2>1. /\ Polite(Tester) /\ slot' \in [Acti -> SlotRecord] /\ SlotsOwned'
        /\ OnSlots' = OnSlots
    BY <1>1, <1>2, <1>4, RcvSound DEF Unfinished
  <2>2. /\ test' \in TestRecord /\ test'.pc = "final" /\ test'.acti = test.acti
        /\ test'.outer = test.outer
    BY <1>4, TestFacts DEF TestRecord
  <2> QED
    BY <1>2, <2>1, <2>2, TestFacts DEF TestGoal, TypeSlots, TestSound, At, Silent
<1> QED
  BY <1>1, <1>3, <1>4

LEMMA RcvFinalSound ==
  ASSUME ClientsInv, RcvFinal, UNCHANGED libVars PROVE TestGoal
<1>1. test.acti \in OnSlots /\ test' = Returned
  BY TestFacts DEF RcvFinal, TestSound, At
<1>2. PICK status : testRcvReply(test.acti, "BLOCK_ON_FINAL_REPLY", status)
  BY DEF RcvFinal
<1> QED
  BY <1>1, <1>2, RcvReturned

LEMMA RcvPollSound ==
  ASSUME ClientsInv, RcvPoll, UNCHANGED libVars PROVE TestGoal
<1>1. test.acti \in OnSlots /\ test' = Returned
  BY TestFacts DEF RcvPoll, TestSound, At
<1>2. PICK status : testRcvReply(test.acti, "NO_BLOCK", status)
  BY DEF RcvPoll
<1> QED
  BY <1>1, <1>2, RcvReturned

LEMMA GetRepliesSound ==
  ASSUME ClientsInv, testGetReplies, UNCHANGED libVars PROVE TestGoal
<1>1. test.outer = None
  BY TestFacts DEF testGetReplies, TestSound, At, Silent
<1>2. CASE /\ test' = [test EXCEPT !.pc = "replies", !.acti = 1]
           /\ UNCHANGED <<slot, csVars>>
  <2>1. 1 \in 0 .. NbSlots + 1 /\ 1 \in 1 .. NbSlots + 1
    BY TestAssumption
  <2>2. /\ test' \in TestRecord /\ test'.pc = "replies" /\ test'.acti = 1
        /\ test'.outer = test.outer
    BY <1>2, <2>1, TestFacts DEF TestRecord
  <2> QED
    BY <1>1, <1>2, <2>1, <2>2, TestStill
<1>3. CASE /\ test' = [test EXCEPT !.pc = "menu", !.acti = 0]
           /\ UNCHANGED <<slot, csVars>>
  <2>1. 0 \in 0 .. NbSlots + 1
    BY TestAssumption
  <2>2. test' \in TestRecord /\ test'.pc = "menu" /\ test'.outer = test.outer
    BY <1>3, <2>1, TestFacts DEF TestRecord
  <2> QED
    BY <1>1, <1>3, <2>2, TestStill
<1>4. CASE /\ At("replies") /\ test.acti <= NbSlots
           /\ test' = [test EXCEPT !.acti = @ + 1]
           /\ \/ /\ test.acti \in OnSlots
                 /\ \E status : testRcvReply(test.acti, "NO_BLOCK", status)
              \/ UNCHANGED <<slot, csVars>>
  <2>1. test.acti + 1 \in 0 .. NbSlots + 1 /\ test.acti + 1 \in 1 .. NbSlots + 1
    BY <1>4, TestFacts, TestAssumption DEF TestSound
  <2>2. /\ test' \in TestRecord /\ test'.pc = "replies" /\ test'.acti = test.acti + 1
        /\ test'.outer = test.outer
    BY <1>4, <2>1, TestFacts DEF TestRecord, At
  <2>3. CASE /\ test.acti \in OnSlots
             /\ \E status : testRcvReply(test.acti, "NO_BLOCK", status)
    <3>1. Polite(Tester) /\ slot' \in [Acti -> SlotRecord] /\ SlotsOwned'
      BY <2>3, RcvSound
    <3> QED
      BY <1>1, <2>1, <2>2, <3>1 DEF TestGoal, TypeSlots, TestSound, At, Silent
  <2>4. CASE UNCHANGED <<slot, csVars>>
    BY <1>1, <2>1, <2>2, <2>4, TestStill
  <2> QED
    BY <1>4, <2>3, <2>4
<1>5. ASSUME At("replies"), ~(test.acti > NbSlots), testGetReplies PROVE test.acti \in Acti
  BY <1>5, TestFacts, TestAssumption DEF TestSound, Acti
<1> QED
  BY <1>2, <1>3, <1>4, <1>5, TestFacts, TestAssumption DEF testGetReplies, OnSlots, TestSound

LEMMA AbortRqstSound ==
  ASSUME ClientsInv, testAbortRqst, UNCHANGED libVars PROVE TestGoal
<1>1. test.outer = None
  BY TestFacts DEF testAbortRqst, TestSound, At, Silent
<1>2. CASE \E r \in AbortRqsts :
             /\ csClientRqstSend(Tester, r)
             /\ test' = [test EXCEPT !.pc = "abort", !.rqst = r, !.id = NewId]
             /\ UNCHANGED <<slot, server, alive>>
  <2>1. PICK r \in AbortRqsts :
             /\ csClientRqstSend(Tester, r)
             /\ test' = [test EXCEPT !.pc = "abort", !.rqst = r, !.id = NewId]
             /\ UNCHANGED <<slot, server, alive>>
    BY <1>2
  <2>2. r \in Requests
    BY DEF Requests
  <2>3. Polite(Tester) /\ Added(Tester, r)
    BY <2>1, <2>2, TestFacts, SendPolite
  <2>4. NewId \in 0 .. MaxSent
    BY <2>3, CsAssumption DEF Added
  <2>5. /\ test' \in TestRecord /\ test'.pc = "abort" /\ test'.id = NewId
        /\ test'.outer = test.outer
    BY <2>1, <2>2, <2>4, TestFacts DEF TestRecord
  <2>6. OnSlots' = OnSlots /\ slot' \in [Acti -> SlotRecord]
    BY <2>1, TestFacts DEF OnSlots
  <2>7. \A a \in OnSlots : /\ slot[a].id \in DOMAIN exch /\ slot[a].id \in DOMAIN exch'
                           /\ exch'[slot[a].id] = exch[slot[a].id] /\ slot[a].id # NewId
    BY <2>3, TestFacts DEF Added, SlotsOwned, Owned
  <2>8. SlotsOwned'
    BY <2>1, <2>6, <2>7, TestFacts DEF SlotsOwned, Owned
  <2>9. NewId \in DOMAIN exch' /\ exch'[NewId].client = Tester /\ exch'[NewId].open
    BY <2>3 DEF Added
  <2>10. At("abort")' => (/\ Owned(test.id, Tester)
                          /\ \A a \in OnSlots : slot[a].id # test.id)'
    BY <2>1, <2>5, <2>6, <2>7, <2>9 DEF Owned
  <2> QED
    BY <1>1, <2>3, <2>5, <2>6, <2>8, <2>10 DEF TestGoal, TypeSlots, TestSound, At, Silent
<1>3. CASE /\ At("abort")
           /\ \E status \in ReplyStatus(exch[test.id], "BLOCK_ON_FINAL_REPLY") :
                csClientReplyRcv(test.id, status)
           /\ \/ test' = [test EXCEPT !.pc = "exited"]
              \/ test' = Returned
           /\ slot' = slot /\ server' = server /\ alive' \subseteq alive
  <2>1. PICK status \in ReplyStatus(exch[test.id], "BLOCK_ON_FINAL_REPLY") :
                csClientReplyRcv(test.id, status)
    BY <1>3
  <2>2. Owned(test.id, Tester) /\ \A a \in OnSlots : slot[a].id # test.id
    BY <1>3, TestFacts DEF TestSound
  <2>3. Polite(Tester) /\ ReadOf(test.id, status)
    BY <1>3, <2>1, <2>2, TestFacts, ReadPolite
  <2>4. OnSlots' = OnSlots /\ slot' \in [Acti -> SlotRecord]
    BY <1>3, TestFacts DEF OnSlots
  <2>5. \A a \in OnSlots : slot[a].id \in DOMAIN exch' /\ exch'[slot[a].id] = exch[slot[a].id]
    BY <2>2, <2>3, TestFacts DEF ReadOf, SlotsOwned, Owned
  <2>6. SlotsOwned'
    BY <1>3, <2>4, <2>5, TestFacts DEF SlotsOwned, Owned
  <2>7. test' \in TestRecord /\ test'.pc \in {"exited", "menu"} /\ test'.outer = None
    <3>1. CASE test' = [test EXCEPT !.pc = "exited"]
      BY <1>1, <3>1, TestFacts DEF TestRecord
    <3>2. CASE test' = Returned
      BY <1>1, <3>2, ReturnedType, ReturnedSound DEF Silent
    <3> QED
      BY <1>3, <3>1, <3>2
  <2> QED
    BY <2>3, <2>4, <2>6, <2>7 DEF TestGoal, TypeSlots, TestSound, At, Silent
<1> QED
  BY <1>2, <1>3 DEF testAbortRqst, csClientEnd

LEMMA EndSound ==
  ASSUME ClientsInv, testEnd, UNCHANGED libVars PROVE TestGoal
<1>1. /\ test.outer = None /\ test' = [test EXCEPT !.pc = "exited"]
      /\ UNCHANGED <<slot, exch>> /\ server' = server /\ alive' \subseteq alive
  BY TestFacts DEF testEnd, TestSound, At, Silent, csClientEnd
<1>2. test' \in TestRecord /\ test'.pc = "exited" /\ test'.outer = None
  BY <1>1, TestFacts DEF TestRecord
<1>3. Polite(Tester)
  BY <1>1, TestFacts, StillPolite
<1>4. SlotsOwned' /\ slot' \in [Acti -> SlotRecord]
  BY <1>1, StillOwned
<1> QED
  BY <1>2, <1>3, <1>4 DEF TestGoal, TypeSlots, TestSound, At, Silent

LEMMA TestStepSound ==
  ASSUME ClientsInv, TestStep, UNCHANGED libVars PROVE TestGoal
BY SendRequestSound, GetInputSound, NotSentSound, SendCntrlSound, SendExecSound,
   RcvIntermediateSound, RcvFinalSound, RcvPollSound, GetRepliesSound, AbortRqstSound,
   EndSound DEF TestStep

-----------------------------------------------------------------------------
(* All of them together *)

LEMMA ClientsInit == Init => ClientsInv
<1> SUFFICES ASSUME Init PROVE ClientsInv
  OBVIOUS
<1> USE DEF Init, InitCs, InitTest, InitLib
<1>1. TypeCs
  BY CsAssumption DEF TypeCs
<1>2. DOMAIN exch = {}
  OBVIOUS
<1>3. 0 \in 0 .. MaxSent /\ 0 \in 0 .. NbSlots + 1
  BY CsAssumption, TestAssumption
<1>4. TypeSlots
  BY <1>3 DEF TypeSlots, SlotRecord, TestRecord
<1>5. TypeLib
  BY <1>3 DEF TypeLib, Bilans
<1>6. ExchSound
  BY <1>2 DEF ExchSound
<1>7. OnSlots = {}
  BY DEF OnSlots
<1>8. TestSound
  BY <1>7 DEF TestSound, SlotsOwned, Silent, At
<1>9. LibSound /\ InitSound /\ SuspendedByLeaver
  BY DEF LibSound, CallerSound, InitSound, SuspendedByLeaver
<1> QED
  BY <1>1, <1>4, <1>5, <1>6, <1>8, <1>9 DEF ClientsInv

LEMMA ClientsStep == ClientsInv /\ [Next]_vars => ClientsInv'
<1> SUFFICES ASSUME ClientsInv, [Next]_vars PROVE ClientsInv'
  OBVIOUS
<1>0. /\ TypeCs /\ TypeSlots /\ TypeLib /\ ExchSound /\ TestSound /\ LibSound /\ InitSound
      /\ SuspendedByLeaver
  BY DEF ClientsInv
<1>1. CASE Module
  <2>1. PICK i \in DOMAIN exch : ServerStep(i)
    BY <1>1 DEF Module
  <2>2. UNCHANGED <<testVars, libVars>>
    BY <1>1 DEF Module
  <2>3. TypeCs' /\ ExchSound' /\ SuspendedByLeaver' /\ Undisturbed({})
    BY <1>0, <2>1, ServerUndisturbing
  <2>4. TypeSlots' /\ TestSound'
    BY <1>0, <2>2, <2>3, TestKept
  <2>5. LibSound' /\ InitSound' /\ TypeLib'
    BY <1>0, <2>2, <2>3, LibKept, InitKept, LibRecords DEF libVars, TypeLib
  <2> QED
    BY <2>3, <2>4, <2>5 DEF ClientsInv
<1>2. CASE TestStep /\ UNCHANGED libVars
  <2>1. TestGoal /\ Tester \in alive
    BY <1>2, TestStepSound DEF TestStep
  <2>2. Polite(Tester) /\ TypeCs' /\ ExchSound' /\ Undisturbed({Tester})
    BY <2>1 DEF TestGoal, Polite
  <2>3. LibSound' /\ InitSound' /\ TypeLib'
    BY <1>0, <1>2, <2>2, LibKept, InitKept, ClientsAssumption DEF libVars, TypeLib
  <2>4. SuspendedByLeaver'
    BY <1>0, <2>1, <2>2, SuspendedKept
  <2> QED
    BY <2>1, <2>2, <2>3, <2>4 DEF TestGoal, ClientsInv
<1>3. CASE LibStep /\ UNCHANGED testVars
  <2>1. ASSUME NEW c \in Callers \cap alive, LibGoal(c) PROVE ClientsInv'
    <3>1. Polite(c) /\ TypeCs' /\ ExchSound' /\ Undisturbed({c})
      BY <2>1 DEF LibGoal, Polite
    <3>2. TypeLib'
      <4>1. lib' \in [Callers -> CallerRecord] /\ init' = init
        BY <2>1 DEF LibGoal
      <4> QED
        BY <1>0, <4>1 DEF TypeLib, CallerRecord
    <3>3. LibSound'
      <4> SUFFICES ASSUME NEW d \in Callers PROVE CallerSound(d)'
        BY DEF LibSound
      <4>1. CASE d = c
        BY <2>1, <4>1 DEF LibGoal
      <4>2. CASE d # c
        BY <1>0, <2>1, <3>1, <4>2, CallerKept DEF LibGoal, LibSound
      <4> QED
        BY <4>1, <4>2
    <3>4. Initer \notin {c} /\ Tester \notin {c}
      BY LibAssumption, ClientsAssumption DEF Callers
    <3>5. InitSound' /\ TypeSlots' /\ TestSound'
      BY <1>0, <1>3, <2>1, <3>1, <3>4, InitKept, TestKept DEF LibGoal
    <3>6. SuspendedByLeaver'
      BY <1>0, <3>1, SuspendedKept
    <3> QED
      BY <3>1, <3>2, <3>3, <3>5, <3>6 DEF ClientsInv
  <2>2. ASSUME Initer \in alive, InitGoal PROVE ClientsInv'
    <3>1. Polite(Initer) /\ TypeCs' /\ ExchSound' /\ Undisturbed({Initer})
      BY <2>2 DEF InitGoal, Polite
    <3>2. TypeLib'
      <4>1. init' \in InitRecord /\ lib' = lib
        BY <2>2 DEF InitGoal
      <4> QED
        BY <1>0, <4>1 DEF TypeLib, InitRecord
    <3>3. {Initer} \cap Callers = {} /\ Tester \notin {Initer}
      BY LibAssumption, ClientsAssumption DEF Callers
    <3>4. LibSound' /\ InitSound' /\ TypeSlots' /\ TestSound'
      BY <1>0, <1>3, <2>2, <3>1, <3>3, LibKept, TestKept DEF InitGoal
    <3>5. SuspendedByLeaver'
      BY <1>0, <2>2, <3>1, SuspendedKept
    <3> QED
      BY <3>1, <3>2, <3>4, <3>5 DEF ClientsInv
  <2> QED
    BY <1>3, <2>1, <2>2, SendSound, ReceiveSound, BadBlockTypeSound, ClientEndSound, InitSendSound,
       InitReceiveSound, InitEndSound DEF LibStep
<1>4. CASE UNCHANGED vars
  <2>1. UNCHANGED <<csVars, testVars, libVars>> /\ exch' = exch
    BY <1>4 DEF vars, csVars
  <2>2. Undisturbed({})
    BY <1>0, <2>1 DEF Undisturbed
  <2>3. TypeCs' /\ ExchSound' /\ SuspendedByLeaver'
    BY <1>0, <2>1 DEF csVars, TypeCs, ExchSound, SuspendedByLeaver
  <2>4. TypeSlots' /\ TestSound' /\ LibSound' /\ InitSound' /\ TypeLib'
    BY <1>0, <2>1, <2>2, TestKept, LibKept, InitKept DEF libVars, TypeLib
  <2> QED
    BY <2>3, <2>4 DEF ClientsInv
<1> QED
  BY <1>1, <1>2, <1>3, <1>4 DEF Next

\* The invariant of the clients, whatever requests fetch the inputs.
THEOREM ClientsInvariant == Spec => []ClientsInv
BY ClientsInit, ClientsStep, PTL DEF Spec

\* What a function of the library says is the final report is the one the module
\* sent for that request, for any clients and any requests, but for the report of
\* an abort that succeeds, polled by a program.
THEOREM ReportIsTheModulesHolds == Spec => []ReportIsTheModules
<1>1. ClientsInv => ReportIsTheModules
  BY DEF ClientsInv, LibSound, CallerSound, ReportIsTheModules, FinalSeen
<1> QED
  BY <1>1, ClientsInvariant, PTL

\* The init program says the module is initialised only when it is, although its
\* status is that of the first reply and its errno that of the last.
THEOREM InitIsTrueHolds == Spec => []InitIsTrue
<1>1. ClientsInv => InitIsTrue
  BY CsAssumption DEF ClientsInv, TypeCs, InitSound, InitIsTrue
<1> QED
  BY <1>1, ClientsInvariant, PTL

\* The control task is suspended only by a client that left before it had read
\* the replies of a request the module had begun to serve.
THEOREM SuspendedByLeaverHolds == Spec => []SuspendedByLeaver
<1>1. ClientsInv => SuspendedByLeaver
  BY DEF ClientsInv
<1> QED
  BY <1>1, ClientsInvariant, PTL

-----------------------------------------------------------------------------
(* The table of the test program, when inputs are fetched with control         *)
(* requests                                                                    *)

LEMMA OnSlotsFinite == OnSlots \in SUBSET Acti /\ IsFiniteSet(OnSlots)
<1>1. OnSlots \subseteq Acti
  BY DEF OnSlots
<1>2. IsFiniteSet(Acti)
  BY FS_Interval, TestAssumption DEF Acti
<1> QED
  BY <1>1, <1>2, FS_Subset

\* What another client, or the module, does is not seen in the table.
LEMMA TableKept ==
  ASSUME TableSound, SlotsOwned, NEW C, Undisturbed(C), Tester \notin C,
         UNCHANGED testVars
  PROVE  TableSound'
<1>1. slot' = slot /\ nbRqstOn' = nbRqstOn /\ test' = test
  BY DEF testVars
<1>2. OnSlots' = OnSlots
  BY <1>1 DEF OnSlots
<1>3. \A i \in DOMAIN exch' : exch'[i].client = Tester /\ exch'[i].open =>
        i \in DOMAIN exch /\ exch[i].client = Tester /\ exch[i].open
  BY DEF Undisturbed
<1>4. NoneLost'
  BY <1>1, <1>2, <1>3 DEF TableSound, NoneLost, Owned, At
<1>5. PathSound'
  BY <1>1, <1>2 DEF TableSound, PathSound, Silent
<1>6. \A i \in DOMAIN exch : Acked(i) => Acked(i)'
  BY DEF Undisturbed, Acked
<1>7. AckedSound'
  BY <1>1, <1>2, <1>6 DEF TableSound, AckedSound, SlotsOwned, Owned, At
<1> QED
  BY <1>1, <1>2, <1>4, <1>5, <1>7 DEF TableSound

\* Neither is a step of the program that touches no slot and no request.
LEMMA TableStill ==
  ASSUME TableSound, UNCHANGED <<slot, nbRqstOn, exch>>, test.pc \notin {"abort", "interm"}
  PROVE  OnSlots' = OnSlots /\ NoneLost' /\ AckedSound' /\ (nbRqstOn = Cardinality(OnSlots))'
<1>1. OnSlots' = OnSlots
  BY DEF OnSlots
<1>2. NoneLost' /\ (nbRqstOn = Cardinality(OnSlots))'
  BY <1>1 DEF TableSound, NoneLost, Owned, At
<1>3. AckedSound'
  BY <1>1 DEF TableSound, AckedSound, Acked, At
<1> QED
  BY <1>1, <1>2, <1>3

LEMMA ReturnedPath ==
  ASSUME ClientsInv, test.pc \in {"confirm", "interm", "final", "poll", "abort"},
         test' = Returned, ~Silent \/ test.acti \notin OnSlots'
  PROVE  PathSound'
<1>1. test' \in TestRecord
  BY ReturnedType
<1>2. /\ Silent => test'.pc = "confirm" /\ test'.acti = test.acti /\ test'.outer = None
      /\ ~Silent => test'.pc = "menu" /\ test'.outer = None
  BY <1>1, ReturnedSound
<1> QED
  BY <1>2 DEF PathSound, Silent

\* The program waits at no slot it did not take.
LEMMA TableMoves ==
  ASSUME ClientsInv, FetchByCntrl, TableSound,
         testSendRequest \/ testSendAndGetInput \/ NotSent \/ testEnd
  PROVE  TableSound'
<1>1. UNCHANGED <<slot, nbRqstOn, exch>> /\ test.pc \in {"menu", "call", "confirm"}
  BY DEF testSendRequest, testSendAndGetInput, NotSent, testEnd, csVars, At
<1>2. OnSlots' = OnSlots /\ NoneLost' /\ AckedSound' /\ (nbRqstOn = Cardinality(OnSlots))'
  BY <1>1, TableStill
<1>3. PathSound'
  <2>1. CASE testSendRequest
    <3>1. PICK r \in DOMAIN Getter, a \in Acti :
            ~slot[a].on /\ test' = [test EXCEPT !.pc = "call", !.acti = a, !.rqst = r]
      BY <2>1 DEF testSendRequest
    <3>2. test'.pc = "call" /\ test'.acti = a /\ test'.outer = test.outer
      BY <3>1, TestFacts DEF TestRecord
    <3>3. test.outer = None
      BY <2>1, TestFacts DEF testSendRequest, TestSound, At, Silent
    <3>4. a \notin OnSlots
      BY <3>1 DEF OnSlots
    <3> QED
      BY <1>2, <3>2, <3>3, <3>4 DEF PathSound, Silent
  <2>2. CASE testSendAndGetInput
    <3>1. test.pc = "call" /\ test.acti \notin OnSlots /\ test.rqst \in DOMAIN Getter
      BY <2>2, TestFacts DEF testSendAndGetInput, TestSound, TableSound, PathSound, At
    <3>2. CASE test' = [test EXCEPT !.pc = "confirm"]
      <4>1. /\ test'.pc = "confirm" /\ test'.acti = test.acti /\ test'.rqst = test.rqst
            /\ test'.outer = test.outer
        BY <3>2, TestFacts DEF TestRecord
      <4> QED
        BY <1>2, <3>1, <4>1 DEF TableSound, PathSound, Silent
    <3>3. CASE /\ Getter[test.rqst] # None
               /\ test' = [test EXCEPT !.pc = "call", !.rqst = Getter[test.rqst],
                                       !.outer = test.rqst]
      <4>1. test'.pc = "call" /\ test'.acti = test.acti /\ test'.rqst = Getter[test.rqst]
        BY <3>3, TestFacts DEF TestRecord
      <4>2. Getter[test.rqst] \in CntrlRqsts
        BY <3>1, <3>3 DEF FetchByCntrl
      <4> QED
        BY <1>2, <3>1, <4>1, <4>2 DEF PathSound, Silent
    <3> QED
      BY <2>2, <3>2, <3>3 DEF testSendAndGetInput
  <2>3. CASE NotSent
    <3>1. test.pc = "confirm" /\ test.acti \notin OnSlots /\ test' = Returned
      BY <2>3 DEF NotSent, TableSound, PathSound, At
    <3> QED
      BY <1>2, <3>1, ReturnedPath
  <2>4. CASE testEnd
    <3>1. test'.pc = "exited" /\ test'.outer = None
      BY <2>4, TestFacts DEF testEnd, TestRecord, TestSound, At, Silent
    <3> QED
      BY <3>1 DEF PathSound, Silent
  <2> QED
    BY <2>1, <2>2, <2>3, <2>4
<1> QED
  BY <1>2, <1>3 DEF TableSound

\* A request that is sent takes a slot that was off.
LEMMA TableSent ==
  ASSUME ClientsInv, FetchByCntrl, TableSound,
         testSendAndRcvCntrlRqst \/ testSendAndOrRcvExecRqst
  PROVE  TableSound'
<1>1. At("confirm") /\ UNCHANGED <<server, alive>>
  BY DEF testSendAndRcvCntrlRqst, testSendAndOrRcvExecRqst
<1>2. test.acti \in Acti \ OnSlots
  BY <1>1, TestFacts DEF TestSound, TableSound, PathSound, At
<1>3. testSendRqst
  BY <1>2 DEF testSendAndRcvCntrlRqst, testSendAndOrRcvExecRqst, OnSlots
<1>4. /\ Added(Tester, test.rqst) /\ OnSlots' = OnSlots \cup {test.acti}
      /\ slot'[test.acti].id = NewId
      /\ \A b \in Acti \ {test.acti} : slot'[b] = slot[b]
  BY <1>1, <1>3, SentSound
<1>5. nbRqstOn' = Cardinality(OnSlots')
  BY <1>2, <1>3, <1>4, OnSlotsFinite, FS_AddElement DEF testSendRqst, TableSound
<1>6. NoneLost'
  <2> SUFFICES ASSUME NEW i \in DOMAIN exch', Owned(i, Tester)'
               PROVE  \E a \in OnSlots' : slot'[a].id = i
    BY DEF NoneLost
  <2>1. CASE i = NewId
    BY <1>4, <2>1
  <2>2. CASE i # NewId
    <3>1. Owned(i, Tester) /\ i \in DOMAIN exch
      BY <1>4, <2>2 DEF Added, Owned
    <3>2. PICK a \in OnSlots : slot[a].id = i
      BY <1>1, <3>1 DEF TableSound, NoneLost, At
    <3> QED
      BY <1>2, <1>4, <3>2, OnSlotsFinite
  <2> QED
    BY <2>1, <2>2
<1>7. PathSound'
  <2>1. CASE testSendAndRcvCntrlRqst
    <3>1. test'.pc = "final" /\ test'.rqst = test.rqst /\ test.rqst \in CntrlRqsts
      BY <2>1, TestFacts DEF testSendAndRcvCntrlRqst, TestRecord
    <3> QED
      BY <3>1 DEF PathSound
  <2>2. CASE testSendAndOrRcvExecRqst
    <3>1. PICK w \in BOOLEAN : test' = [test EXCEPT !.pc = "interm", !.wait = w]
      BY <1>2, <2>2, TestAssumption DEF testSendAndOrRcvExecRqst, OnSlots
    <3>2. test'.pc = "interm" /\ test'.outer = test.outer
      BY <3>1, TestFacts DEF TestRecord
    <3>3. test.outer = None
      BY <2>2, CsAssumption DEF testSendAndOrRcvExecRqst, TableSound, PathSound, Silent
    <3> QED
      BY <3>2, <3>3 DEF PathSound, Silent
  <2> QED
    BY <2>1, <2>2
<1>8. \A a \in OnSlots : a = test.acti \/ Acked(slot[a].id)'
  <2> SUFFICES ASSUME NEW a \in OnSlots, a # test.acti PROVE Acked(slot[a].id)'
    OBVIOUS
  <2>1. slot'[a] = slot[a] /\ slot[a].id \in DOMAIN exch /\ Acked(slot[a].id)
    BY <1>1, <1>4, OnSlotsFinite, TestFacts DEF TableSound, AckedSound, SlotsOwned, Owned, At
  <2> QED
    BY <1>4, <2>1 DEF Added, Acked
<1>9. AckedSound'
  <2>1. CASE testSendAndRcvCntrlRqst
    <3>1. exch'[NewId].rqst \notin ExecRqsts
      BY <1>4, <2>1, CsAssumption DEF testSendAndRcvCntrlRqst, Added
    <3> QED
      BY <1>4, <1>8, <3>1 DEF AckedSound, Acked
  <2>2. CASE testSendAndOrRcvExecRqst
    <3>1. PICK w \in BOOLEAN : test' = [test EXCEPT !.pc = "interm", !.wait = w]
      BY <1>2, <2>2, TestAssumption DEF testSendAndOrRcvExecRqst, OnSlots
    <3>2. test'.pc = "interm" /\ test'.acti = test.acti
      BY <3>1, TestFacts DEF TestRecord
    <3> QED
      BY <1>4, <1>8, <3>2 DEF AckedSound, At
  <2> QED
    BY <2>1, <2>2
<1> QED
  BY <1>5, <1>6, <1>7, <1>9 DEF TableSound

\* The slot goes off with the request.
LEMMA TableRcv ==
  ASSUME ClientsInv, TableSound, NEW a \in OnSlots, NEW block, NEW status,
         testRcvReply(a, block, status), test.pc # "abort",
         At("interm") => test.acti = a /\ block = "BLOCK_ON_INTERMED_REPLY"
  PROVE  /\ NoneLost' /\ (nbRqstOn = Cardinality(OnSlots))'
         /\ AckedSound'
<1>0. Acked(slot[a].id) /\ status # "WAITING_INTERMED_REPLY"
  <2>1. /\ Owned(slot[a].id, Tester) /\ status \in ReplyStatus(exch[slot[a].id], block)
        /\ ExchSound
    BY TestFacts DEF testRcvReply, SlotsOwned
  <2>2. exch[slot[a].id].final = "none" <=> exch[slot[a].id].stage # "answered"
    BY <2>1 DEF ExchSound, Owned
  <2>3. CASE At("interm")
    BY <2>1, <2>2, <2>3 DEF ReplyStatus, FinalStatus, Acked
  <2>4. CASE ~At("interm")
    <3>1. Acked(slot[a].id)
      BY <2>4 DEF TableSound, AckedSound
    <3> QED
      BY <2>1, <2>2, <3>1 DEF ReplyStatus, FinalStatus, Acked
  <2> QED
    BY <2>3, <2>4
<1>1. /\ ReadOf(slot[a].id, status)
      /\ \A b \in Acti : slot'[b].id = slot[b].id
      /\ OnSlots' = IF status = "WAITING_FINAL_REPLY" THEN OnSlots ELSE OnSlots \ {a}
  BY RcvSound
<1>2. nbRqstOn' = Cardinality(OnSlots')
  <2>1. CASE status = "WAITING_FINAL_REPLY"
    BY <1>1, <2>1 DEF testRcvReply, OffSlot, TableSound
  <2>2. CASE status # "WAITING_FINAL_REPLY"
    <3>1. nbRqstOn' = nbRqstOn - 1
      BY <2>2 DEF testRcvReply, OffSlot
    <3> QED
      BY <1>1, <2>2, <3>1, OnSlotsFinite, FS_RemoveElement DEF TableSound
  <2> QED
    BY <2>1, <2>2
<1>3. NoneLost'
  <2> SUFFICES ASSUME NEW i \in DOMAIN exch', Owned(i, Tester)'
               PROVE  \E b \in OnSlots' : slot'[b].id = i
    BY DEF NoneLost
  <2>1. slot[a].id \in DOMAIN exch /\ Owned(slot[a].id, Tester)
    BY TestFacts DEF SlotsOwned, Owned
  <2>2. Owned(i, Tester) /\ i \in DOMAIN exch
    BY <1>1, <2>1 DEF ReadOf, Owned
  <2>3. PICK b \in OnSlots : slot[b].id = i
    BY <2>2 DEF TableSound, NoneLost, At
  <2>4. b \in Acti
    BY OnSlotsFinite
  <2>5. CASE status = "WAITING_FINAL_REPLY"
    BY <1>1, <2>3, <2>4, <2>5
  <2>6. CASE status # "WAITING_FINAL_REPLY"
    <3>1. i # slot[a].id
      BY <1>0, <1>1, <2>6 DEF ReadOf, Owned, Unfinished
    <3> QED
      BY <1>1, <2>3, <2>4, <2>6, <3>1
  <2> QED
    BY <2>5, <2>6
<1>4. AckedSound'
  <2> SUFFICES ASSUME NEW b \in OnSlots' PROVE Acked(slot[b].id)'
    BY DEF AckedSound
  <2>1. b \in OnSlots /\ b \in Acti /\ slot'[b].id = slot[b].id
    BY <1>1, OnSlotsFinite
  <2>2. slot[b].id \in DOMAIN exch /\ slot[a].id \in DOMAIN exch
    BY <2>1, TestFacts DEF SlotsOwned, Owned
  <2>3. Acked(slot[b].id)
    BY <1>0, <2>1 DEF TableSound, AckedSound
  <2>4. \A i \in DOMAIN exch : Acked(i) => Acked(i)'
    BY <1>1, <2>2 DEF ReadOf, Acked
  <2> QED
    BY <2>1, <2>2, <2>3, <2>4
<1> QED
  BY <1>2, <1>3, <1>4

LEMMA TableReplies ==
  ASSUME ClientsInv, FetchByCntrl, TableSound,
         RcvIntermediate \/ RcvFinal \/ RcvPoll \/ testGetReplies
  PROVE  TableSound'
<1>1. CASE RcvIntermediate
  <2>1. PICK status \in {"WAITING_FINAL_REPLY", "FINAL_REPLY_OK", "ERROR"} :
          /\ testRcvReply(test.acti, "BLOCK_ON_INTERMED_REPLY", status)
          /\ test' = IF status = "WAITING_FINAL_REPLY" /\ test.wait
                     THEN [test EXCEPT !.pc = "final"]
                     ELSE Returned
    BY <1>1 DEF RcvIntermediate
  <2>2. test.acti \in OnSlots /\ test.pc = "interm" /\ ~Silent
    BY <1>1, TestFacts DEF RcvIntermediate, TestSound, TableSound, PathSound, At
  <2>3. NoneLost' /\ AckedSound' /\ (nbRqstOn = Cardinality(OnSlots))'
    BY <2>1, <2>2, TableRcv
  <2>4. CASE test' = Returned
    <3>1. PathSound'
      BY <2>2, <2>4, ReturnedPath
    <3> QED
      BY <2>3, <3>1 DEF TableSound
  <2>5. CASE test' = [test EXCEPT !.pc = "final"]
    <3>1. test'.pc = "final" /\ test'.outer = test.outer
      BY <2>5, TestFacts DEF TestRecord
    <3> QED
      BY <2>2, <2>3, <3>1 DEF TableSound, PathSound, Silent
  <2> QED
    BY <2>1, <2>4, <2>5
<1>2. CASE RcvFinal
  <2>1. PICK status \in {"FINAL_REPLY_OK", "ERROR"} :
          testRcvReply(test.acti, "BLOCK_ON_FINAL_REPLY", status)
    BY <1>2 DEF RcvFinal
  <2>2. test.acti \in OnSlots /\ test.pc = "final" /\ test' = Returned
    BY <1>2, TestFacts DEF RcvFinal, TestSound, At
  <2>3. NoneLost' /\ AckedSound' /\ (nbRqstOn = Cardinality(OnSlots))'
    BY <2>1, <2>2, TableRcv DEF At
  <2>4. test.acti \notin OnSlots'
    BY <2>1, <2>2, RcvSound
  <2> QED
    BY <2>2, <2>3, <2>4, ReturnedPath DEF TableSound
<1>3. CASE RcvPoll
  BY <1>3 DEF RcvPoll, TableSound, PathSound, At
<1>4. CASE testGetReplies
  <2>1. test.outer = None /\ test.pc \in {"menu", "replies"}
    BY <1>4, TestFacts DEF testGetReplies, TestSound, At, Silent
  <2>2. test'.pc \in {"menu", "replies"} /\ test'.outer = None
    BY <1>4, <2>1, TestFacts DEF testGetReplies, TestRecord, At
  <2>3. PathSound'
    BY <2>2 DEF PathSound, Silent
  <2>4. CASE UNCHANGED <<slot, nbRqstOn, csVars>>
    <3>1. NoneLost' /\ AckedSound' /\ (nbRqstOn = Cardinality(OnSlots))'
      BY <2>1, <2>4, TableStill DEF csVars
    <3> QED
      BY <2>3, <3>1 DEF TableSound
  <2>5. CASE /\ test.acti \in OnSlots
             /\ \E status : testRcvReply(test.acti, "NO_BLOCK", status)
    <3>1. NoneLost' /\ AckedSound' /\ (nbRqstOn = Cardinality(OnSlots))'
      BY <2>1, <2>5, TableRcv DEF At
    <3> QED
      BY <2>3, <3>1 DEF TableSound
  <2>6. ASSUME At("replies"), ~(test.acti > NbSlots) PROVE test.acti \in Acti
    BY <2>6, TestFacts, TestAssumption DEF TestSound, Acti
  <2> QED
    BY <1>4, <2>4, <2>5, <2>6 DEF testGetReplies, OnSlots
<1> QED
  BY <1>1, <1>2, <1>3, <1>4

\* An abort has no slot, and no other request is without one.
LEMMA TableAbort ==
  ASSUME ClientsInv, FetchByCntrl, TableSound, testAbortRqst
  PROVE  TableSound'
<1>1. slot' = slot /\ nbRqstOn' = nbRqstOn /\ OnSlots' = OnSlots
  BY DEF testAbortRqst, OnSlots
<1>2. test.outer = None
  BY TestFacts DEF testAbortRqst, TestSound, At, Silent
<1>3. CASE /\ At("menu") /\ UNCHANGED <<server, alive>>
           /\ \E r \in AbortRqsts :
                /\ csClientRqstSend(Tester, r)
                /\ test' = [test EXCEPT !.pc = "abort", !.rqst = r, !.id = NewId]
  <2>1. PICK r \in AbortRqsts :
                /\ csClientRqstSend(Tester, r)
                /\ test' = [test EXCEPT !.pc = "abort", !.rqst = r, !.id = NewId]
    BY <1>3
  <2>2. Added(Tester, r)
    BY <1>3, <2>1, TestFacts, SendPolite DEF Requests
  <2>3. test'.pc = "abort" /\ test'.id = NewId /\ test'.outer = None
    BY <1>2, <2>1, TestFacts DEF TestRecord
  <2>4. NoneLost'
    <3> SUFFICES ASSUME NEW i \in DOMAIN exch', Owned(i, Tester)', i # NewId
                 PROVE  \E a \in OnSlots : slot[a].id = i
      BY <1>1, <2>3 DEF NoneLost, At
    <3>1. Owned(i, Tester) /\ i \in DOMAIN exch
      BY <2>2 DEF Added, Owned
    <3> QED
      BY <1>3, <3>1 DEF TableSound, NoneLost, At
  <2>5. PathSound'
    BY <2>3 DEF PathSound, Silent
  <2>6. AckedSound'
    BY <1>1, <1>3, <2>2, TestFacts
    DEF Added, TableSound, AckedSound, Acked, SlotsOwned, Owned, At
  <2> QED
    BY <1>1, <2>4, <2>5, <2>6 DEF TableSound
<1>4. CASE /\ At("abort")
           /\ \E status \in ReplyStatus(exch[test.id], "BLOCK_ON_FINAL_REPLY") :
                csClientReplyRcv(test.id, status)
           /\ \/ test' = [test EXCEPT !.pc = "exited"]
              \/ test' = Returned
           /\ server' = server /\ alive' \subseteq alive
  <2>1. PICK status \in ReplyStatus(exch[test.id], "BLOCK_ON_FINAL_REPLY") :
                csClientReplyRcv(test.id, status)
    BY <1>4
  <2>2. Owned(test.id, Tester)
    BY <1>4, TestFacts DEF TestSound
  <2>3. ReadOf(test.id, status)
    BY <1>4, <2>1, <2>2, TestFacts, ReadPolite
  <2>4. status \notin Unfinished
    BY DEF ReplyStatus, FinalStatus, Unfinished
  <2>5. NoneLost'
    <3> SUFFICES ASSUME NEW i \in DOMAIN exch', Owned(i, Tester)'
                 PROVE  \E a \in OnSlots : slot[a].id = i
      BY <1>1 DEF NoneLost
    <3>1. i # test.id
      BY <2>3, <2>4 DEF ReadOf, Owned
    <3>2. Owned(i, Tester) /\ i \in DOMAIN exch
      BY <2>3, <3>1 DEF ReadOf, Owned
    <3> QED
      BY <3>1, <3>2 DEF TableSound, NoneLost
  <2>6. test'.pc \in {"exited", "menu"} /\ test'.outer = None
    <3>1. CASE test' = [test EXCEPT !.pc = "exited"]
      BY <1>2, <3>1, TestFacts DEF TestRecord
    <3>2. CASE test' = Returned
      BY <1>2, <3>2, ReturnedType, ReturnedSound DEF Silent
    <3> QED
      BY <1>4, <3>1, <3>2
  <2>7. AckedSound'
    <3>1. \A i \in DOMAIN exch : Acked(i) => Acked(i)'
      BY <2>2, <2>3 DEF ReadOf, Owned, Acked
    <3> QED
      BY <1>1, <1>4, <3>1, TestFacts DEF TableSound, AckedSound, SlotsOwned, Owned, At
  <2> QED
    BY <1>1, <2>5, <2>6, <2>7 DEF TableSound, PathSound, Silent
<1> QED
  BY <1>3, <1>4 DEF testAbortRqst, csClientEnd

LEMMA TableInit == Init => TableSound
<1> SUFFICES ASSUME Init PROVE TableSound
  OBVIOUS
<1>1. OnSlots = {} /\ exch = <<>> /\ nbRqstOn = 0 /\ test.pc = "menu" /\ test.outer = None
  BY DEF Init, InitTest, InitCs, OnSlots
<1> QED
  BY <1>1, FS_EmptySet DEF TableSound, PathSound, NoneLost, AckedSound, Silent

LEMMA TableStep == FetchByCntrl /\ ClientsInv /\ TableSound /\ [Next]_vars => TableSound'
<1> SUFFICES ASSUME FetchByCntrl, ClientsInv, TableSound, [Next]_vars PROVE TableSound'
  OBVIOUS
<1>0. TypeCs /\ ExchSound /\ SuspendedByLeaver /\ SlotsOwned
  BY TestFacts DEF ClientsInv
<1>1. CASE Module
  <2>1. PICK i \in DOMAIN exch : ServerStep(i)
    BY <1>1 DEF Module
  <2>2. Undisturbed({})
    BY <1>0, <2>1, ServerUndisturbing
  <2> QED
    BY <1>0, <1>1, <2>2, TableKept DEF Module
<1>2. CASE TestStep /\ UNCHANGED libVars
  BY <1>2, TableMoves, TableSent, TableReplies, TableAbort DEF TestStep
<1>3. CASE LibStep /\ UNCHANGED testVars
  <2>1. \E c \in Callers \cup {Initer} : Polite(c)
    BY <1>3, SendSound, ReceiveSound, BadBlockTypeSound, ClientEndSound, InitSendSound, InitReceiveSound,
       InitEndSound DEF LibStep, LibGoal, InitGoal
  <2>2. PICK c \in Callers \cup {Initer} : Undisturbed({c})
    BY <2>1 DEF Polite
  <2> QED
    BY <1>0, <1>3, <2>2, ClientsAssumption, TableKept
<1>4. CASE UNCHANGED vars
  <2>1. UNCHANGED testVars /\ exch' = exch
    BY <1>4 DEF vars, csVars
  <2>2. Undisturbed({})
    BY <2>1 DEF Undisturbed
  <2> QED
    BY <1>0, <2>1, <2>2, TableKept
<1> QED
  BY <1>1, <1>2, <1>3, <1>4 DEF Next

\* The table of the test program, when the inputs of its requests are fetched with
\* control requests.
THEOREM TableInvariant == FetchByCntrl => (Spec => [](ClientsInv /\ TableSound))
<1> SUFFICES ASSUME FetchByCntrl PROVE Spec => [](ClientsInv /\ TableSound)
  OBVIOUS
<1>1. Init => ClientsInv /\ TableSound
  BY ClientsInit, TableInit
<1>2. (ClientsInv /\ TableSound) /\ [Next]_vars => (ClientsInv /\ TableSound)'
  BY ClientsStep, TableStep
<1> QED
  BY <1>1, <1>2, PTL DEF Spec

\* nbRqstOn counts the slots that are on, a slot that is on holds the id of a
\* request whose final reply was not read, no two the same, and no request of the
\* test program is without its slot, for any number of slots and requests.
THEOREM SlotsAgreeHolds == FetchByCntrl => (Spec => []SlotsAgree)
<1> SUFFICES ASSUME FetchByCntrl PROVE Spec => []SlotsAgree
  OBVIOUS
<1>1. ClientsInv /\ TableSound => SlotsAgree
  <2> SUFFICES ASSUME ClientsInv, TableSound PROVE SlotsAgree
    OBVIOUS
  <2>1. /\ nbRqstOn = Cardinality(OnSlots)
        /\ \A a \in OnSlots : /\ Owned(slot[a].id, Tester)
                              /\ exch[slot[a].id].rqst = slot[a].rqst
        /\ \A a, b \in OnSlots : slot[a].id = slot[b].id => a = b
    BY TestFacts DEF TableSound, SlotsOwned
  <2>2. At("abort") => Owned(test.id, Tester)
    BY TestFacts DEF TestSound
  <2>3. {i \in DOMAIN exch : exch[i].client = Tester /\ exch[i].open}
          = {slot[a].id : a \in OnSlots} \cup (IF At("abort") THEN {test.id} ELSE {})
    BY <2>1, <2>2 DEF TableSound, NoneLost, Owned
  <2> QED
    BY <2>1, <2>3 DEF SlotsAgree, Owned
<1> QED
  BY <1>1, TableInvariant, PTL

\* When a request is confirmed the slot it will take is off: the fetch of its
\* input, in the same slot, is over.
THEOREM FetchIsOverHolds == FetchByCntrl => (Spec => []FetchIsOver)
<1> SUFFICES ASSUME FetchByCntrl PROVE Spec => []FetchIsOver
  OBVIOUS
<1>1. ClientsInv /\ TableSound => FetchIsOver
  BY TestFacts DEF TableSound, PathSound, TestSound, FetchIsOver, OnSlots, At
<1> QED
  BY <1>1, TableInvariant, PTL

\* The clients and the module keep their types; the count of the test program
\* stays below the requests sent.
THEOREM ClientsTypeCorrect == FetchByCntrl => (Spec => []TypeOK)
<1> SUFFICES ASSUME FetchByCntrl PROVE Spec => []TypeOK
  OBVIOUS
<1>1. ClientsInv /\ TableSound => TypeOK
  <2> SUFFICES ASSUME ClientsInv, TableSound PROVE TypeOK
    OBVIOUS
  <2> DEFINE f == [a \in OnSlots |-> slot[a].id]
  <2>1. DOMAIN exch = 1 .. Len(exch) /\ Len(exch) \in Nat /\ Len(exch) <= MaxSent
    BY TestFacts DEF TypeCs
  <2>2. f \in Injection(OnSlots, 1 .. Len(exch))
    BY <2>1, TestFacts DEF Injection, IsInjective, SlotsOwned, Owned
  <2>3. IsFiniteSet(1 .. Len(exch)) /\ Cardinality(1 .. Len(exch)) = Len(exch)
    <3>1. Len(exch) \in Int
      BY <2>1
    <3> HIDE <2>1
    <3>2. /\ IsFiniteSet(1 .. Len(exch))
          /\ Cardinality(1 .. Len(exch)) = IF 1 > Len(exch) THEN 0 ELSE Len(exch) - 1 + 1
      BY <3>1, FS_Interval
    <3> QED
      BY <2>1, <3>2
  <2>4. Cardinality(OnSlots) <= Len(exch)
    BY <2>2, <2>3, FS_Injection
  <2>5. Cardinality(OnSlots) \in Nat
    BY OnSlotsFinite, FS_CardinalityType
  <2>6. nbRqstOn \in 0 .. MaxSent
    BY <2>1, <2>4, <2>5, CsAssumption DEF TableSound
  <2> QED
    BY <2>6 DEF ClientsInv, TypeSlots, SlotRecord, TestRecord, TypeOK, TypeTest
<1> QED
  BY <1>1, TableInvariant, PTL
===============================================================================
