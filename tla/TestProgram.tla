----------------------------- MODULE TestProgram -----------------------------
(***************************************************************************)
(* The interactive test program of a module (testLib.c and the generated   *)
(* test.c, testExec.c, testCntrl.c).  It keeps the requests in progress in *)
(* a table of slots; a request may fetch its input with another one, in    *)
(* the same slot, before it is sent itself.                                *)
(***************************************************************************)
EXTENDS CsClient

CONSTANTS
  Tester,      \* the client that is the test program
  NbSlots,     \* CLIENT_NMAX_RQST_ID
  Getter,      \* Getter[r]: the request that fetches the input of r, or None
  None,
  WaitFinals   \* what the variable waitFinal may hold when it was not set

ASSUME TestAssumption ==
  /\ Tester \in Clients /\ NbSlots \in Nat \ {0}
  /\ Getter \in [ExecRqsts \cup CntrlRqsts ->
                   ExecRqsts \cup CntrlRqsts \cup {None}]
  /\ None \notin Requests /\ WaitFinals \subseteq BOOLEAN /\ WaitFinals # {}

VARIABLES
  slot,     \* acti[]: the requests in progress
  nbRqstOn, \* how many there are
  test      \* where the program is: the function, its slot, its request, the
            \* request whose input it fetches, the request id, waitFinal

testVars == <<slot, nbRqstOn, test>>

Acti == 1 .. NbSlots

TypeTest ==
  /\ slot \in [Acti -> [on : BOOLEAN, rqst : Requests \cup {None}, id : 0 .. MaxSent]]
  /\ nbRqstOn \in 0 .. MaxSent
  /\ test \in [pc    : {"menu", "call", "confirm", "interm", "final", "poll",
                        "replies", "abort", "exited"},
               acti  : 0 .. NbSlots + 1,
               rqst  : Requests \cup {None},
               outer : Requests \cup {None},
               id    : 0 .. MaxSent,
               wait  : BOOLEAN]

\* testInit: an empty table, the menu.
InitTest ==
  /\ slot = [a \in Acti |-> [on |-> FALSE, rqst |-> None, id |-> 0]]
  /\ nbRqstOn = 0
  /\ test = [pc |-> "menu", acti |-> 0, rqst |-> None, outer |-> None,
             id |-> 0, wait |-> FALSE]

At(pc) == test.pc = pc
Silent == test.outer # None

\* The request function returns: to the one that fetched its input, or to the
\* menu, or to the loop over the requests in progress.
Returned == IF Silent
            THEN [test EXCEPT !.pc = "confirm", !.rqst = test.outer, !.outer = None]
            ELSE [test EXCEPT !.pc = "menu", !.rqst = None, !.acti = 0]

-----------------------------------------------------------------------------
\* testSendRequest: the first free slot is given to the request chosen in the
\* menu, whatever its kind.
testSendRequest ==
  /\ At("menu")
  /\ nbRqstOn < NbSlots
  /\ \E r \in DOMAIN Getter, a \in Acti :
       /\ ~slot[a].on /\ \A b \in 1 .. (a - 1) : slot[b].on
       /\ test' = [test EXCEPT !.pc = "call", !.acti = a, !.rqst = r]
  /\ UNCHANGED <<slot, nbRqstOn, csVars>>

\* testPrintGetInputMenu and testSendAndGetInput: the user has the input fetched
\* by another request, or not.
testSendAndGetInput ==
  /\ At("call")
  /\ \/ test' = [test EXCEPT !.pc = "confirm"]
     \/ /\ ~Silent /\ Getter[test.rqst] # None
        /\ test' = [test EXCEPT !.pc = "call", !.rqst = Getter[test.rqst],
                                !.outer = test.rqst]
  /\ UNCHANGED <<slot, nbRqstOn, csVars>>

\* Mutant: a request is counted before it is known to be sent.
NotSentCounted ==
  /\ At("confirm")
  /\ ~Silent \/ SendError
  /\ test' = Returned
  /\ nbRqstOn' = nbRqstOn + 1
  /\ UNCHANGED <<slot, csVars>>

\* The user gives up at testConfirmExecRqst or testConfirmCntrlRqst, or the
\* request cannot be sent.
NotSent ==
  /\ At("confirm")
  /\ ~Silent \/ SendError
  /\ test' = Returned
  /\ UNCHANGED <<slot, nbRqstOn, csVars>>

\* testSendRqst
testSendRqst ==
  /\ csClientRqstSend(Tester, test.rqst)
  /\ slot' = [slot EXCEPT ![test.acti] =
                [on |-> TRUE, rqst |-> test.rqst, id |-> NewId]]
  /\ nbRqstOn' = nbRqstOn + 1

\* testSendAndRcvCntrlRqst, up to the reply.
testSendAndRcvCntrlRqst ==
  /\ At("confirm") /\ test.rqst \in CntrlRqsts
  /\ testSendRqst
  /\ test' = [test EXCEPT !.pc = "final", !.wait = TRUE]
  /\ UNCHANGED <<server, alive>>

\* testSendAndOrRcvExecRqst, up to the intermediate reply.  A silent call does
\* not set waitFinal.  If the slot is on, the request it holds is polled.
testSendAndOrRcvExecRqst ==
  /\ At("confirm") /\ test.rqst \in ExecRqsts
  /\ IF slot[test.acti].on
     THEN /\ test' = [test EXCEPT !.pc = "poll"]
          /\ UNCHANGED <<slot, nbRqstOn, exch>>
     ELSE /\ testSendRqst
          /\ \E w \in IF Silent THEN WaitFinals ELSE BOOLEAN :
               test' = [test EXCEPT !.pc = "interm", !.wait = w]
  /\ UNCHANGED <<server, alive>>

\* Mutant: only a successful final reply takes the slot off.
OffSlotOK(a, status) ==
  IF status \in {"WAITING_FINAL_REPLY", "ERROR"}
  THEN UNCHANGED <<slot, nbRqstOn>>
  ELSE /\ slot' = [slot EXCEPT ![a].on = FALSE]
       /\ nbRqstOn' = nbRqstOn - 1

\* testRcvReply takes the slot off, unless the final reply is awaited.
OffSlot(a, status) ==
  IF status = "WAITING_FINAL_REPLY"
  THEN UNCHANGED <<slot, nbRqstOn>>
  ELSE /\ slot' = [slot EXCEPT ![a].on = FALSE]
       /\ nbRqstOn' = nbRqstOn - 1

testRcvReply(a, block, status) ==
  /\ status \in ReplyStatus(exch[slot[a].id], block)
  /\ csClientReplyRcv(slot[a].id, status)
  /\ OffSlot(a, status)
  /\ UNCHANGED <<server, alive>>

RcvIntermediate ==
  /\ At("interm")
  /\ \E status \in {"WAITING_FINAL_REPLY", "FINAL_REPLY_OK", "ERROR"} :
       /\ testRcvReply(test.acti, "BLOCK_ON_INTERMED_REPLY", status)
       /\ test' = IF status = "WAITING_FINAL_REPLY" /\ test.wait
                  THEN [test EXCEPT !.pc = "final"]
                  ELSE Returned

RcvFinal ==
  /\ At("final")
  /\ \E status \in {"FINAL_REPLY_OK", "ERROR"} :
       testRcvReply(test.acti, "BLOCK_ON_FINAL_REPLY", status)
  /\ test' = Returned

RcvPoll ==
  /\ At("poll")
  /\ \E status \in Unfinished \cup {"FINAL_REPLY_OK", "ERROR"} :
       testRcvReply(test.acti, "NO_BLOCK", status)
  /\ test' = Returned

\* testGetReplies polls the requests in progress one after the other.
testGetReplies ==
  \/ /\ At("menu") /\ nbRqstOn # 0
     /\ test' = [test EXCEPT !.pc = "replies", !.acti = 1]
     /\ UNCHANGED <<slot, nbRqstOn, csVars>>
  \/ /\ At("replies")
     /\ IF test.acti > NbSlots
        THEN /\ test' = [test EXCEPT !.pc = "menu", !.acti = 0]
             /\ UNCHANGED <<slot, nbRqstOn, csVars>>
        ELSE /\ test' = [test EXCEPT !.acti = @ + 1]
             /\ IF slot[test.acti].on
                THEN \E status \in Unfinished \cup {"FINAL_REPLY_OK", "ERROR"} :
                       testRcvReply(test.acti, "NO_BLOCK", status)
                ELSE UNCHANGED <<slot, nbRqstOn, csVars>>

\* testAbortRqst and testStopModule: the request has no slot.
testAbortRqst ==
  \/ /\ At("menu")
     /\ \E r \in AbortRqsts :
          /\ csClientRqstSend(Tester, r)
          /\ test' = [test EXCEPT !.pc = "abort", !.rqst = r, !.id = NewId]
     /\ UNCHANGED <<slot, nbRqstOn, server, alive>>
  \/ /\ At("abort")
     /\ \E status \in ReplyStatus(exch[test.id], "BLOCK_ON_FINAL_REPLY") :
          /\ csClientReplyRcv(test.id, status)
          /\ IF test.rqst = "END" /\ status = "FINAL_REPLY_OK"
             THEN /\ test' = [test EXCEPT !.pc = "exited"]
                  /\ csClientEnd(Tester)
             ELSE test' = Returned /\ UNCHANGED alive
     /\ UNCHANGED <<slot, nbRqstOn, server>>

\* testEnd, which asks nothing about the requests in progress.
testEnd ==
  /\ At("menu")
  /\ test' = [test EXCEPT !.pc = "exited"]
  /\ csClientEnd(Tester)
  /\ UNCHANGED <<slot, nbRqstOn, server, exch>>

TestRcv == RcvIntermediate \/ RcvFinal \/ RcvPoll
             \/ (testAbortRqst /\ At("abort")) \/ (testGetReplies /\ At("replies"))

TestStep ==
  Tester \in alive /\
  \/ testSendRequest \/ testSendAndGetInput \/ NotSent
  \/ testSendAndRcvCntrlRqst \/ testSendAndOrRcvExecRqst
  \/ RcvIntermediate \/ RcvFinal \/ RcvPoll
  \/ testGetReplies \/ testAbortRqst \/ testEnd

-----------------------------------------------------------------------------
OnSlots == {a \in Acti : slot[a].on}

\* The table of the test program and csLib agree: nbRqstOn counts the slots that
\* are on, the menu offers a new request only while a slot is free; a slot that
\* is on holds the id of a request of the test program whose final reply was not
\* read, no two the same; and no such request is without its slot, or its
\* replies could never be read.
SlotsAgree ==
  /\ nbRqstOn = Cardinality(OnSlots)
  /\ \A a \in OnSlots :
       /\ exch[slot[a].id].open /\ exch[slot[a].id].client = Tester
       /\ exch[slot[a].id].rqst = slot[a].rqst
  /\ \A a, b \in OnSlots : slot[a].id = slot[b].id => a = b
  /\ {i \in DOMAIN exch : exch[i].client = Tester /\ exch[i].open}
       = {slot[a].id : a \in OnSlots} \cup (IF At("abort") THEN {test.id} ELSE {})

\* The input of a request is fetched before the request itself is sent: when it
\* is confirmed, its slot is free, so the answer read is its own.
FetchIsOver == At("confirm") => ~slot[test.acti].on
=============================================================================
