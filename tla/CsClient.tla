------------------------------- MODULE CsClient ------------------------------
(***************************************************************************)
(* The exchanges between a module and its clients, as the clients see them *)
(* through csLib: requests in the mailbox of the module, replies in the    *)
(* mailboxes of the clients.  csLib is a library GenoM uses; the module is *)
(* the server of cntrlTask.c reduced to what its clients can tell.         *)
(***************************************************************************)
EXTENDS Naturals, Sequences, FiniteSets

CONSTANTS
  Clients,     \* the programs that may talk to the module
  Parties,     \* which of them do: the sets of clients present together
  ExecRqsts,   \* its execution requests
  CntrlRqsts,  \* its control requests, but END and ABORT
  Errors,      \* what a codel or the control task may report instead of OK
  MaxSent      \* bound on the requests sent

\* The request that stops the module or an activity, $MODULE$_ABORT_RQST.
AbortRqsts == {"ABORT", "END"}

Requests == ExecRqsts \cup CntrlRqsts \cup AbortRqsts

ASSUME CsAssumption ==
  /\ MaxSent \in Nat
  /\ Parties \subseteq SUBSET Clients
  /\ "OK" \notin Errors /\ "none" \notin Errors
  /\ ExecRqsts \cap (CntrlRqsts \cup AbortRqsts) = {}

Bilans == Errors \cup {"OK"}

VARIABLES
  server,  \* "up", "suspended" or "ended"
  alive,   \* the clients whose mailbox exists
  exch     \* the requests sent, each with its replies; a request id is an index

csVars == <<server, alive, exch>>

Exchange == [client : Clients, rqst : Requests,
             stage  : {"queued", "waiting", "running", "answered"},
             ack    : {"none", "sent", "read"},
             final  : Bilans \cup {"none"},
             open   : BOOLEAN]

TypeCs ==
  /\ server \in {"up", "suspended", "ended"}
  /\ alive \subseteq Clients
  /\ exch \in Seq(Exchange) /\ Len(exch) <= MaxSent

InitCs == server = "up" /\ alive \in Parties /\ exch = <<>>

-----------------------------------------------------------------------------
(* The client side of csLib *)

\* Sending fails when the mailbox of the module is gone, and only then.
csClientRqstSend(c, r) ==
  /\ server # "ended"
  /\ Len(exch) < MaxSent
  /\ exch' = Append(exch, [client |-> c, rqst |-> r, stage |-> "queued",
                           ack |-> "none", final |-> "none", open |-> TRUE])

SendError == server = "ended"

NewId == Len(exch) + 1

FinalStatus(e) == IF e.final = "OK" THEN "FINAL_REPLY_OK" ELSE "ERROR"

\* What csClientReplyRcv may return, none while it has to block: a client that
\* blocks on the intermediate reply may find the final one behind it.
ReplyStatus(e, block) ==
  (IF e.final # "none" THEN {FinalStatus(e)} ELSE {})
    \cup (IF e.ack = "sent" /\ block = "BLOCK_ON_INTERMED_REPLY"
          THEN {"WAITING_FINAL_REPLY"} ELSE {})
    \cup (IF e.final = "none" /\ block = "NO_BLOCK"
          THEN {IF e.ack = "none" /\ e.rqst \in ExecRqsts
                THEN "WAITING_INTERMED_REPLY" ELSE "WAITING_FINAL_REPLY"}
          ELSE {})

Unfinished == {"WAITING_INTERMED_REPLY", "WAITING_FINAL_REPLY"}

\* Mutant: the id is free, for its client, once the first reply is read.
csClientReplyRcvFirst(i, status) ==
  exch' = [exch EXCEPT ![i].open = FALSE,
                       ![i].ack = IF @ = "sent" THEN "read" ELSE @]

\* The replies read leave the mailbox, the id is free once the last is.
csClientReplyRcv(i, status) ==
  exch' = [exch EXCEPT ![i].open = status \in Unfinished,
                       ![i].ack = IF @ = "sent" THEN "read" ELSE @]

\* A client goes, with its mailbox.
csClientEnd(c) == alive' = alive \ {c}

-----------------------------------------------------------------------------
(* The module *)

Queue == {i \in DOMAIN exch : exch[i].stage = "queued"}
IsHead(i) == i \in Queue /\ \A j \in Queue : i <= j
Active == {i \in DOMAIN exch : exch[i].stage \in {"waiting", "running"}}

\* A request refused may be one whose activity failed and stays, frozen, until it
\* is aborted.
Frozen == {i \in DOMAIN exch : exch[i].rqst \in ExecRqsts /\ exch[i].final \in Errors}

\* A reply to a client that is gone suspends the control task.
csServReplySend(i) ==
  server' = IF exch[i].client \in alive THEN server ELSE "suspended"

Answer(i, bilan) ==
  /\ exch' = [exch EXCEPT ![i].stage = "answered", ![i].final = bilan]
  /\ csServReplySend(i)

\* A control request is executed and answered.
ServeCntrl(i) ==
  /\ server = "up" /\ IsHead(i) /\ exch[i].rqst \in CntrlRqsts \cup {"ABORT"}
  /\ \E bilan \in Bilans : Answer(i, bilan)
  /\ UNCHANGED alive

\* An execution request is refused, or it has an activity that waits for the
\* incompatible ones to end.
ServeExec(i) ==
  /\ server = "up" /\ IsHead(i) /\ exch[i].rqst \in ExecRqsts
  /\ \/ \E bilan \in Errors : Answer(i, bilan)
     \/ exch' = [exch EXCEPT ![i].stage = "waiting"] /\ UNCHANGED server
  /\ UNCHANGED alive

\* Mutant: the reply that cannot be sent is ignored, but never sent again.
LaunchForgetful(i) ==
  /\ server = "up" /\ i \in Active /\ exch[i].stage = "waiting"
  /\ exch' = [exch EXCEPT ![i].stage = "answered", ![i].ack = "sent"]
  /\ csServReplySend(i)
  /\ UNCHANGED alive

\* The activity is launched, which is what the intermediate reply says.
Launch(i) ==
  /\ server = "up" /\ i \in Active /\ exch[i].stage = "waiting"
  /\ exch' = [exch EXCEPT ![i].stage = "running", ![i].ack = "sent"]
  /\ csServReplySend(i)
  /\ UNCHANGED alive

\* An activity ends, or is interrupted before it is launched, and the control
\* task sends its final reply.
Finish(i) ==
  /\ server = "up" /\ i \in Active
  /\ \E bilan \in Bilans : Answer(i, bilan)
  /\ UNCHANGED alive

\* END is refused while there are activities, and the module goes on.  Else it is
\* answered, the mailbox goes, and what is still in it.
ServeEnd(i) ==
  /\ server = "up" /\ IsHead(i) /\ exch[i].rqst = "END"
  /\ \/ /\ Active # {} \/ Frozen # {}
        /\ \E bilan \in Errors : Answer(i, bilan)
     \/ /\ Active = {}
        /\ server' = "ended"
        /\ exch' = [exch EXCEPT ![i].stage = "answered", ![i].final = "OK"]
  /\ UNCHANGED alive

ServerStep(i) == ServeCntrl(i) \/ ServeExec(i) \/ Launch(i) \/ Finish(i) \/ ServeEnd(i)
=============================================================================
