------------------------------ MODULE ClientLib ------------------------------
(***************************************************************************)
(* The functions GenoM generates for the clients of a module, in C         *)
(* (msgLib.c, msgExec.c, msgCntrl.c), in Tcl (tclProlog.c, tclRqst.c) and  *)
(* over tclserv, and the program that sends the init request (init.c).     *)
(***************************************************************************)
EXTENDS CsClient

CONSTANTS
  Programs,   \* the clients written with the library
  Scripts,    \* those written in Tcl, which only poll
  Servs,      \* those that go through tclserv, which always wait
  Initer,     \* the program that sends the init request
  InitRqst,   \* the init request
  OsErrors    \* the errors that are not of the module (H2_MODULE_ERR_FLAG)

ASSUME LibAssumption ==
  /\ Programs \cup Scripts \cup Servs \cup {Initer} \subseteq Clients
  /\ Initer \notin Programs \cup Scripts \cup Servs
  /\ InitRqst \in ExecRqsts /\ OsErrors \cap Bilans = {}

VARIABLES
  lib,   \* by program: the function it is in, its request id, what it returned
  init   \* the init program

libVars == <<lib, init>>

Callers == Programs \cup Scripts \cup Servs

TypeLib ==
  /\ lib \in [Callers -> [pc     : {"idle", "interm", "final", "over"},
                          id     : 0 .. MaxSent,
                          fn     : {"none", "RqstSend", "RqstAndAck", "RqstAndRcv"},
                          status : {"none", "OK", "SENT", "ACK", "TERM", "ERROR"}
                                     \cup Unfinished \cup {"FINAL_REPLY_OK"},
                          bilan  : Bilans \cup OsErrors]]
  /\ init \in [pc : {"send", "interm", "final", "end", "over"}, id : 0 .. MaxSent,
               status : {"none", "FINAL_REPLY_OK", "WAITING_FINAL_REPLY", "ERROR"},
               errno : Bilans \cup OsErrors, ret : {"none", "OK", "ERROR"}]

InitLib ==
  /\ lib = [c \in Callers |-> [pc |-> "idle", id |-> 0, fn |-> "none",
                               status |-> "none", bilan |-> "OK"]]
  /\ init = [pc |-> "send", id |-> 0, status |-> "none", errno |-> "OK",
             ret |-> "none"]

-----------------------------------------------------------------------------
(* Functions of the library *)

\* What ReplyRcv reports: an error of the module is a final reply, and the
\* report of the request; bilan is OK when csLib had no error to give.
ReplyRcv(e, status, bilan) ==
  IF status = "ERROR" THEN [status |-> "FINAL_REPLY_OK", bilan |-> e.final]
                      ELSE [status |-> status, bilan |-> "OK"]

\* AbortReplyRcv leaves the variable of its caller alone when there is no error.
AbortReplyRcv(e, status, bilan) ==
  IF status = "ERROR" THEN [status |-> "FINAL_REPLY_OK", bilan |-> e.final]
                      ELSE [status |-> status, bilan |-> bilan]

\* Mutant: the report is not cleared.
RqstAndRcvStale(e, status, bilan) == AbortReplyRcv(e, status, bilan)

\* RqstAndRcv clears it first; AbortRqstAndRcv too.
RqstAndRcv(e, status, bilan) == AbortReplyRcv(e, status, "OK")

\* RqstAndAck reports as ReplyRcv does.
RqstAndAck(e, status, bilan) == ReplyRcv(e, status, bilan)

\* The words of the Tcl callbacks.
ReplyRcvCb(e, status, bilan) ==
  LET r == ReplyRcv(e, status, bilan) IN
  [status |-> CASE r.status = "WAITING_INTERMED_REPLY" -> "SENT"
                [] r.status = "WAITING_FINAL_REPLY"    -> "ACK"
                [] r.status = "FINAL_REPLY_OK"         -> "TERM",
   bilan |-> r.bilan]

\* Over tclserv the report of a failed request comes with the failure; the
\* acknowledgement comes without a report.
TclservReplyRcv(e, status, bilan) ==
  [status |-> IF status = "ERROR" THEN "ERROR" ELSE "FINAL_REPLY_OK",
   bilan |-> e.final]

TclservRqstAndAck(e, status, bilan) ==
  [status |-> IF status = "ERROR" THEN "ERROR" ELSE "OK", bilan |-> bilan]

\* A program or a script calls RqstSend, RqstAndAck or RqstAndRcv.
Send(c, r, fn) ==
  /\ lib[c].pc = "idle"
  /\ c \in Scripts => fn = "RqstSend"
  /\ \/ /\ csClientRqstSend(c, r)
        /\ lib' = [lib EXCEPT ![c] =
             [@ EXCEPT !.pc = CASE fn = "RqstSend"   -> "final"
                                [] fn = "RqstAndAck" -> "interm"
                                [] fn = "RqstAndRcv" ->
                                     IF r \in ExecRqsts /\ c \notin Servs
                                     THEN "interm" ELSE "final",
                       !.id = NewId, !.fn = fn,
                       !.status = IF c \in Scripts THEN "SENT" ELSE "OK"]]
     \/ /\ SendError /\ UNCHANGED exch
        /\ \E e \in OsErrors :
             lib' = [lib EXCEPT ![c].status = "ERROR",
                ![c].bilan = IF fn = "RqstSend" \/ c \in Servs THEN @ ELSE e]
  /\ UNCHANGED <<init, server, alive>>

IsAbort(c) == exch[lib[c].id].rqst \in AbortRqsts

\* The report of the function c is in: a script's, one that goes through tclserv,
\* which gives no report of an abort, or one of the library.
Report(c, e, status) ==
  LET ack == lib[c].fn = "RqstAndAck" /\ lib[c].pc = "interm" IN
  IF c \in Scripts THEN ReplyRcvCb(e, status, lib[c].bilan)
  ELSE IF c \in Servs
       THEN IF ack \/ IsAbort(c) THEN TclservRqstAndAck(e, status, lib[c].bilan)
                                 ELSE TclservReplyRcv(e, status, lib[c].bilan)
  ELSE IF lib[c].fn = "RqstAndRcv" THEN RqstAndRcv(e, status, lib[c].bilan)
  ELSE IF IsAbort(c) THEN AbortReplyRcv(e, status, lib[c].bilan)
  ELSE IF ack THEN RqstAndAck(e, status, lib[c].bilan)
              ELSE ReplyRcv(e, status, lib[c].bilan)

\* The intermediate reply is for execution requests.
Blocks(c) ==
  IF lib[c].pc = "interm" THEN {"BLOCK_ON_INTERMED_REPLY"}
  ELSE IF c \in Scripts THEN {"NO_BLOCK"}
  ELSE IF c \in Servs \/ lib[c].fn = "RqstAndRcv" THEN {"BLOCK_ON_FINAL_REPLY"}
  ELSE {"NO_BLOCK", "BLOCK_ON_FINAL_REPLY"}
         \cup (IF exch[lib[c].id].rqst \in ExecRqsts THEN {"BLOCK_ON_INTERMED_REPLY"}
               ELSE {})

\* A program that waits for one all the same is told BAD_BLOCK_TYPE.
BadBlockType(c) ==
  /\ c \in Programs /\ lib[c].pc = "final" /\ lib[c].fn # "RqstAndRcv"
  /\ "BLOCK_ON_INTERMED_REPLY" \notin Blocks(c)
  /\ lib' = [lib EXCEPT ![c].status = "ERROR"]
  /\ UNCHANGED <<init, csVars>>

\* A reply is read.  RqstAndRcv goes on to the final one by itself.
Receive(c) ==
  /\ lib[c].pc \in {"interm", "final"}
  /\ \E block \in Blocks(c), status \in Unfinished \cup {"FINAL_REPLY_OK", "ERROR"} :
       LET e == exch[lib[c].id]
           r == Report(c, e, status)
       IN /\ status \in ReplyStatus(e, block)
          /\ csClientReplyRcv(lib[c].id, status)
          /\ lib' = [lib EXCEPT ![c].status = r.status, ![c].bilan = r.bilan,
                                ![c].pc = IF status \in Unfinished
                                          THEN "final" ELSE "idle"]
  /\ UNCHANGED <<init, server, alive>>

\* ClientEnd, the replies to come unread.
ClientEnd(c) ==
  /\ lib[c].pc \in {"idle", "final"}
  /\ lib' = [lib EXCEPT ![c].pc = "over"]
  /\ csClientEnd(c)
  /\ UNCHANGED <<init, server, exch>>

-----------------------------------------------------------------------------
(* SendInitRqst of init.c.  errno is cleared before the request is sent. *)

InitSend ==
  /\ init.pc = "send"
  /\ \/ /\ csClientRqstSend(Initer, InitRqst)
        /\ init' = [init EXCEPT !.pc = "interm", !.id = NewId]
     \/ /\ SendError /\ UNCHANGED exch
        /\ init' = [init EXCEPT !.pc = "over", !.ret = "ERROR"]
  /\ UNCHANGED <<lib, server, alive>>

\* The first reply gives the status, which the second one leaves as it is.
InitReceive ==
  /\ init.pc \in {"interm", "final"}
  /\ \E status \in {"WAITING_FINAL_REPLY", "FINAL_REPLY_OK", "ERROR"} :
       /\ status \in ReplyStatus(exch[init.id],
                                 IF init.pc = "interm" THEN "BLOCK_ON_INTERMED_REPLY"
                                                       ELSE "BLOCK_ON_FINAL_REPLY")
       /\ csClientReplyRcv(init.id, status)
       /\ init' = [init EXCEPT
            !.pc = IF status \in Unfinished THEN "final" ELSE "end",
            !.status = IF init.pc = "interm" THEN status ELSE @,
            !.errno = IF status = "ERROR" THEN exch[init.id].final ELSE @]
  /\ UNCHANGED <<lib, server, alive>>

\* Mutant: the acknowledgement is taken for the success.
InitReturnAck(i) == IF i.status = "ERROR" THEN "ERROR" ELSE "OK"

InitReturn(i) == IF i.status # "FINAL_REPLY_OK" \/ i.errno # "OK"
                 THEN "ERROR" ELSE "OK"

InitEnd ==
  /\ init.pc = "end"
  /\ init' = [init EXCEPT !.pc = "over", !.ret = InitReturn(init)]
  /\ csClientEnd(Initer)
  /\ UNCHANGED <<lib, server, exch>>

LibRcv == (\E c \in Callers : Receive(c)) \/ InitReceive

LibStep ==
  \/ \E c \in Callers \cap alive :
       \/ \E r \in Requests, fn \in {"RqstSend", "RqstAndAck", "RqstAndRcv"} :
            /\ fn = "RqstAndAck" => r \in ExecRqsts
            /\ c \in Servs /\ r \in AbortRqsts => fn = "RqstAndRcv"
            /\ Send(c, r, fn)
       \/ Receive(c) \/ BadBlockType(c) \/ ClientEnd(c)
  \/ Initer \in alive /\ (InitSend \/ InitReceive \/ InitEnd)

-----------------------------------------------------------------------------
\* A final reply is there, says the last function c called.
FinalSeen(c) == lib[c].pc = "idle" /\ lib[c].status \in {"FINAL_REPLY_OK", "TERM"}

\* Whatever the report of the request before, when a function says that the final
\* reply is there the report it gives is the one the module sent for this request.
\* An abort polled by a program is apart: when it succeeds its report is not
\* written, and what is there is the report of the request before.
ReportIsTheModules ==
  \A c \in Callers : FinalSeen(c) =>
    LET e == exch[lib[c].id] IN
    /\ e.stage = "answered"
    /\ \/ lib[c].bilan = e.final
       \/ c \in Programs /\ lib[c].fn # "RqstAndRcv" /\ IsAbort(c) /\ e.final = "OK"

\* An abort is no exception.
AbortReportIsTheModules ==
  \A c \in Callers : FinalSeen(c) => lib[c].bilan = exch[lib[c].id].final

\* The init program never says the module is initialised when it is not.
InitIsTrue ==
  init.ret = "OK" => init.id # 0 /\ exch[init.id].final = "OK"

\* The init program says so whenever the module is.
InitIsSeen ==
  init.pc = "over" /\ init.id # 0 /\ exch[init.id].final = "OK" => init.ret = "OK"
=============================================================================
