--------------------------- MODULE ActivityService ---------------------------
(***************************************************************************)
(* What a module promises its clients, with no task, table or lock: an     *)
(* execution request it admits waits, runs and ends, gets one final        *)
(* reply, and never runs together with an older request that is            *)
(* incompatible with it; a failure freezes the module until it is          *)
(* acknowledged.  GenomModule implements it.                               *)
(***************************************************************************)
EXTENDS Naturals

CONSTANTS
  ExecRqsts,    \* execution request types
  Incompatible, \* request type -> the execution types it interrupts
  MaxRqst       \* bound: number of requests

ASSUME ServiceAssumption ==
  /\ MaxRqst \in Nat
  /\ \A x \in ExecRqsts : Incompatible[x] \subseteq ExecRqsts

VARIABLES
  waiting,   \* admitted, the incompatible ones are not over yet
  running,   \* launched
  frozen,    \* failed, not acknowledged yet
  answered,  \* the requests that got their final reply
  received,  \* number of requests served so far
  closing    \* the End request to answer before the module exits, or 0

vars == <<waiting, running, frozen, answered, received, closing>>

RqstIds    == 1 .. MaxRqst
Activities == [rqst : RqstIds, type : ExecRqsts]

Rqsts(S) == {a.rqst : a \in S}

\* Those of S that request type x interrupts.
Conflicts(S, x) == {a \in S : a.type \in Incompatible[x]}

Init ==
  /\ waiting = {}
  /\ running = {}
  /\ frozen = {}
  /\ answered = {}
  /\ received = 0
  /\ closing = 0

\* Mutant: a request is taken though none was sent.
ReceiveAnyway(r) ==
  /\ closing = 0
  /\ r = received + 1 \/ received = MaxRqst
  /\ received' = received + 1

\* The next request is taken out of the mailbox.
Receive(r) ==
  /\ closing = 0
  /\ received < MaxRqst
  /\ r = received + 1
  /\ received' = r

\* Mutant: the launched activities it cancels are not answered.
AdmitSilently(r, x, E) ==
  /\ Receive(r)
  /\ frozen = {}
  /\ E \subseteq Conflicts(running, x)
  /\ waiting' = (waiting \ Conflicts(waiting, x)) \cup {[rqst |-> r, type |-> x]}
  /\ running' = running \ E
  /\ answered' = answered \cup Rqsts(Conflicts(waiting, x))
  /\ UNCHANGED <<frozen, closing>>

\* An execution request is admitted, but in a frozen module: it cancels every
\* incompatible activity that waits and some of those that were launched.
Admit(r, x, E) ==
  /\ Receive(r)
  /\ frozen = {}
  /\ E \subseteq Conflicts(running, x)
  /\ waiting' = (waiting \ Conflicts(waiting, x)) \cup {[rqst |-> r, type |-> x]}
  /\ running' = running \ E
  /\ answered' = answered \cup Rqsts(Conflicts(waiting, x) \cup E)
  /\ UNCHANGED <<frozen, closing>>

\* A request is refused, or it is a control request or an abort: it cancels
\* the activities of S and acknowledges the failures of F.
Reply(r, S, F) ==
  /\ Receive(r)
  /\ S \subseteq waiting \cup running
  /\ F \subseteq frozen
  /\ waiting' = waiting \ S
  /\ running' = running \ S
  /\ frozen' = frozen \ F
  /\ answered' = answered \cup Rqsts(S) \cup {r}
  /\ UNCHANGED closing

\* Mutant: the older activities are not looked at.
LaunchAnyway(S) ==
  /\ S \subseteq waiting
  /\ waiting' = waiting \ S
  /\ running' = running \cup S
  /\ UNCHANGED <<frozen, answered, received, closing>>

\* Waiting activities that no older running activity forbids are launched.
Launch(S) ==
  /\ S \subseteq waiting
  /\ \A a \in S, b \in running :
       b.rqst < a.rqst => b.type \notin Incompatible[a.type]
  /\ waiting' = waiting \ S
  /\ running' = running \cup S
  /\ UNCHANGED <<frozen, answered, received, closing>>

\* Running activities end, those of F by a failure.
Finish(E, F) ==
  /\ E \subseteq running
  /\ F \subseteq running \ E
  /\ running' = running \ (E \cup F)
  /\ frozen' = frozen \cup Rqsts(F)
  /\ answered' = answered \cup Rqsts(E \cup F)
  /\ UNCHANGED <<waiting, received, closing>>

\* A module that has no activity may end.
End(r) ==
  /\ Receive(r)
  /\ waiting = {} /\ running = {} /\ frozen = {}
  /\ closing' = r
  /\ UNCHANGED <<waiting, running, frozen, answered>>

Exit ==
  /\ closing # 0
  /\ closing' = 0
  /\ answered' = answered \cup {closing}
  /\ UNCHANGED <<waiting, running, frozen, received>>

Next ==
  \/ \E r \in RqstIds :
       \/ \E x \in ExecRqsts, E \in SUBSET running : Admit(r, x, E)
       \/ \E S \in SUBSET (waiting \cup running), F \in SUBSET frozen : Reply(r, S, F)
       \/ End(r)
  \/ \E S \in SUBSET waiting : Launch(S)
  \/ \E E \in SUBSET running, F \in SUBSET running : Finish(E, F)
  \/ Exit

Spec == Init /\ [][Next]_vars

-----------------------------------------------------------------------------
TypeOK ==
  /\ waiting \subseteq Activities
  /\ running \subseteq Activities
  /\ frozen \subseteq RqstIds
  /\ answered \subseteq RqstIds
  /\ received \in 0 .. MaxRqst
  /\ closing \in 0 .. MaxRqst

\* Two launched activities are compatible: the newer interrupts not the older.
NoConflict ==
  \A a \in running, b \in running :
    b.rqst < a.rqst => b.type \notin Incompatible[a.type]

\* A request that was received is at any time in exactly one of four places:
\* waiting, running, answered, or the End request to answer.
OneFate ==
  \A r \in 1 .. received :
    /\ r \in answered <=> r \notin Rqsts(waiting \cup running) \cup {closing}
    /\ r \in Rqsts(waiting) => r \notin Rqsts(running)
=============================================================================
