------------------------------- MODULE Posters -------------------------------
(***************************************************************************)
(* The posters of a module and their readers (the loop of execTask.c, what *)
(* execTaskGen.c and posterLibGen.c write).  An automatic poster shows     *)
(* members of the SDI_f: at the end of each turn of its loop the task      *)
(* writes them one by one, under the lock, which readers do not take.      *)
(***************************************************************************)
EXTENDS RequestData

CONSTANTS
  Members,   \* the members the poster shows, zones of the output
  Rank,      \* Rank[m]: their order in the description
  Readers,   \* the processes that read the poster
  Foreign    \* the readers whose byte order is not that of the module

ASSUME PosterAssumption ==
  /\ Members \subseteq Zones /\ Members # {}
  /\ Rank \in [Members -> 1 .. Cardinality(Members)]
  /\ \A m, n \in Members : Rank[m] = Rank[n] => m = n
  /\ Foreign \subseteq Readers

VARIABLES
  turn,    \* where the task is in its loop; "unlocked" is a codel that gave the SDIs
  left,    \* the slots the turn has not come to
  codel,   \* the codel that gave the SDIs: its slot and the state it was called in;
           \* none for a permanent codel
  poster,  \* the memory of the poster
  todo,    \* the members the task has still to write
  reader,  \* of each reader: has it found the poster, and what it knows of its
           \* byte order
  got      \* what each reader read last, whether in its byte order, and whether
           \* the order was known

turnVars == <<turn, left, codel>>
readVars == <<reader, got>>

TypePosters ==
  /\ turn \in {"out", "codels", "unlocked", "posters", "suspended"}
  /\ left \in SUBSET Slot
  /\ codel \in SUBSET (Slot \X Callable)
  /\ poster \in [Members -> Values]
  /\ todo \in SUBSET Members
  /\ reader \in [Readers -> [id : BOOLEAN, order : {"unset", "own", "other"}]]
  /\ got \in [Readers -> [data : [Members -> Values], local : BOOLEAN, known : BOOLEAN]]

InitPosters ==
  /\ turn = "out" /\ left = {} /\ codel = {}
  /\ poster = [m \in Members |-> 0]
  /\ todo = {}
  /\ reader = [q \in Readers |-> [id |-> FALSE, order |-> "unset"]]
  /\ got = [q \in Readers |-> [data |-> poster, local |-> TRUE, known |-> TRUE]]

-----------------------------------------------------------------------------
(* A turn of the execution task *)

\* The task takes the SDIs.
ExecTake ==
  /\ turn = "out" /\ turn' = "codels" /\ left' = Slot
  /\ holder = "none" /\ holder' = "task"
  /\ UNCHANGED <<act, input, output, served, replied, codel, poster, todo, readVars>>

\* The loop comes to the activities in the order of their slots.
ComesTo(i) ==
  LET due == left \cap In(Callable)
  IN /\ turn = "codels" /\ i \in due /\ \A j \in due : i <= j
     /\ left' = {j \in left : j > i}

\* A codel that keeps the SDIs.
ExecCodel(i) ==
  /\ ComesTo(i)
  /\ execTaskCallUserFunc(i, act[i].state)
  /\ UNCHANGED <<input, served, replied, holder, turn, codel, poster, todo, readVars>>

\* A codel that gives them: its activity is recorded as started.
ExecUnlock(i) ==
  /\ ComesTo(i) /\ act[i].type \in UnlockRqsts
  /\ turn' = "unlocked" /\ codel' = {<<i, act[i].state>>}
  /\ act' = [act EXCEPT ![i].state = IF @ = "start" THEN "exec" ELSE @]
  /\ holder' = "none"
  /\ UNCHANGED <<input, output, served, replied, poster, todo, readVars>>

\* A permanent codel that gives them, before the activities or after.
PermanentUnlock(after) ==
  /\ turn = "codels" /\ (after \/ left = Slot)
  /\ turn' = "unlocked" /\ left' = IF after THEN {} ELSE left
  /\ holder' = "none"
  /\ UNCHANGED <<act, input, output, served, replied, codel, poster, todo, readVars>>

\* Both take them again before they return.
ExecLock ==
  /\ turn = "unlocked" /\ turn' = "codels"
  /\ holder = "none" /\ holder' = "task"
  /\ codel' = {}
  /\ \/ codel = {} /\ UNCHANGED <<act, output>>
     \/ \E c \in codel : execTaskCallUserFunc(c[1], c[2])
  /\ UNCHANGED <<input, served, replied, left, poster, todo, readVars>>

\* The members the generated update writes.
Shown == Members

\* After the codels, the posters.  The loop stops when it has seen as many
\* activities as there were, which some more may have joined: it may stop early.
ExecPosters ==
  /\ turn = "codels" /\ turn' = "posters" /\ left' = {}
  /\ todo' = Shown
  /\ UNCHANGED <<dataVars, codel, poster, readVars>>

\* One posterWrite.
PosterUpdate ==
  /\ turn = "posters"
  /\ \E m \in todo : /\ \A n \in todo : Rank[m] <= Rank[n]
                     /\ poster' = [poster EXCEPT ![m] = output[m]]
                     /\ todo' = todo \ {m}
  /\ UNCHANGED <<dataVars, turnVars, readVars>>

\* Mutant: the lock is given before the posters are up to date.
ExecGiveEarly ==
  /\ turn = "posters"
  /\ turn' = "out" /\ holder' = "none"
  /\ UNCHANGED <<act, input, output, served, replied, left, codel, poster, todo, readVars>>

\* The end of the turn: the lock is given.
ExecGive ==
  /\ turn = "posters" /\ todo = {}
  /\ turn' = "out" /\ holder' = "none"
  /\ UNCHANGED <<act, input, output, served, replied, left, codel, poster, todo, readVars>>

\* A permanent codel fails, an event is forbidden or a member cannot be written: the
\* task gives the SDIs and stops there (it may be resumed: see GenomModule).
Suspend ==
  /\ turn \in {"codels", "posters"} /\ turn' = "suspended"
  /\ holder' = "none"
  /\ UNCHANGED <<act, input, output, served, replied, left, codel, poster, todo, readVars>>

-----------------------------------------------------------------------------
(* Readers *)

\* What posterEndianness answers.
Order(q) == IF q \in Foreign THEN "other" ELSE "own"

\* Mutant: the byte order is not asked for.
PosterInitBlind(q) ==
  /\ reader' = [reader EXCEPT ![q] = [id |-> TRUE, order |-> "own"]]
  /\ UNCHANGED <<dataVars, turnVars, poster, todo, got>>

\* $poster$PosterInit, when the poster is found: its identifier is recorded, then
\* the byte order, unless posterEndianness fails.
PosterInit(q) ==
  /\ \E order \in {Order(q), reader[q].order} :
       reader' = [reader EXCEPT ![q] = [id |-> TRUE, order |-> order]]
  /\ UNCHANGED <<dataVars, turnVars, poster, todo, got>>

\* The bytes are swapped if the order known is not that of the reader; one that is
\* not known is a value of the poster library that may be either.
Swapped(q) == IF reader[q].order = "unset" THEN BOOLEAN
              ELSE {reader[q].order = Order(q)}

Has(q, data) ==
  /\ \E local \in Swapped(q) :
       got' = [got EXCEPT ![q] = [data |-> data, local |-> local,
                                  known |-> reader[q].order # "unset"]]
  /\ UNCHANGED <<dataVars, turnVars, poster, todo, reader>>

\* $poster$PosterRead: the whole poster in one posterRead.  A first call, without
\* identifier, is a PosterInit before.
PosterRead(q) == reader[q].id /\ Has(q, poster)

\* $poster$$member$PosterRead: one member, the same way.
MemberRead(q, m) == reader[q].id /\ Has(q, [got[q].data EXCEPT ![m] = poster[m]])

\* $poster$PosterRead of a poster of another module: the byte order is asked for
\* at each call, which fails if there is no answer.
InPosterRead(q) ==
  /\ got' = [got EXCEPT ![q] = [data |-> poster, local |-> TRUE, known |-> TRUE]]
  /\ UNCHANGED <<dataVars, turnVars, poster, todo, reader>>

\* $poster$InstancePosterRead swaps nothing (not a step of Next).
InstancePosterRead(q) ==
  /\ got' = [got EXCEPT ![q] = [data |-> poster, local |-> q \notin Foreign,
                                known |-> TRUE]]
  /\ UNCHANGED <<dataVars, turnVars, poster, todo, reader>>

PosterStep ==
  \E q \in Readers :
    PosterInit(q) \/ PosterRead(q) \/ InPosterRead(q) \/ \E m \in Members : MemberRead(q, m)

-----------------------------------------------------------------------------
vars == <<dataVars, turnVars, poster, todo, readVars>>

Init == InitData /\ InitPosters

TypeOK == TypeData /\ TypePosters

\* Requests are refused once the execution task is suspended.
Control ==
  /\ \/ CntrlIntEvnExec
     \/ turn # "suspended" /\ \E i \in Slot, r \in Types : CntrlRequest(i, r)
     \/ SpawnActivities
  /\ UNCHANGED <<turnVars, poster, todo, readVars>>

Task ==
  \/ ExecTake \/ ExecLock \/ ExecPosters \/ PosterUpdate \/ ExecGive \/ Suspend
  \/ \E i \in Slot : ExecCodel(i) \/ ExecUnlock(i)
  \/ \E after \in BOOLEAN : PermanentUnlock(after)

Next == Control \/ Task \/ PosterStep

Spec == Init /\ [][Next]_vars

\* With the readers of the instances of a poster.
SpecInstance == Init /\ [][Next \/ \E q \in Readers : InstancePosterRead(q)]_vars

-----------------------------------------------------------------------------
\* The final reply of activity i, that ended by itself, carries what the poster
\* shows.
ReplyShown(i) ==
  LET z == Zone(act[i].type, i)
  IN z \in Members =>
       [type |-> act[i].type, rqst |-> act[i].rqst, done |-> TRUE, out |-> poster[z]]
         \in replied'

Answered(i) == act[i].state = "ended" /\ act[i].done /\ act'[i].state = "ether"

\* A client that has the final reply of its request finds that result in the
\* poster, if neither a codel has given the SDIs nor the task is suspended:
\* the control task needs the lock to reply, and the execution task keeps it from
\* its codels to the last poster.
ReplyAfterPoster ==
  [][turn \notin {"unlocked", "suspended"} =>
       \A i \in Slot : Answered(i) => ReplyShown(i)]_vars

\* The same, whatever the task is doing.
ReplyAlwaysAfterPoster == [][\A i \in Slot : Answered(i) => ReplyShown(i)]_vars

\* A reader has no value the module did not compute: one of the future, or,
\* once it knows the byte order of the module, one in that order.
ReadIsComputed ==
  \A q \in Readers : /\ got[q].known => got[q].local
                     /\ \A m \in Members : got[q].data[m] <= output[m]

\* A read that succeeds is in the byte order of the reader.
ReadIsLocal == \A q \in Readers : got[q].local
=============================================================================
