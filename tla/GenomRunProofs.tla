---------------------------- MODULE GenomRunProofs ----------------------------
(***************************************************************************)
(* Proofs about GenomRun: the generator never overwrites what the user     *)
(* wrote unasked, and, in the circumstances where dates can be trusted, is *)
(* right when it says that a module is up to date, whatever run was killed *)
(* or failed at whatever step.                                             *)
(***************************************************************************)
EXTENDS GenomRun, TLAPS

\* The dates tell the order of the edits and of the stamps, and the files of
\* .genom reach the module: what RunAssumption leaves open and UpToDateIsTrue needs.
Circumstances ==
  Relative = {} /\ Patient /\ ~ SameSecond /\ ~ CopyFails /\ "n" \notin Options

-----------------------------------------------------------------------------
(* The files of the user *)

\* A question is put to the user only under -i, and the file is saved before it
\* is overwritten.
AskedThenSaved ==
  /\ pc \in {"ask", "save", "overwrite"} => "i" \in opts
  /\ pc = "overwrite" => saved

\* Only the mirroring of the user's files asks, and nothing but an edit undoes a save.
LEMMA AskedThenSavedStep ==
  Patient /\ ~ CopyFails /\ AskedThenSaved /\ [Next]_vars => AskedThenSaved'
<1> SUFFICES ASSUME Patient, ~ CopyFails, AskedThenSaved, [Next]_vars PROVE AskedThenSaved'
  OBVIOUS
<1> USE DEF AskedThenSaved, desc, run, cpp, files
<1>1. CASE Genom
  <2>1. CASE MirrorUser
    BY <2>1 DEF MirrorUser, UserMode, Mirrors
  <2>2. CASE MirrorTopUser \/ MirrorGenerated
    BY <2>2 DEF MirrorTopUser, MirrorGenerated, Mirrors
  <2>3. CASE GetRequires \/ PkgWait \/ CallCpp \/ Regenerate \/ Perl \/ WriteStamp \/ PerlEnds
    BY <2>3 DEF GetRequires, PkgWait, CallCpp, Regenerate, Perl, WriteStamp, PerlEnds
  <2>4. CASE Parse \/ UpToDate \/ SayUpToDate \/ GenRefused \/ GenScript
    BY <2>4 DEF Parse, UpToDate, SayUpToDate, GenRefused, GenScript, Goto, Exit
  <2>5. CASE Save \/ Overwrite
    BY <2>5 DEF Save, Overwrite
  <2> QED BY <1>1, <2>1, <2>2, <2>3, <2>4, <2>5 DEF Genom
<1>2. CASE User \/ Reply \/ PkgConfig \/ Tick \/ UNCHANGED vars
  BY <1>2 DEF User, Start, EditCodel, Edit, Reply, Answer, PkgConfig, Tick, vars
<1>3. CASE Faults
  BY <1>3 DEF Faults, PkgFails, PerlDies, Crash
<1> QED BY <1>1, <1>2, <1>3 DEF Next

\* What the user wrote in a file of codels is there until he agrees to lose it,
\* under -i, and is saved before (mirror_dir of start.pl), whatever is killed and
\* when: if the copies do not fail, and he does not edit the file meanwhile.
THEOREM CodelsAreKeptHolds ==
  ASSUME Patient, ~ CopyFails PROVE Spec => CodelsAreKept
<1> DEFINE Kept == codel = "edited" /\ codel' # "edited" => "i" \in opts /\ saved'
<1>1. Init => AskedThenSaved
  BY DEF Init, AskedThenSaved
<1>2. AskedThenSaved /\ [Next]_vars => [Kept]_vars
  <2> SUFFICES ASSUME AskedThenSaved, Next, codel = "edited", codel' # codel
               PROVE "i" \in opts /\ saved'
    BY DEF vars, files
  <2>1. CASE Reply
    BY <2>1 DEF Reply, Answer
  <2>2. CASE Genom
    <3>1. CASE MirrorUser
      BY <3>1 DEF MirrorUser
    <3>2. CASE MirrorTopUser \/ MirrorGenerated
      BY <3>2 DEF MirrorTopUser, MirrorGenerated
    <3>3. CASE GetRequires \/ PkgWait \/ CallCpp \/ Regenerate \/ Perl \/ WriteStamp \/ PerlEnds
      BY <3>3 DEF GetRequires, PkgWait, CallCpp, Regenerate, Perl, WriteStamp, PerlEnds, files
    <3>4. CASE Parse \/ UpToDate \/ SayUpToDate \/ GenRefused \/ GenScript
      BY <3>4 DEF Parse, UpToDate, SayUpToDate, GenRefused, GenScript, Goto, Exit, files
    <3>5. CASE Save \/ Overwrite
      BY <3>5 DEF Save, Overwrite, AskedThenSaved
    <3> QED BY <2>2, <3>1, <3>2, <3>3, <3>4, <3>5 DEF Genom
  <2>3. CASE User \/ PkgConfig \/ Tick
    BY <2>3 DEF User, Start, EditCodel, Edit, PkgConfig, Tick, files
  <2>4. CASE Faults
    BY <2>4 DEF Faults, PkgFails, PerlDies, Crash, files
  <2> QED BY <2>1, <2>2, <2>3, <2>4 DEF Next
<1> QED
  BY <1>1, <1>2, AskedThenSavedStep, PTL DEF Spec, CodelsAreKept

-----------------------------------------------------------------------------
(* The stamp *)

Asking == {"ask", "save", "overwrite"}

Generating == {"gen", "perl", "mirror", "done"} \cup Asking

AllOlder == \A s \in Sources : age[s] = "older"
AllMirrored == \A d \in Generated : module[d] = version

\* No date is that of the stamp.
NoTie == \A s \in Sources : age[s] \in {"older", "newer"}

\* What this run read is the description as it is.
ReadIsLast == pc \in {"cpp", "parsed"} \cup Generating => read = version

\* The script that runs was made by this run, and the directories mirrored so far
\* hold its files; at the end all are.
Mirrored ==
  /\ pc \in {"mirror", "done"} \cup Asking => script = version
  /\ pc \in {"mirror"} \cup Asking =>
       \A i \in 1 .. todo : Order[i] \in Generated => module[Order[i]] = version
  /\ pc = "done" => AllMirrored

\* There is no stamp while files change, and one whose sources are all older was
\* written after their version.
StampIsTrue ==
  /\ pc \in Generating => ~ stamp
  /\ stamp /\ AllOlder => AllMirrored

Types ==
  /\ version \in Versions /\ todo \in 0 .. Len(Order)
  /\ module \in [Generated -> Versions \cup {MaxVersion + 1}]
  /\ age \in [Sources -> Ages]
  /\ opts \subseteq Options

\* What the user is asked about is no generated directory.
Asked == pc \in Asking => todo < Len(Order) /\ Order[todo + 1] \notin Generated

Inv == Types /\ NoTie /\ ReadIsLast /\ Mirrored /\ Asked /\ StampIsTrue /\ UpToDateIsTrue

LEMMA OrderIs ==
  /\ Len(Order) = 5
  /\ Order[1] = "user" /\ Order[2] = "top" /\ Order[3] = "codels"
  /\ Order[4] = "autoconf" /\ Order[5] = "server"
BY DEF Order

\* A step that changes nothing Inv speaks of.
LEMMA Unseen ==
  ASSUME Inv, UNCHANGED <<version, age, stamp, module, pc, opts, read, script, todo>>
  PROVE  Inv'
BY DEF Inv, Types, NoTie, ReadIsLast, Mirrored, Asked, StampIsTrue, UpToDateIsTrue,
       AllOlder, AllMirrored

\* A step that leaves the stamp, the dates, the version and the module alone, and
\* ends the run or leads it to a step where Inv asks nothing of it.
LEMMA Aside ==
  ASSUME Inv, UNCHANGED <<version, age, stamp, module>>, Types',
         pc' \in {"idle", "requires", "pkg", "flags"}
  PROVE  Inv'
BY DEF Inv, NoTie, ReadIsLast, Mirrored, Asked, StampIsTrue, UpToDateIsTrue, Generating, Asking,
       AllOlder, AllMirrored

\* A step of the run before the script: it read the description as it is, and the
\* stamp goes before anything is written.
LEMMA Ahead ==
  ASSUME Inv, UNCHANGED <<version, age, module>>, Types', read' = version,
         pc' \in {"cpp", "parsed", "gen", "perl"},
         stamp' => stamp, pc' \in {"gen", "perl"} => ~ stamp'
  PROVE  Inv'
BY DEF Inv, NoTie, ReadIsLast, Mirrored, Asked, StampIsTrue, UpToDateIsTrue, Generating, Asking,
       AllOlder, AllMirrored

\* A directory mirrored: those before it still are, and it is if it is generated.
LEMMA OneMore ==
  ASSUME Inv, pc \in {"mirror"} \cup Asking, pc' = "mirror", todo < Len(Order), todo' = todo + 1,
         UNCHANGED <<version, age, stamp, read, script>>, Types',
         \A d \in Generated : module'[d] = module[d] \/ module'[d] = version,
         Order[todo + 1] \in Generated => module'[Order[todo + 1]] = version
  PROVE  Inv'
<1> USE DEF Inv, Types, Asking
<1>1. Mirrored'
  <2> SUFFICES ASSUME NEW i \in 1 .. todo + 1, Order[i] \in Generated
               PROVE module'[Order[i]] = version
    BY DEF Mirrored
  <2>1. CASE i = todo + 1
    BY <2>1
  <2>2. CASE i # todo + 1
    BY <2>2 DEF Mirrored
  <2> QED BY <2>1, <2>2
<1>2. NoTie' /\ ReadIsLast' /\ Asked' /\ StampIsTrue' /\ UpToDateIsTrue'
  BY DEF NoTie, ReadIsLast, Asked, StampIsTrue, UpToDateIsTrue, Generating
<1> QED BY <1>1, <1>2

\* At the end of the script every generated directory has been mirrored.
LEMMA AllDone ==
  ASSUME Inv, pc = "mirror", todo = Len(Order)
  PROVE  AllMirrored
<1>1. \A i \in 1 .. 5 : Order[i] \in Generated => module[Order[i]] = version
  BY OrderIs DEF Inv, Mirrored
<1>2. module["top"] = version /\ module["autoconf"] = version /\ module["server"] = version
  <2>1. "top" \in Generated /\ "autoconf" \in Generated /\ "server" \in Generated
    BY DEF Generated
  <2> QED BY <1>1, <2>1, OrderIs
<1> QED BY <1>2 DEF AllMirrored, Generated

\* Each step of a run, of the user and of the faults preserves Inv.
LEMMA InvStep == Circumstances /\ Inv /\ [Next]_vars => Inv'
<1> SUFFICES ASSUME Circumstances, Inv, [Next]_vars PROVE Inv'
  OBVIOUS
<1> USE RunAssumption DEF desc, run, cpp, files, Asking
<1>1. CASE \E s \in Sources : Edit(s)
  <2> PICK s \in Sources : Edit(s)
    BY <1>1
  <2>1. pc = "idle" /\ pc' = "idle" /\ age' = [age EXCEPT ![s] = "newer"]
    BY DEF Edit, Circumstances
  <2>2. age'[s] = "newer" /\ ~ AllOlder'
    BY <2>1 DEF Inv, Types, AllOlder
  <2>3. NoTie'
    BY <2>1 DEF Inv, Types, NoTie
  <2>4. version' \in Versions
    BY DEF Edit, Inv, Types, Versions
  <2>5. Types'
    BY <2>1, <2>4 DEF Edit, Inv, Types, Ages
  <2> QED
    BY <2>1, <2>2, <2>3, <2>5 DEF Inv, ReadIsLast, Mirrored, Asked, StampIsTrue,
                                  UpToDateIsTrue, Generating
<1>2. CASE Tick \/ EditCodel \/ PkgConfig \/ UNCHANGED vars
  <2>1. UNCHANGED <<version, age, stamp, module, pc, opts, read, script, todo>>
    BY <1>2 DEF Tick, EditCodel, PkgConfig, vars
  <2> QED BY <2>1, Unseen
<1>3. CASE Start \/ GetRequires \/ PkgWait \/ PkgFails \/ PerlDies
           \/ SayUpToDate \/ GenRefused
  <2>1. CASE pc' # pc
    <3>1. UNCHANGED <<version, age, stamp, module>>
          /\ pc' \in {"idle", "requires", "pkg", "flags"}
      BY <1>3, <2>1 DEF Start, GetRequires, PkgWait, PkgFails, PerlDies,
                        SayUpToDate, GenRefused, Goto, Exit
    <3>2. Types'
      BY <1>3 DEF Start, GetRequires, PkgWait, PkgFails, PerlDies,
                  SayUpToDate, GenRefused, Goto, Exit, Inv, Types
    <3> QED BY <3>1, <3>2, Aside
  <2>2. CASE pc' = pc
    <3>1. UNCHANGED <<version, age, stamp, module, pc, opts, read, script, todo>>
      BY <1>3, <2>2 DEF Start, GetRequires, PkgWait, PkgFails, PerlDies,
                        SayUpToDate, GenRefused, Goto, Exit
    <3> QED BY <3>1, Unseen
  <2> QED BY <2>1, <2>2
<1>3a. CASE Crash
  <2>1. CASE pc' # pc
    <3>1. pc' = "idle" /\ UNCHANGED <<version, age, stamp, module>>
      BY <1>3a, <2>1 DEF Crash
    <3>2. Types'
      BY <1>3a DEF Crash, Inv, Types
    <3> QED BY <3>1, <3>2, Aside
  <2>2. CASE pc' = pc
    BY <1>3a, <2>2, Unseen DEF Crash
  <2> QED BY <2>1, <2>2
<1>4. CASE CallCpp
  BY <1>4, Ahead DEF CallCpp, Inv, Types
<1>5. CASE Parse
  <2>1. CASE form = "error"
    BY <1>5, <2>1, Aside DEF Parse, Goto, Inv, Types
  <2>2. CASE form # "error"
    BY <1>5, <2>2, Ahead DEF Parse, Goto, Inv, Types, ReadIsLast
  <2> QED BY <2>1, <2>2
<1>6. CASE Regenerate
  BY <1>6, Ahead DEF Regenerate, Inv, Types, ReadIsLast
<1>7. CASE GenScript
  <2>1. pc' = "perl"
    BY <1>7 DEF GenScript, Goto, Circumstances, Inv, Types
  <2> QED
    BY <1>7, <2>1, Ahead DEF GenScript, Goto, Inv, Types, ReadIsLast, StampIsTrue, Generating
<1>8. CASE Perl
  <2>1. Types'
    BY <1>8, OrderIs DEF Perl, Inv, Types
  <2>2. script' = version /\ todo' = 0 /\ pc' = "mirror" /\ ~ stamp'
    BY <1>8 DEF Perl, Inv, ReadIsLast, StampIsTrue, Generating
  <2>3. Mirrored'
    BY <1>8, <2>2 DEF Perl, Mirrored
  <2> QED
    BY <1>8, <2>1, <2>2, <2>3 DEF Perl, Inv, NoTie, ReadIsLast, Asked, StampIsTrue,
                                  UpToDateIsTrue, Generating
<1>9. CASE UpToDate
  <2>1. AllOlder
    BY <1>9 DEF UpToDate, Fresh, Dated, Circumstances, Inv, NoTie, AllOlder, Sources
  <2>2. AllMirrored
    BY <1>9, <2>1 DEF UpToDate, Inv, StampIsTrue
  <2> QED
    BY <1>9, <2>2 DEF UpToDate, Goto, Inv, Types, NoTie, ReadIsLast, Mirrored, Asked,
                      StampIsTrue, UpToDateIsTrue, Generating, AllOlder, AllMirrored
<1>10. CASE MirrorGenerated
  <2>1. /\ pc = "mirror" /\ todo < Len(Order) /\ Order[todo + 1] \in Generated
        /\ module' = [module EXCEPT ![Order[todo + 1]] = version]
    BY <1>10 DEF MirrorGenerated, Mirrors, Circumstances, Inv, Mirrored
  <2>2. Types'
    BY <1>10, <2>1, OrderIs DEF MirrorGenerated, Inv, Types
  <2>3. /\ \A d \in Generated : module'[d] = module[d] \/ module'[d] = version
        /\ module'[Order[todo + 1]] = version
    BY <2>1 DEF Inv, Types
  <2> QED BY <1>10, <2>1, <2>2, <2>3, OneMore DEF MirrorGenerated
<1>11. CASE MirrorTopUser \/ (MirrorUser /\ pc' = "mirror") \/ (Reply /\ pc' = "mirror")
           \/ Overwrite
  <2>1. /\ pc \in {"mirror"} \cup Asking /\ pc' = "mirror"
        /\ todo < Len(Order) /\ todo' = todo + 1 /\ Order[todo + 1] \notin Generated
    BY <1>11 DEF MirrorTopUser, MirrorUser, Reply, Answer, Overwrite, Mirrors, Inv, Asked,
                 Generated
  <2>2. UNCHANGED <<version, age, stamp, read, script, opts, module>>
    BY <1>11 DEF MirrorTopUser, MirrorUser, Reply, Answer, Overwrite
  <2>3. Types'
    BY <2>1, <2>2, OrderIs DEF Inv, Types
  <2> QED BY <2>1, <2>2, <2>3, OneMore
<1>12. CASE MirrorUser /\ pc' # "mirror"
  <2>1. /\ pc = "mirror" /\ pc' = "ask" /\ todo < Len(Order) /\ Order[todo + 1] = "codels"
        /\ UNCHANGED <<version, age, stamp, read, script, opts, module, todo>>
    BY <1>12 DEF MirrorUser, Mirrors
  <2> QED
    BY <2>1 DEF Inv, Types, NoTie, ReadIsLast, Mirrored, Asked, StampIsTrue, UpToDateIsTrue,
                Generating, Generated, AllOlder, AllMirrored
<1>12a. CASE (Reply /\ pc' # "mirror") \/ Save
  <2>1. /\ pc \in Asking /\ pc' \in Asking
        /\ UNCHANGED <<version, age, stamp, read, script, opts, module, todo>>
    BY <1>12a DEF Reply, Answer, Save
  <2> QED
    BY <2>1 DEF Inv, Types, NoTie, ReadIsLast, Mirrored, Asked, StampIsTrue, UpToDateIsTrue,
                Generating, AllOlder, AllMirrored
<1>13. CASE PerlEnds
  <2>1. AllMirrored
    BY <1>13, AllDone DEF PerlEnds
  <2> QED
    BY <1>13, <2>1 DEF PerlEnds, Inv, Types, NoTie, ReadIsLast, Mirrored, Asked,
                       StampIsTrue, UpToDateIsTrue, Generating, AllOlder, AllMirrored
<1>14. CASE WriteStamp
  <2>1. pc' = "idle" /\ UNCHANGED <<version, module, opts, todo>> /\ AllMirrored
    BY <1>14 DEF WriteStamp, Inv, Mirrored
  <2>2. age' = [s \in Sources |-> "older"]
    BY <1>14 DEF WriteStamp
  <2>3. Types' /\ NoTie'
    BY <2>1, <2>2 DEF Inv, Types, NoTie, Ages
  <2> QED
    BY <2>1, <2>3 DEF Inv, ReadIsLast, Mirrored, Asked, StampIsTrue, UpToDateIsTrue,
                      Generating, AllMirrored
<1> QED
  BY <1>1, <1>2, <1>3, <1>4, <1>5, <1>6, <1>7, <1>8, <1>9, <1>10, <1>11, <1>12, <1>13, <1>14,
     <1>3a, <1>12a
  DEF Next, Genom, User, Faults

\* In these circumstances a run that says the module is up to date is right, whatever
\* runs failed or were killed before it (main of parser.y and end.pl).
THEOREM UpToDateIsTrueHolds ==
  ASSUME Circumstances PROVE Spec => []UpToDateIsTrue
<1>1. Init => Inv
  BY RunAssumption, OrderIs
  DEF Init, Inv, Types, NoTie, ReadIsLast, Mirrored, Asked, StampIsTrue, UpToDateIsTrue,
      Generating, Asking, Versions, Ages
<1>2. Inv => UpToDateIsTrue
  BY DEF Inv
<1> QED
  BY <1>1, <1>2, InvStep, PTL DEF Spec
=============================================================================
