------------------------------- MODULE GenomRun -------------------------------
(***************************************************************************)
(* A run of the generator: main of parser.y, the processes it starts       *)
(* (extern_processes.c), the Perl script it writes (start.pl, end.pl) and  *)
(* its conditional regeneration, among the edits of the user and the       *)
(* crashes of the generator.  A version numbers the contents of the        *)
(* description: the .gen file and the headers it includes.                 *)
(***************************************************************************)
EXTENDS Naturals, Sequences

CONSTANTS
  Headers,     \* the files the .gen file includes
  Relative,    \* those cpp names by a path relative to the current directory
  Options,     \* the options the user may give, among "c", "i" and "n"
  Forms,       \* what the description may be: "good", "error", "refused",
               \* "requires" (a requires attribute with no end)
  MaxVersion,  \* bound on the edits of the description
  Output,      \* the blocks pkg-config writes
  Capacity,    \* the blocks a pipe holds
  Cmd,         \* the cpp options of the command line
  Flags,       \* the cpp options pkg-config gives
  MaxCppOpt,   \* MAX_CPP_OPT
  SameSecond,  \* whether an edit may bear the date of the stamp
  Patient,     \* the user edits nothing while genom, or its script, runs
  CopyFails    \* whether a copy of the script may fail

ASSUME RunAssumption ==
  /\ Relative \subseteq Headers /\ Options \subseteq {"c", "i", "n"}
  /\ Forms \subseteq {"good", "error", "refused", "requires"} /\ "good" \in Forms
  /\ {MaxVersion, Output, Capacity, Cmd, Flags} \subseteq Nat
  /\ MaxCppOpt \in Nat /\ Cmd < MaxCppOpt
  /\ {SameSecond, Patient, CopyFails} \subseteq BOOLEAN

\* The directories end.pl mirrors, in order: those of the user ("user" stands for
\* his files of the top directory), and the generated ones.
Order == <<"user", "top", "codels", "autoconf", "server">>
Generated == {"top", "autoconf", "server"}
Sources == {"gen"} \cup Headers
Versions == 0 .. MaxVersion
Ages == {"older", "same", "newer"}

VARIABLES
  version, form,  \* the description as it is, and what genom will find in it
  age,            \* the date of each source, against that of the stamp
  stamp,          \* whether genom-stamp exists
  tick,           \* whether the second of the stamp is over
  pc, opts,       \* where the run is, and its options
  orphan,         \* whether genom was killed, and its script goes on
  read,           \* the version this run read
  nOpt,           \* nCppOptions
  pipe, left,     \* the blocks in the pipe, and those the child has to write
  script,         \* the version of the files in .genom
  todo,           \* how many directories end.pl has mirrored
  module,         \* the version of each directory of generated files
  codel,          \* the file of codels: absent, a template, or edited
  saved           \* whether the last edits are saved in .genomsave

vars == <<version, form, age, stamp, tick, pc, opts, orphan, read, nOpt, pipe, left, script,
          todo, module, codel, saved>>

desc == <<version, form, age, tick>>
run == <<opts, orphan>>
cpp == <<nOpt, pipe, left>>
files == <<script, todo, module, codel, saved>>

TypeOK ==
  /\ version \in Versions /\ form \in Forms /\ age \in [Sources -> Ages]
  /\ {stamp, tick, saved, orphan} \subseteq BOOLEAN
  /\ pc \in {"idle", "requires", "pkg", "flags", "cpp", "parsed", "uptodate", "gen",
             "perl", "mirror", "ask", "save", "overwrite", "done"}
  /\ opts \in SUBSET Options /\ read \in Versions
  /\ nOpt \in 0 .. MaxCppOpt
  /\ pipe \in 0 .. Capacity /\ left \in 0 .. Output
  /\ script \in Versions /\ todo \in 0 .. Len(Order)
  /\ module \in [Generated -> Versions \cup {MaxVersion + 1}]
  /\ codel \in {"absent", "template", "edited"}

Init ==
  /\ version = 0 /\ form \in Forms /\ age = [s \in Sources |-> "newer"]
  /\ stamp = FALSE /\ tick = TRUE
  /\ pc = "idle" /\ opts = {} /\ orphan = FALSE /\ read = 0
  /\ nOpt = 0 /\ pipe = 0 /\ left = 0
  /\ script = 0 /\ todo = 0
  /\ module = [d \in Generated |-> MaxVersion + 1]
  /\ codel = "absent" /\ saved = FALSE

-----------------------------------------------------------------------------
(* The user *)

Edit(s) ==
  /\ (Patient => pc = "idle") /\ version < MaxVersion
  /\ version' = version + 1 /\ form' \in Forms
  /\ \E a \in IF SameSecond /\ ~tick THEN {"same", "newer"} ELSE {"newer"} :
       age' = [age EXCEPT ![s] = a]
  /\ UNCHANGED <<stamp, tick, pc, run, read, cpp, files>>

Tick == ~tick /\ tick' = TRUE /\ UNCHANGED <<version, form, age, stamp, pc, run, read,
                                            cpp, files>>

EditCodel ==
  /\ (Patient => pc = "idle") /\ codel # "absent"
  /\ codel' = "edited" /\ saved' = FALSE
  /\ UNCHANGED <<desc, stamp, pc, run, read, cpp, script, todo, module>>

-----------------------------------------------------------------------------
(* Processes *)

Goto(p) == pc' = p /\ UNCHANGED <<desc, read, run, cpp, files>>

\* An exit of genom, without the stamp.
Exit == Goto("idle") /\ UNCHANGED stamp

\* The command line, with Cmd options for cpp.  Nobody starts genom in the
\* directory of a run, or of a script, that is not over.
Start ==
  /\ pc = "idle"
  /\ \E o \in SUBSET Options : opts' = o
  /\ pc' = "requires" /\ nOpt' = Cmd
  /\ UNCHANGED <<desc, orphan, stamp, read, pipe, left, files>>

\* genom_get_requires: the tokens up to the ';' of each requires attribute; at the
\* end of the file yylex returns 0 again and again.
GetRequires ==
  /\ pc = "requires" /\ form # "requires"
  /\ pc' = "pkg" /\ left' = Output
  /\ UNCHANGED <<desc, stamp, run, read, nOpt, pipe, files>>

\* pkg-config writes, and is blocked when the pipe is full.
PkgConfig ==
  /\ pc = "pkg" /\ left > 0 /\ pipe < Capacity
  /\ left' = left - 1 /\ pipe' = pipe + 1
  /\ UNCHANGED <<desc, stamp, pc, run, read, nOpt, files>>

\* Mutant: genom leaves its end of the pipe open, and reads for ever.
PkgWaitOpen ==
  /\ pc = "pkg" /\ left = 0 /\ pipe > 0
  /\ pipe' = pipe - 1
  /\ UNCHANGED <<desc, stamp, pc, run, read, nOpt, left, files>>

\* get_pkgconfig_cflags: waitpid first, then read to the end of file; the options
\* found are added to cppOptions, as many as it may hold.
PkgWait ==
  /\ pc = "pkg" /\ left = 0
  /\ \/ pipe > 0 /\ pipe' = pipe - 1 /\ UNCHANGED <<pc, nOpt>>
     \/ /\ pipe = 0 /\ UNCHANGED pipe
        /\ IF nOpt + Flags <= MaxCppOpt THEN nOpt' = nOpt + Flags /\ pc' = "flags"
                                        ELSE nOpt' = nOpt /\ pc' = "idle"
  /\ UNCHANGED <<desc, stamp, run, read, left, files>>

\* pkg-config fails.
PkgFails == pc = "pkg" /\ left' = 0 /\ pipe' = 0 /\ pc' = "idle"
            /\ UNCHANGED <<desc, stamp, run, read, nOpt, files>>

\* The list of options is closed by a NULL, and cpp called.
CallCpp ==
  /\ pc = "flags"
  /\ pc' = "cpp" /\ read' = version
  /\ UNCHANGED <<desc, stamp, run, cpp, files>>

\* yyparse, with the errors it and the functions resolve* report.
Parse ==
  /\ pc = "cpp"
  /\ Goto(IF form = "error" THEN "idle" ELSE "parsed") /\ UNCHANGED stamp

-----------------------------------------------------------------------------
(* Conditional regeneration *)

\* The headers whose date stat can tell from .genom, the date being compared is
\* that of the .gen file for the others.
Dated == Headers \ Relative

\* The stamp is later than the .gen file, and no earlier than what it includes.
Fresh == age["gen"] = "older" /\ \A h \in Dated : age[h] # "newer"

UpToDate ==
  /\ pc = "parsed" /\ "c" \in opts /\ stamp /\ Fresh
  /\ Goto("uptodate") /\ UNCHANGED stamp

SayUpToDate == pc = "uptodate" /\ Exit

\* Otherwise the stamp goes first.
Regenerate ==
  /\ pc = "parsed" /\ ("c" \in opts /\ stamp => ~Fresh)
  /\ pc' = "gen" /\ stamp' = FALSE
  /\ UNCHANGED <<desc, run, read, cpp, files>>

\* A generator refuses the description: no code generated.
GenRefused == pc = "gen" /\ form = "refused" /\ Exit

\* The script is written; -n stops there, with a status of success.
GenScript ==
  /\ pc = "gen" /\ form # "refused"
  /\ Goto(IF "n" \in opts THEN "done" ELSE "perl") /\ UNCHANGED stamp

-----------------------------------------------------------------------------
(* The script *)

\* start.pl and the generators' parts: the files of .genom, moved if they changed.
Perl ==
  /\ pc = "perl"
  /\ script' = read /\ todo' = 0 /\ pc' = "mirror"
  /\ UNCHANGED <<desc, stamp, run, read, cpp, module, codel, saved>>

Scripting == {"perl", "mirror", "ask", "save", "overwrite"}

\* The script dies, or is killed: genom, if it is there, reports a failure.
PerlDies ==
  /\ pc \in Scripting
  /\ pc' = "idle" /\ orphan' = FALSE
  /\ UNCHANGED <<desc, stamp, opts, read, cpp, files>>

Mirrors(D) == pc = "mirror" /\ todo < Len(Order) /\ Order[todo + 1] \in D

\* mirror_dir of a generated directory, which overwrites; the status of the copies
\* is not looked at.
MirrorGenerated ==
  /\ Mirrors(Generated)
  /\ \/ module' = [module EXCEPT ![Order[todo + 1]] = script]
     \/ CopyFails /\ UNCHANGED module
  /\ todo' = todo + 1
  /\ UNCHANGED <<desc, stamp, pc, run, read, cpp, script, codel, saved>>

\* The mode for the files of the user.
UserMode == IF "i" \in opts THEN "ask" ELSE "skip"

\* Mutant: the user's files are treated as generated ones.
OverwriteUser ==
  /\ Mirrors({"codels"})
  /\ codel' = "template" /\ todo' = todo + 1 /\ pc' = pc
  /\ UNCHANGED <<desc, stamp, run, read, cpp, script, module, saved>>

\* mirror_dir of the user's directory: what is absent is created; what is still the
\* template of this version needs nothing; what changed is left, or the user asked.
MirrorUser ==
  /\ Mirrors({"codels"})
  /\ \/ /\ codel = "absent"
        /\ codel' \in {"template"} \cup (IF CopyFails THEN {"absent"} ELSE {})
        /\ todo' = todo + 1 /\ pc' = pc
     \/ /\ codel = "template" /\ UNCHANGED codel
        /\ todo' = todo + 1 /\ pc' = pc
     \/ /\ codel # "absent" /\ UNCHANGED codel
        /\ IF UserMode = "ask" THEN pc' = "ask" /\ UNCHANGED todo
                               ELSE todo' = todo + 1 /\ pc' = pc
  /\ UNCHANGED <<desc, stamp, run, read, cpp, script, module, saved>>

MirrorTopUser ==
  /\ Mirrors({"user"}) /\ todo' = todo + 1
  /\ UNCHANGED <<desc, stamp, pc, run, read, cpp, script, module, codel, saved>>

\* The user agrees to lose the file, or does not.
Answer(yes) ==
  /\ pc = "ask"
  /\ IF yes THEN pc' = "save" /\ UNCHANGED todo
            ELSE pc' = "mirror" /\ todo' = todo + 1
  /\ UNCHANGED <<desc, stamp, run, read, cpp, script, module, codel, saved>>

\* The file is copied to .genomsave; the status of the copy is not looked at.
Save ==
  /\ pc = "save"
  /\ \/ saved' = TRUE
     \/ CopyFails /\ UNCHANGED saved
  /\ pc' = "overwrite"
  /\ UNCHANGED <<desc, stamp, run, read, cpp, script, module, codel, todo>>

\* It is overwritten, saved or not.
Overwrite ==
  /\ pc = "overwrite"
  /\ \/ codel' = "template"
     \/ CopyFails /\ UNCHANGED codel
  /\ todo' = todo + 1 /\ pc' = "mirror"
  /\ UNCHANGED <<desc, stamp, run, read, cpp, script, module, saved>>

\* The script ends, or becomes autogen, whose status it takes.  Nobody writes the
\* stamp of a run that was killed.
PerlEnds ==
  /\ pc = "mirror" /\ todo = Len(Order)
  /\ pc' = (IF orphan THEN "idle" ELSE "done") /\ orphan' = FALSE
  /\ UNCHANGED <<desc, stamp, opts, read, cpp, files>>

\* Mutant: the stamp is written whatever the script did.
StampAnyway ==
  /\ pc \in {"perl", "mirror", "done"}
  /\ stamp' = TRUE /\ pc' = "idle"
  /\ age' = [s \in Sources |-> "older"] /\ tick' = FALSE
  /\ UNCHANGED <<version, form, run, read, cpp, files>>

\* The stamp is written at the end.
WriteStamp ==
  /\ pc = "done"
  /\ stamp' = TRUE /\ pc' = "idle"
  /\ age' = [s \in Sources |-> "older"] /\ tick' = FALSE
  /\ UNCHANGED <<version, form, run, read, cpp, files>>

\* Genom is killed, alone: the shell and the script that system() runs go on.
Crash ==
  /\ pc # "idle" /\ ~orphan
  /\ IF pc \in Scripting
     THEN orphan' = TRUE /\ UNCHANGED <<pc, pipe, left>>
     ELSE pc' = "idle" /\ pipe' = 0 /\ left' = 0 /\ UNCHANGED orphan
  /\ UNCHANGED <<desc, stamp, opts, read, nOpt, files>>

-----------------------------------------------------------------------------
Genom ==
  \/ GetRequires \/ PkgWait \/ CallCpp \/ Parse \/ UpToDate \/ SayUpToDate \/ Regenerate
  \/ GenRefused \/ GenScript \/ Perl \/ PerlEnds \/ WriteStamp
  \/ MirrorUser \/ MirrorTopUser \/ MirrorGenerated \/ Save \/ Overwrite

User == Start \/ EditCodel \/ \E s \in Sources : Edit(s)

Reply == \E yes \in BOOLEAN : Answer(yes)

Faults == PkgFails \/ PerlDies \/ Crash

Next == Genom \/ PkgConfig \/ User \/ Reply \/ Faults \/ Tick

Spec == Init /\ [][Next]_vars

\* Genom and its child run, and the user answers.
FairSpec == Spec /\ WF_vars(Genom) /\ WF_vars(PkgConfig) /\ WF_vars(Reply)

-----------------------------------------------------------------------------
\* When genom says that the module is up to date, the generated files are those
\* of the description as it is: an unfinished, failed or killed run leaves no
\* stamp, and no source changes unseen, if nobody edits it meanwhile (Patient).
UpToDateIsTrue ==
  pc = "uptodate" => \A d \in Generated : module[d] = version

\* A file of codels that the user wrote is only overwritten on request, and saved
\* before, whichever of genom and its script is killed at whatever step.  It takes
\* copies that do not fail, and a user who does not edit the file between the two.
CodelsAreKept ==
  [][codel = "edited" /\ codel' # "edited" => "i" \in opts /\ saved']_vars

\* The array of the options of cpp has room for the NULL that ends it.
OptionsFit == pc \in {"flags", "cpp"} => nOpt < MaxCppOpt

\* A run ends.
RunEnds == pc # "idle" ~> pc = "idle"
=============================================================================
