-------------------------------- MODULE Genfile --------------------------------
(***************************************************************************)
(* The description of a module, from the declarations of the .gen file to  *)
(* the structures the generators walk: the actions of the grammar          *)
(* (parser.y), the checks of each attribute and the resolution of the      *)
(* names, of the types and of the tasks (genom.c).                         *)
(***************************************************************************)
EXTENDS Naturals, FiniteSets, Sequences, SequencesExt

CONSTANTS
  Files,      \* the .gen files: sequences of declarations
  Words,      \* the words that may stand for a name in them
  Base,       \* the names of the basic types
  MaxNumber   \* the largest number a module may have

None == ""

ASSUME GenfileAssumption == MaxNumber \in Nat /\ None \in Words

ALL == <<"all">>      \* the whole SDI, or all the requests

Path == Seq(Words)
ReportSets == {R \in SUBSET Words : IsFiniteSet(R)}

\* The attributes of the requests and of the tasks, and what each may be given.
RqstAttributes ==
  {"type"} \X {"INIT", "EXEC", "CONTROL"}
  \cup {"input", "output", "posters", "interrupt_activity"} \X Path
  \cup {"exec_task", "codel_control", "codel_main"} \X Words
  \cup {"fail_reports"} \X ReportSets
TaskAttributes ==
  {"period", "priority"} \X Nat \cup {"posters"} \X Path
  \cup {"codel_task_main"} \X Words \cup {"fail_reports"} \X ReportSets

\* The declarations the grammar accepts.  An alias is a typedef of a name, basic or
\* declared before; an import block is more than one declaration.
Declarations ==
  [kind : {"module"}, name : Words, number : Nat, sdi : Words]
  \cup [kind : {"typedef"}, name : Words, tag : Words, members : Seq(Words \X Words),
        header : Words, import : {"none", "from", "bare"}]
  \cup [kind : {"alias"}, name : Words, of : Words, import : {"none", "from", "bare"}]
  \cup [kind : {"import", "close"}]
  \cup [kind : {"request"}, name : Words, attributes : Seq(RqstAttributes)]
  \cup [kind : {"task"}, name : Words, attributes : Seq(TaskAttributes)]
  \cup [kind : {"poster"}, name : Words, user : BOOLEAN, task : Words,
        data : Seq([name : Words, path : Path, type : Words])]

TypedefKinds == {"typedef", "alias"}

\* f[i] opens an import block that is still open after f[j].
Opens(f, i, j) == f[i].kind = "import" /\ \A l \in i + 1 .. j : f[l].kind \in TypedefKinds

\* Each alias has a name of its own, is not one of a later typedef, and is not the SDI,
\* which is not a basic type either: what C asks, and genom does not look at.
AliasesSound(f) ==
  /\ \A i, j \in DOMAIN f : f[i].kind = "alias" /\ f[j].kind = "alias" /\ f[i].name = f[j].name
       => i = j
  /\ \A i \in DOMAIN f : f[i].kind = "alias" =>
       \A j \in i .. Len(f) : f[j].kind \in TypedefKinds => f[j].name # f[i].of
  /\ \A j \in DOMAIN f : f[j].kind = "module" =>
       /\ f[j].sdi \notin Base
       /\ \A i \in DOMAIN f : f[i].kind = "alias" => f[i].name # f[j].sdi

\* The blocks are closed and hold typedefs only, as the grammar has it.  It would also
\* take a block inside a block, which is left out.
ASSUME FilesAssumption ==
  \A f \in Files :
    /\ f \in Seq(Declarations) /\ AliasesSound(f)
    /\ \A i \in DOMAIN f : f[i].kind = "import" =>
         \E j \in i + 1 .. Len(f) : f[j].kind = "close" /\ Opens(f, i, j - 1)
    /\ \A j \in DOMAIN f : f[j].kind = "close" => \E i \in 1 .. j - 1 : Opens(f, i, j - 1)

VARIABLES
  pc,         \* "parse", the part of the resolution, "gen", or the end of the run
  file, at,   \* the declarations, and how many are parsed
  group, list, \* the kind and the elements of the list being parsed
  outer,      \* the list around an import block
  typedefs,   \* the list of that name: [name, type, import]
  types,      \* the structures, by tag
  requetes, taches, posters, module, \* the lists of that name
  inputs,     \* posters_input: types
  k,          \* how far the current part of the resolution is
  warned,     \* whether genom warned of an unknown type
  freed,      \* the members whose type object was freed
  zones,      \* the arrays added to the SDI: [rqst, dir]
  includes    \* includeFiles

tables == <<typedefs, types, requetes, taches, posters, module>>
resolved == <<inputs, freed, zones, includes>>
parsing == <<file, at, group, list, outer>>
gvars == <<pc, parsing, tables, k, warned, resolved>>

NoModule == [name |-> None, number |-> 0, internal_data |-> None]

\* What an attribute that is not given holds.
NoRqst == [type |-> None, input |-> <<>>, output |-> <<>>, posters |-> <<>>,
           interrupt_activity |-> <<>>, exec_task |-> None, fail_reports |-> {},
           codel_control |-> None, codel_main |-> None]
NoTask == [period |-> 0, priority |-> 0, posters |-> <<>>, codel_task_main |-> None,
           fail_reports |-> {}]

GInit ==
  /\ pc = "parse" /\ file \in Files /\ at = 0
  /\ group = None /\ list = <<>> /\ outer = <<>>
  /\ typedefs = <<>> /\ types = <<>>
  /\ requetes = <<>> /\ taches = <<>> /\ posters = <<>> /\ module = NoModule
  /\ inputs = <<>> /\ k = 1 /\ warned = FALSE /\ freed = {}
  /\ zones = <<>> /\ includes = {}

-----------------------------------------------------------------------------
(* Attributes: the lists are right recursive, so the last one is set first, *)
(* and one that is already set is refused when its value is not zero.       *)

Attributes(avs, zero) ==
  LET s[i \in 1 .. Len(avs) + 1] ==
        IF i = Len(avs) + 1 THEN [str |-> zero, dup |-> FALSE]
        ELSE LET a == avs[i][1] IN
             [str |-> [s[i + 1].str EXCEPT ![a] = avs[i][2]],
              dup |-> s[i + 1].dup \/ s[i + 1].str[a] # zero[a]]
  IN s[1]

\* check_reports
Reports(str) == [str EXCEPT !.fail_reports = @ \ {"OK"}]

-----------------------------------------------------------------------------
(* Types *)

\* A type is an object: a basic one or a structure; "name" is the object a member has
\* of its own when its type was not known, "alias" the one all the members of that
\* alias share.
StructType(tag) == [def |-> "struct", id |-> tag]
NoType == [def |-> "none", id |-> None]

\* trouve_type of a name: the typedefs, then the tags.
TrouveType(n) ==
  LET i == SelectInSeq(typedefs, LAMBDA t : t.name = n) IN
  IF i # 0 THEN typedefs[i].type ELSE IF n \in DOMAIN types THEN StructType(n) ELSE NoType

\* What an alias is of.
AliasOf(n) == file[SelectInSeq(file, LAMBDA d : d.kind = "alias" /\ d.name = n)].of

\* trouve_type of a type, one step; a type other than a typedef is its own.
TrouveOf(t) == IF t.def = "name" THEN TrouveType(t.id)
               ELSE IF t.def = "alias" THEN TrouveType(AliasOf(t.id))
               ELSE t

Unknown(n) == n \notin Base /\ TrouveType(n) = NoType

\* The type of a member once its declaration is parsed: an unknown name stays one.
TypeOf(n) ==
  IF n \in Base THEN [def |-> "base", id |-> n]
  ELSE IF Unknown(n) THEN [def |-> "name", id |-> n]
  ELSE TrouveType(n)

Struct(d) ==
  [members |-> [i \in 1 .. Len(d.members) |->
                  [name |-> d.members[i][1], type |-> TypeOf(d.members[i][2])]],
   header |-> d.header, import |-> d.import]

\* ajout_type
With(tag, s) == [t \in DOMAIN types \cup {tag} |-> IF t = tag THEN s ELSE types[t]]

-----------------------------------------------------------------------------
(* The declarations.  Consecutive ones of a kind make a list, which takes  *)
(* the place of the one parsed before when the list ends.                  *)

Decl == file[at + 1]
Is(kind) == pc = "parse" /\ at < Len(file) /\ Decl.kind = kind

Reduce(next) ==
  /\ requetes' = IF group = "request" /\ next # "request" THEN list ELSE requetes
  /\ taches' = IF group = "task" /\ next # "task" THEN list ELSE taches
  /\ posters' = IF group = "poster" /\ next # "poster" THEN list ELSE posters

Element(kind, e) ==
  /\ Reduce(kind) /\ group' = kind /\ at' = at + 1
  /\ list' = IF group = kind THEN Append(list, e) ELSE <<e>>
  /\ UNCHANGED <<file, outer, typedefs, types, module, k, warned, resolved>>

Stop(end) == pc' = end /\ UNCHANGED <<parsing, tables, k, warned, resolved>>

\* A number out of range is an error of the parser, and ends the run.
ParseModule ==
  /\ Is("module")
  /\ IF Decl.number > MaxNumber THEN Stop("exit")
     ELSE /\ module' = [name |-> Decl.name, number |-> Decl.number,
                        internal_data |-> Decl.sdi]
          /\ Reduce("module") /\ group' = "module" /\ list' = <<>> /\ at' = at + 1
          /\ UNCHANGED <<pc, file, outer, typedefs, types, k, warned, resolved>>

\* The members are looked up before the type is declared.
ParseTypedef ==
  /\ Is("typedef")
  /\ LET l == IF group = "typedef" THEN list ELSE <<>>
         new == Append(l, [name |-> Decl.name, type |-> StructType(Decl.tag),
                           import |-> Decl.import])
     IN /\ list' = new /\ typedefs' = new
        /\ types' = With(Decl.tag, Struct(Decl))
        /\ warned' = (warned \/ \E i \in 1 .. Len(Decl.members) : Unknown(Decl.members[i][2]))
  /\ Reduce("typedef") /\ group' = "typedef" /\ at' = at + 1
  /\ UNCHANGED <<pc, file, outer, module, k, resolved>>

\* A typedef of a basic type is that type; of a name, an object of its own, and nothing
\* is looked up.
AliasType(d) == IF d.of \in Base THEN [def |-> "base", id |-> d.of]
                ELSE [def |-> "alias", id |-> d.name]

ParseAlias ==
  /\ Is("alias")
  /\ LET l == IF group = "typedef" THEN list ELSE <<>>
         new == Append(l, [name |-> Decl.name, type |-> AliasType(Decl),
                           import |-> Decl.import])
     IN list' = new /\ typedefs' = new
  /\ Reduce("typedef") /\ group' = "typedef" /\ at' = at + 1
  /\ UNCHANGED <<pc, file, outer, types, module, k, warned, resolved>>

\* import { : the list in the block starts empty, and is typedefs until the block
\* ends.
OpenImport ==
  /\ Is("import")
  /\ outer' = IF group = "typedef" THEN list ELSE <<>>
  /\ list' = <<>> /\ Reduce("typedef") /\ group' = "typedef" /\ at' = at + 1
  /\ UNCHANGED <<pc, file, typedefs, types, module, k, warned, resolved>>

CloseImport ==
  /\ Is("close")
  /\ list' = outer \o list /\ typedefs' = outer \o list /\ outer' = <<>> /\ at' = at + 1
  /\ UNCHANGED <<pc, file, group, types, requetes, taches, posters, module, k, warned,
                 resolved>>

ParseRequest ==
  /\ Is("request")
  /\ LET a == Attributes(Decl.attributes, NoRqst)
         r == Reports(a.str) IN
     IF a.dup THEN Stop("exit")
     ELSE Element("request", [name |-> Decl.name, num |-> 0, incompatible |-> {}, str |-> r])
          /\ UNCHANGED pc

\* A task named test would clash with the test program.
ParseTask ==
  /\ Is("task")
  /\ LET a == Attributes(Decl.attributes, NoTask) IN
     IF a.dup \/ Decl.name = "test" THEN Stop("exit")
     ELSE Element("task", [name |-> Decl.name, num |-> 0, str |-> Reports(a.str)])
          /\ UNCHANGED pc

ParsePoster ==
  /\ Is("poster")
  /\ Element("poster", [name |-> Decl.name, data |-> Decl.data, user |-> Decl.user,
                        exec_task |-> Decl.task, members |-> <<>>])
  /\ UNCHANGED pc

EndOfFile ==
  /\ pc = "parse" /\ at = Len(file)
  /\ IF module = NoModule THEN Stop("exit")
     ELSE /\ Reduce("end") /\ group' = None /\ list' = <<>> /\ pc' = "requests"
          /\ UNCHANGED <<file, at, outer, typedefs, types, module, k, warned, resolved>>

Parse ==
  \/ ParseModule \/ ParseTypedef \/ ParseAlias \/ OpenImport \/ CloseImport
  \/ ParseRequest \/ ParseTask \/ ParsePoster \/ EndOfFile

-----------------------------------------------------------------------------
(* Resolution *)

Go(next) == pc' = next /\ k' = 1

\* interrupt_activity as a set of requests: an INIT request interrupts all of them,
\* a name is that of the first request which has it, an unknown one is skipped.
Incompatible(r) ==
  IF r.str.type = "INIT" \/ r.str.interrupt_activity = ALL THEN DOMAIN requetes
  ELSE {SelectInSeq(requetes, LAMBDA q : q.name = r.str.interrupt_activity[j]) :
          j \in DOMAIN r.str.interrupt_activity} \ {0}

ResolveRequests ==
  /\ pc = "requests"
  /\ requetes' = [i \in DOMAIN requetes |->
                    [requetes[i] EXCEPT !.num = i - 1,
                                        !.incompatible = Incompatible(requetes[i])]]
  /\ Go("sdi")
  /\ UNCHANGED <<parsing, typedefs, types, taches, posters, module, warned, resolved>>

ResolveSdi ==
  /\ pc = "sdi"
  /\ LET t == TrouveType(module.internal_data) IN
     IF t = NoType THEN Stop("exit")
     ELSE /\ module' = [module EXCEPT !.internal_data = t.id] /\ Go("uses")
          /\ UNCHANGED <<parsing, typedefs, types, requetes, taches, posters, warned,
                         resolved>>

\* The members of a type; a type known by its name only has none.
Members(t) == IF t.def = "struct" THEN types[t.id].members ELSE <<>>
SdiType == StructType(module.internal_data)

\* trouve_sdi_ref: the members on the way to the one path names, as pairs of a
\* structure and an index; <<>> where the path leads nowhere.
Walk(path) ==
  LET step(t, name) ==
        LET i == SelectInSeq(Members(t), LAMBDA m : m.name = name) IN
        IF i = 0 THEN <<>> ELSE <<t.id, i>>
      w[j \in 1 .. Len(path)] ==
        IF j = 1 THEN step(SdiType, path[1])
        ELSE IF w[j - 1] = <<>> THEN <<>>
        ELSE step(types[w[j - 1][1]].members[w[j - 1][2]].type, path[j])
  IN w

SdiRef(path) == Walk(path)[Len(path)]
Member(m) == types[m[1]].members[m[2]]

\* The members that have the type object of a member: all those of an alias.
Sharing(m) ==
  IF Member(m).type.def # "alias" THEN {m}
  ELSE UNION {{<<t, i>> : i \in {j \in DOMAIN types[t].members :
                                  types[t].members[j].type = Member(m).type}} : t \in DOMAIN types}

\* A reference reads a type object that was freed.
Dangling(path) == \E j \in 1 .. Len(path) : Walk(path)[j] \in freed
FreedType(t) == t.def = "alias" /\ \E m \in freed : Member(m).type = t

\* What the code makes of a reference to the SDI.
Fate(path, typed) ==
  IF path = ALL THEN "found"
  ELSE IF Dangling(path) THEN "undefined"
  ELSE IF SdiRef(path) = <<>> THEN "exit"
  ELSE LET t == Member(SdiRef(path)).type IN
       IF TrouveOf(t) = t THEN "found"
       ELSE IF TrouveOf(t) # NoType THEN "late"
       ELSE IF typed THEN "exit" ELSE "found"

\* Mutant: the object is freed even when it is the type that is found.
ReplacedAlways(path) ==
  IF path # ALL /\ Fate(path, FALSE) \in {"late", "found"}
  THEN freed \cup Sharing(SdiRef(path)) ELSE freed

\* The type of a member is a name, not known when it was parsed or that of an alias, and
\* what it stands for is found now: the object is freed, and members still refer to it.
Replaced(path) ==
  IF Fate(path, FALSE) = "late" THEN freed \cup Sharing(SdiRef(path)) ELSE freed

\* The references of the requests to the SDI and to the types of posters, in order.
Uses ==
  LET of(p) == IF p = <<>> THEN <<>> ELSE << <<"sdi", p>> >> IN
  FlattenSeq([i \in DOMAIN requetes |->
    LET s == requetes[i].str IN
    of(s.input) \o of(s.output) \o [j \in DOMAIN s.posters |-> <<"type", s.posters[j]>>]])

Next1 == k' = k + 1 /\ UNCHANGED pc

\* The name a type object holds: for an alias, that of what it is of.
NameIn(t) == IF t.def = "alias" THEN AliasOf(t.id) ELSE t.id

\* The inputs registered are known by the name in their type, the one looked for as it is
\* given.  A basic type has no name to copy.
RegisterInput(n) ==
  LET t == TypeOf(n) IN
  IF SelectInSeq(inputs, LAMBDA u : NameIn(u) = n) # 0 THEN Next1 /\ UNCHANGED inputs
  ELSE IF t.def = "name" THEN pc' = "exit" /\ UNCHANGED <<k, inputs>>
  ELSE IF t.def = "base" THEN pc' = "crash" /\ UNCHANGED <<k, inputs>>
  ELSE IF FreedType(t) THEN pc' = "undefined" /\ UNCHANGED <<k, inputs>>
  ELSE Next1 /\ inputs' = <<t>> \o inputs

ResolveUse ==
  /\ pc = "uses" /\ k <= Len(Uses)
  /\ IF Uses[k][1] = "type" THEN RegisterInput(Uses[k][2]) /\ UNCHANGED freed
     ELSE LET f == Fate(Uses[k][2], FALSE) IN
          /\ IF f \in {"exit", "undefined"} THEN pc' = f /\ UNCHANGED k ELSE Next1
          /\ freed' = Replaced(Uses[k][2]) /\ UNCHANGED inputs
  /\ UNCHANGED <<parsing, tables, warned, zones, includes>>

UsesResolved ==
  /\ pc = "uses" /\ k > Len(Uses) /\ Go("posters")
  /\ UNCHANGED <<parsing, tables, warned, resolved>>

\* The structure of a poster: the members of the SDI its data refer to, or the
\* types it declares.
PosterMember(d) ==
  [name |-> d.name,
   type |-> IF d.path = ALL THEN SdiType
            ELSE IF d.path # <<>> THEN Member(SdiRef(d.path)).type
            ELSE TypeOf(d.type)]

PosterFate(d) ==
  IF d.path # <<>> THEN Fate(d.path, TRUE)
  ELSE IF Unknown(d.type) THEN "exit"
  ELSE IF FreedType(TypeOf(d.type)) THEN "undefined" ELSE "found"

ResolvePoster ==
  /\ pc = "posters" /\ k <= Len(posters)
  /\ LET fates == [j \in DOMAIN posters[k].data |-> PosterFate(posters[k].data[j])]
         bad == SelectInSeq(fates, LAMBDA f : f \in {"exit", "undefined"})
     IN IF bad # 0 THEN Stop(fates[bad])
        ELSE /\ posters' = [posters EXCEPT ![k].members =
                              [j \in DOMAIN posters[k].data |-> PosterMember(posters[k].data[j])]]
             /\ Next1
             /\ UNCHANGED <<parsing, typedefs, types, requetes, taches, module, warned, resolved>>

PostersResolved ==
  /\ pc = "posters" /\ k > Len(posters) /\ Go("inputs")
  /\ UNCHANGED <<parsing, tables, warned, resolved>>

TaskInputs == FlattenSeq([i \in DOMAIN taches |-> taches[i].str.posters])

ResolveTaskInput ==
  /\ pc = "inputs" /\ k <= Len(TaskInputs)
  /\ RegisterInput(TaskInputs[k])
  /\ UNCHANGED <<parsing, tables, warned, freed, zones, includes>>

\* Mutant: the requests that are not reentrant get an array too.
ReentrantAny(r) == TRUE

Reentrant(r) == r.num + 1 \notin r.incompatible

\* The arrays of the inputs and of the outputs of the reentrant requests.
AddArrays ==
  /\ pc = "inputs" /\ k > Len(TaskInputs)
  /\ zones' =
       LET of(r, d, p) == IF p = <<>> THEN <<>> ELSE << [rqst |-> r.num, dir |-> d] >> IN
       FlattenSeq([i \in DOMAIN requetes |->
         LET r == requetes[i] IN
         IF r.str.type = "EXEC" /\ Reentrant(r)
         THEN of(r, "Input", r.str.input) \o of(r, "Output", r.str.output) ELSE <<>>])
  /\ Go("tasks")
  /\ UNCHANGED <<parsing, tables, inputs, warned, freed, includes>>

Task(n) == \E t \in DOMAIN taches : taches[t].name = n

ResolveTasks ==
  /\ pc = "tasks"
  /\ IF \/ \E i \in DOMAIN requetes : requetes[i].str.exec_task # None
                                      /\ ~ Task(requetes[i].str.exec_task)
        \/ \E p \in DOMAIN posters : ~ Task(posters[p].exec_task)
     THEN Stop("exit")
     ELSE /\ taches' = [i \in DOMAIN taches |-> [taches[i] EXCEPT !.num = i - 1]]
          /\ Go("includes")
          /\ UNCHANGED <<parsing, typedefs, types, requetes, posters, module, warned, resolved>>

\* Mutant: the files of the imported types only.
ConstruitImportList ==
  /\ pc = "includes"
  /\ includes' = {types[t].header : t \in {u \in DOMAIN types : types[u].import # "none"}}
  /\ Go("gen")
  /\ UNCHANGED <<parsing, tables, inputs, warned, freed, zones>>

\* The files of the types, but the SDI and those of the .gen file itself.
ConstruitIncludeList ==
  /\ pc = "includes"
  /\ includes' = {types[t].header : t \in DOMAIN types \ {module.internal_data}} \ {"gen"}
  /\ Go("gen")
  /\ UNCHANGED <<parsing, tables, inputs, warned, freed, zones>>

Resolve ==
  \/ ResolveRequests \/ ResolveSdi \/ ResolveUse \/ UsesResolved \/ ResolvePoster
  \/ PostersResolved \/ ResolveTaskInput \/ AddArrays \/ ResolveTasks
  \/ ConstruitIncludeList
=============================================================================
