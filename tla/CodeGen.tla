-------------------------------- MODULE CodeGen --------------------------------
(***************************************************************************)
(* What genom writes from a resolved description: the tables of the server *)
(* and of its clients, one action per generator, in the order of main().   *)
(* A file is reduced to what the others must agree with.                   *)
(***************************************************************************)
EXTENDS Genfile, Integers, FiniteSetsExt

CONSTANTS
  Size,        \* the size of each basic type, which is also its alignment
  MaxPosters,  \* MAX_POSTERS
  Options      \* the parts that may be asked for: sets of "server", "tcl", "openprs"

ASSUME CodeGenAssumption == MaxPosters \in Nat /\ Options \subseteq SUBSET {"server", "tcl", "openprs"}

VARIABLES
  options,  \* the parts asked for
  out,      \* the content of the files
  fatal     \* fatalError

cvars == <<gvars, options, out, fatal>>

Kinds == {"endian", "print", "xml", "scan", "prs"}
Blank == [conv |-> [i \in Kinds |-> {}], calls |-> {}, type |-> {}, error |-> <<>>,
          poster |-> <<>>, msg |-> <<>>, cntrl |-> <<>>, exec |-> <<>>, init |-> <<>>,
          test |-> <<>>, tcl |-> <<>>, module |-> <<>>, atoms |-> {}]

Init == GInit /\ options \in Options /\ out = Blank /\ fatal = FALSE

\* A generator fills its file, then main calls the next one.
Write(step, f, content, next) ==
  /\ pc = step /\ pc' = next
  /\ out' = [out EXCEPT ![f] = content]
  /\ UNCHANGED <<parsing, tables, k, warned, resolved, options, fatal>>

-----------------------------------------------------------------------------
(* Types *)

TypeAt(path) == IF path = ALL THEN SdiType ELSE Member(SdiRef(path)).type
Compound(t) == t.def # "base"
PosterType(p) == [def |-> "poster", id |-> p.name]

\* markUsed: the types trouve_type has found, and those of members.
Marked ==
  {SdiType} \cup Range(inputs)
  \cup (UNION {{m.type : m \in Range(types[t].members)} : t \in DOMAIN types})
  \cup (UNION {{IF p.data[j].path = <<>> THEN p.members[j].type ELSE TrouveOf(p.members[j].type) :
                   j \in DOMAIN p.data} : p \in Range(posters)})
Used == {t.id : t \in {u \in Marked : u.def = "struct"}}

Unused == {t \in DOMAIN types \ Used : types[t].import = "none"}

\* typeGen: the SDI, and the types of the .gen file that are used.
TypeGen ==
  /\ freed = {}
  /\ Write("gen", "type",
       {t \in Used : /\ \E d \in Range(typedefs) : d.type = StructType(t)
                    /\ (t = module.internal_data \/ types[t].header = "gen")}, "error")

\* A member of a type refers to an object that was freed.
TypeGenFreed ==
  /\ pc = "gen" /\ freed # {} /\ Stop("undefined") /\ UNCHANGED <<options, out, fatal>>

\* errorGen: the reports of the control requests, then those of the tasks and of
\* the other requests; the numbers are the positions.
ErrorGen ==
  LET cntrl == {i \in DOMAIN requetes : requetes[i].str.type = "CONTROL"}
      reports(I) == UNION {requetes[i].str.fail_reports : i \in I}
      exec == UNION {taches[i].str.fail_reports : i \in DOMAIN taches}
  IN Write("error", "error",
       SetToSeq(reports(cntrl) \ exec)
         \o SetToSeq((exec \cup reports(DOMAIN requetes)) \ (reports(cntrl) \ exec)),
       "endian")

\* Mutant: the types of the header files are those of another module.
GeneratedHere ==
  {StructType(t) : t \in {u \in DOMAIN types : types[u].header = "gen"}}
  \cup {PosterType(p) : p \in Range(posters)}

\* The types and typedefs that are not imported.
Own == {t \in DOMAIN types : types[t].import = "none"}
OwnTypedefs == {d \in Range(typedefs) : d.import = "none"}

\* The functions a conversion generator defines: those types, those typedefs, and the
\* structures of the posters.
Generated ==
  {StructType(t) : t \in Own} \cup {[def |-> "name", id |-> d.name] : d \in OwnTypedefs}
  \cup {PosterType(p) : p \in Range(posters)}

\* The functions the bodies call: those of the members, and of the type a typedef names.
Called ==
  {t \in (UNION ({{m.type : m \in Range(types[u].members)} : u \in Own}
                 \cup {{m.type : m \in Range(p.members)} : p \in Range(posters)}))
         \cup {d.type : d \in OwnTypedefs} : Compound(t)}

ConvGen(step, kind, next) ==
  /\ pc = step /\ pc' = next
  /\ out' = [out EXCEPT !.conv[kind] = Generated,
                        !.calls = @ \cup ({kind} \X Called)]
  /\ UNCHANGED <<parsing, tables, k, warned, resolved, options, fatal>>

EndianGen == ConvGen("endian", "endian", "print")
PrintGen == ConvGen("print", "print", "xml")
PrintXMLGen == ConvGen("xml", "xml", "scan")
ScanGen == ConvGen("scan", "scan", "posterLib")

-----------------------------------------------------------------------------
(* The client library *)

\* The calls a file makes to the functions of the types of S.
Calls(kinds, S) == kinds \X {t \in S : Compound(t)}

posterExecTaskNameTab == [i \in DOMAIN taches |-> taches[i].name]

posterRequestNameTab ==
  LET of(r) == IF r.str.type \in {"EXEC", "INIT"} THEN << [name |-> r.name, num |-> r.num] >>
               ELSE <<>>
  IN FlattenSeq([i \in DOMAIN requetes |-> of(requetes[i])])

\* posterLibMemberGen: what is read of a poster is its structure, or a member of it.
ReadTypes ==
  {PosterType(p) : p \in Range(posters)}
  \cup (UNION {{m.type : m \in Range(p.members)} : p \in Range(posters)})

PosterLibGen ==
  /\ pc = "posterLib" /\ pc' = "msg"
  /\ out' = [out EXCEPT
       !.poster = [tasks |-> posterExecTaskNameTab, rqsts |-> posterRequestNameTab],
       !.calls = @ \cup Calls({"endian", "print", "xml"}, ReadTypes)]
  /\ UNCHANGED <<parsing, tables, k, warned, resolved, options, fatal>>

\* A type with its aliases followed to the end.
Deref(type) ==
  LET of[n \in 0 .. Len(typedefs) + 1] == IF n = 0 THEN type ELSE TrouveOf(of[n - 1])
  IN of[Len(typedefs) + 1]

\* taille_obj: the sum of the sizes of the members; a pointer for what is unknown.
Taille(type) ==
  LET plain(t) == IF t.def = "base" THEN Size[t.id] ELSE 8
      of[t \in DOMAIN types] ==
        FoldSeq(LAMBDA m, n : LET d == Deref(m.type) IN
                              n + (IF d.def = "struct" THEN of[d.id] ELSE plain(d)),
                0, types[t].members)
      whole == Deref(type)
  IN IF whole.def = "struct" THEN of[whole.id] ELSE plain(whole)

\* The sizeof that genSizeof leaves to the compiler: each member is aligned, and so
\* is the whole; it refuses an unknown type.  A pair of a size and an alignment.
Layout(type) ==
  LET up(n, a) == ((n + a - 1) \div a) * a
      plain(t) == IF t.def = "base" THEN <<Size[t.id], Size[t.id]>> ELSE <<0, 1>>
      of[t \in DOMAIN types] ==
        LET l == FoldLeft(LAMBDA a, m :
                   LET d == Deref(m.type)
                       s == IF d.def = "struct" THEN of[d.id] ELSE plain(d)
                   IN <<up(a[1], s[2]) + s[1], Max({a[2], s[2]})>>,
                   <<0, 1>>, types[t].members)
        IN <<up(l[1], l[2]), l[2]>>
      whole == Deref(type)
  IN IF whole.def = "struct" THEN of[whole.id] ELSE plain(whole)
Sizeof(type) == Layout(type)[1]

\* trouve_abort_num: the least number no request has.
AbortNum == CHOOSE n \in 0 .. Len(requetes) :
              /\ \A i \in DOMAIN requetes : requetes[i].num # n
              /\ \A m \in 0 .. n - 1 : \E i \in DOMAIN requetes : requetes[i].num = m

\* A reentrant request whose input is the whole SDI adds to it an array of SDIs.
Endless ==
  \E i \in DOMAIN zones : LET s == requetes[zones[i].rqst + 1].str IN
    (IF zones[i].dir = "Input" THEN s.input ELSE s.output) = ALL

AfterMsg == IF "server" \in options THEN "cntrl" ELSE "prs"

MsgLibGen ==
  LET given(f) == {requetes[i].str[f] : i \in DOMAIN requetes} \ {<<>>} IN
  /\ ~ Endless
  /\ Write("msg", "msg",
       [nums |-> [i \in DOMAIN requetes |-> requetes[i].num], abort |-> AbortNum,
        rqstSize |-> Max({Size["int"]} \cup {Taille(TypeAt(p)) : p \in given("input")}),
        replySize |-> Max({Size["double"]} \cup {Taille(TypeAt(p)) : p \in given("output")})],
       AfterMsg)

\* The size of a structure that contains itself is computed without end.
MsgLibGenEndless ==
  /\ pc = "msg" /\ Endless /\ Stop("undefined") /\ UNCHANGED <<options, out, fatal>>

-----------------------------------------------------------------------------
(* The server *)

NumTask(n) == SelectInSeq(taches, LAMBDA t : t.name = n) - 1
InitRequests == {i \in DOMAIN requetes : requetes[i].str.type = "INIT"}

ReentrantFlag(r) == r.num + 1 \notin r.incompatible

Handler(r) ==
  [name |-> r.name, task |-> NumTask(r.str.exec_task), compatible |-> DOMAIN requetes \ r.incompatible,
   reentrant |-> ReentrantFlag(r),
   init |-> r.str.type = "INIT",
   outputSize |-> IF r.str.output = <<>> \/ r.str.type = "INIT" THEN 0
                  ELSE Sizeof(TypeAt(r.str.output))]

\* An execution request without a task stops the generator, not the others.
CntrlTaskGen ==
  LET alone == \E i \in DOMAIN requetes : /\ requetes[i].str.type # "CONTROL"
                                          /\ requetes[i].str.exec_task = None
  IN /\ pc = "cntrl" /\ pc' = "exec"
     /\ fatal' = (fatal \/ alone)
     /\ out' = IF alone THEN out ELSE [out EXCEPT !.cntrl =
          [nums |-> [i \in DOMAIN requetes |-> requetes[i].num], abort |-> AbortNum,
           init |-> IF InitRequests = {} THEN -1 ELSE requetes[Min(InitRequests)].num,
           tasks |-> [i \in DOMAIN taches |-> taches[i].name],
           handlers |-> [i \in DOMAIN requetes |-> Handler(requetes[i])]]]
     /\ UNCHANGED <<parsing, tables, k, warned, resolved, options>>

Codel(t, r) == IF r.str.exec_task = t.name THEN r.str.codel_main ELSE None

\* Each execution task: the index of its last poster, the table of the codels by
\* request, the posters its loop updates.
ExecTaskGen ==
  LET of(t) ==
        LET mine == SelectSeq(posters, LAMBDA p : p.exec_task = t.name) IN
        [posters |-> IF Len(mine) > MaxPosters THEN MaxPosters + 1 ELSE Len(mine),
         codels |-> [i \in DOMAIN requetes |-> Codel(t, requetes[i])],
         update |-> {p.name : p \in {q \in Range(mine) : ~ q.user}}]
  IN Write("exec", "exec", [i \in DOMAIN taches |-> of(taches[i])], "module")

ModuleInitGen ==
  Write("module", "module",
    [tasks |-> [i \in DOMAIN taches |-> [name |-> taches[i].name,
                                         priority |-> taches[i].str.priority]],
     periodic |-> \E i \in DOMAIN taches : taches[i].str.period > 0], "test")

\* The requests and the posters a request can take its input from: those that give
\* the same member of the SDI.
Sources(r) ==
  LET path == r.str.input
      rq(q) == IF q.name # r.name /\ q.str.output = path THEN << <<"request", q.name>> >>
               ELSE <<>>
      of(p, d) == IF d.path = path THEN << <<"poster", p.name>> >> ELSE <<>>
      ps(p) == FlattenSeq([j \in DOMAIN p.data |-> of(p, p.data[j])])
  IN FlattenSeq([i \in DOMAIN requetes |-> rq(requetes[i])])
       \o FlattenSeq([i \in DOMAIN posters |-> ps(posters[i])])

\* The comparison of the paths reads through NULL when the input is the whole SDI
\* and another request or a poster gives a member.
MenuCrash(r) ==
  /\ r.str.input = ALL
  /\ \/ \E i \in DOMAIN requetes : requetes[i].name # r.name
                                   /\ requetes[i].str.output \notin {<<>>, ALL}
     \/ \E p \in Range(posters) : \E d \in Range(p.data) : d.path \notin {<<>>, ALL}

\* The sizes of the buffers of a request, 0 when it has none.
TestSize(path) == IF path = <<>> THEN 0 ELSE Sizeof(TypeAt(path))

\* testTabRequestName: "nE" for the requests of which several may run.
TestKind(r) == IF r.str.type = "EXEC" /\ Reentrant(r) THEN "nE" ELSE r.str.type

\* testTabRequestFunc
TestEntry(r) ==
  [num |-> r.num, in |-> TestSize(r.str.input), out |-> TestSize(r.str.output),
   kind |-> TestKind(r), menu |-> IF r.str.input = <<>> THEN <<>> ELSE Sources(r)]

\* The functions that scan an input and print an output.
TestCalls ==
  LET given(f) == {TypeAt(p) : p \in {r.str[f] : r \in Range(requetes)} \ {<<>>}}
  IN Calls({"scan"}, given("input")) \cup Calls({"print"}, given("output"))

TestGen ==
  /\ pc = "test" /\ \A r \in Range(requetes) : r.str.input # <<>> => ~ MenuCrash(r)
  /\ pc' = "init"
  /\ out' = [out EXCEPT !.test = [i \in DOMAIN requetes |-> TestEntry(requetes[i])],
                        !.calls = @ \cup TestCalls]
  /\ UNCHANGED <<parsing, tables, k, warned, resolved, options, fatal>>

TestGenCrash ==
  /\ pc = "test" /\ \E r \in Range(requetes) : MenuCrash(r)
  /\ Stop("crash") /\ UNCHANGED <<options, out, fatal>>

\* The scalars a type is made of, in order; "?" for one that cannot be read.
Leaves(type) ==
  LET of[t \in DOMAIN types] ==
        FoldLeft(LAMBDA s, m :
          s \o (IF m.type.def = "base" THEN <<m.type.id>>
                ELSE IF m.type.def = "struct" THEN of[m.type.id] ELSE <<"?">>),
          <<>>, types[t].members)
  IN IF type.def = "base" THEN <<type.id>> ELSE IF type.def = "struct" THEN of[type.id] ELSE <<"?">>

\* initGen: the parameters of the program that sends the first init request.
InitGen ==
  LET r == requetes[Min(InitRequests)]
      params == IF InitRequests = {} \/ r.str.input = <<>> THEN <<>>
                ELSE Leaves(TypeAt(r.str.input))
  IN /\ pc = "init" /\ pc' = "prs"
     /\ fatal' = (fatal \/ "?" \in Range(params))
     /\ out' = [out EXCEPT
          !.init = [flag |-> InitRequests # {},
                    num |-> IF InitRequests = {} THEN 0 ELSE r.num, params |-> params],
          !.calls = IF params = <<>> THEN @ ELSE @ \cup Calls({"print"}, {TypeAt(r.str.input)})]
     /\ UNCHANGED <<parsing, tables, k, warned, resolved, options>>

-----------------------------------------------------------------------------
(* The bindings *)

\* The functions that make terms: none for the SDI, whether it is named by its tag
\* or by a typedef.
PrsFunctions ==
  {f \in Generated : f.def # "name" => f # SdiType}
  \ {[def |-> "name", id |-> d.name] : d \in {e \in Range(typedefs) : e.type = SdiType}}

\* declareRequests, declarePosters: the data that go through terms.
PrsTerms ==
  {TypeAt(p) : p \in (UNION {{r.str.input, r.str.output} : r \in Range(requetes)}) \ {<<>>}}
  \cup ReadTypes

\* declareReportAtoms: the reports of the requests, not those of the tasks.
ReportAtoms == UNION {r.str.fail_reports : r \in Range(requetes)}

OpenprsGen ==
  /\ pc = "prs" /\ "openprs" \in options /\ pc' = "tcl"
  /\ out' = [out EXCEPT !.conv["prs"] = PrsFunctions, !.atoms = ReportAtoms,
                        !.calls = @ \cup Calls({"prs"}, PrsTerms)]
  /\ UNCHANGED <<parsing, tables, k, warned, resolved, options, fatal>>

\* tclParseInputGen: the words of a command, one for each scalar of the input.
TclWords(r) == IF r.str.input = <<>> THEN <<>> ELSE Leaves(TypeAt(r.str.input))

\* tclArgNumber
TclArgNumber(r) == Len(TclWords(r))

\* One reader for each member of a poster.
TclReaders ==
  FlattenSeq([i \in DOMAIN posters |->
    [j \in DOMAIN posters[i].members |-> <<posters[i].name, posters[i].members[j].name>>]])

\* A type that cannot be read stops this generator, not the others.
TclGen ==
  LET bad == \E r \in Range(requetes) : "?" \in Range(TclWords(r))
  IN /\ pc = "tcl" /\ "tcl" \in options /\ pc' = "end"
     /\ fatal' = (fatal \/ bad)
     /\ out' = IF bad THEN out ELSE [out EXCEPT !.tcl =
          [args |-> [i \in DOMAIN requetes |-> TclArgNumber(requetes[i])],
           readers |-> TclReaders]]
     /\ UNCHANGED <<parsing, tables, k, warned, resolved, options>>

SkipBinding ==
  /\ \/ pc = "prs" /\ "openprs" \notin options /\ pc' = "tcl"
     \/ pc = "tcl" /\ "tcl" \notin options /\ pc' = "end"
  /\ UNCHANGED <<parsing, tables, k, warned, resolved, options, out, fatal>>

\* The script is run unless a generator has failed.
Finish == pc = "end" /\ Stop(IF fatal THEN "refused" ELSE "done") /\ UNCHANGED <<options, out, fatal>>

Generate ==
  \/ TypeGen \/ TypeGenFreed \/ ErrorGen \/ EndianGen \/ PrintGen \/ PrintXMLGen \/ ScanGen
  \/ PosterLibGen \/ MsgLibGen \/ MsgLibGenEndless
  \/ CntrlTaskGen \/ ExecTaskGen \/ ModuleInitGen \/ TestGen \/ TestGenCrash \/ InitGen
  \/ OpenprsGen \/ TclGen \/ SkipBinding \/ Finish

Next == ((Parse \/ Resolve) /\ UNCHANGED <<options, out, fatal>>) \/ Generate

Spec == Init /\ [][Next]_cvars

-----------------------------------------------------------------------------
(* Properties *)

Ends == {"exit", "undefined", "crash", "refused", "done"}
Done == pc = "done"
Server == Done /\ "server" \in options

\* The values the parser, the resolution and the generators work on: every index is
\* that of an element, every tag that of a structure.
TypeOK ==
  /\ at \in 0 .. Len(file) /\ k \in 1 .. Max({Len(Uses), Len(posters), Len(TaskInputs)}) + 1
  /\ \A t \in Range(inputs) \cup {typedefs[i].type : i \in DOMAIN typedefs} :
       t.def = "struct" => t.id \in DOMAIN types
  /\ \A i \in DOMAIN requetes : requetes[i].incompatible \subseteq DOMAIN requetes
  /\ \A m \in freed : m[1] \in DOMAIN types /\ m[2] \in DOMAIN types[m[1]].members
  /\ fatal \in BOOLEAN /\ (pc \in {"refused", "done"} => fatal = (pc = "refused"))

\* The declarations of a kind follow each other; an import block is one of types.
KindOf(d) == IF d.kind \in {"alias", "import", "close"} THEN "typedef" ELSE d.kind
Grouped(kind) ==
  \A i, j \in DOMAIN file : KindOf(file[i]) = kind /\ KindOf(file[j]) = kind =>
    \A l \in i .. j : KindOf(file[l]) = kind
DeclaredOf(kind) == {file[i].name : i \in {j \in DOMAIN file : file[j].kind = kind}}
Names(l) == {l[i].name : i \in DOMAIN l}

\* A type object is freed while members refer to it only after a warning, but for that of
\* an alias; and memory is misused for no other reason, but a reentrant request on
\* the whole SDI (resolveTypes, genom.c).
FreedIsWarned ==
  /\ \A m \in freed : warned \/ Member(m).type.def = "alias"
  /\ pc = "undefined" => freed # {} \/ Endless

\* The server says a request is reentrant exactly when the SDI holds an array for
\* its data, which the template indexes by the number of the request in progress
\* (cntrlTaskGen and resolveTypes decide it separately).
ReentrantHasZone ==
  Server => \A i \in DOMAIN requetes : \A d \in {"Input", "Output"} :
    LET r == requetes[i]
        n == Cardinality({j \in DOMAIN zones : zones[j] = [rqst |-> r.num, dir |-> d]})
    IN r.str.type = "EXEC" =>
         n = (IF /\ out.cntrl.handlers[i].reentrant
                 /\ (IF d = "Input" THEN r.str.input ELSE r.str.output) # <<>>
              THEN 1 ELSE 0)

\* The tables written apart by cntrlTaskGen, msgLibGen, posterLibGen, testGen and
\* initGen give a request the same number, and that of the abort is free.
NumbersAgree ==
  Server =>
    /\ \A i \in DOMAIN requetes :
         /\ out.cntrl.nums[i] = out.msg.nums[i] /\ out.test[i].num = out.msg.nums[i]
         /\ \A rqst \in Range(out.poster.rqsts) :
              rqst.num = out.msg.nums[i] <=> rqst.name = requetes[i].name
    /\ out.cntrl.abort = out.msg.abort /\ out.msg.abort \notin Range(out.msg.nums)
    /\ out.init.flag => out.init.num = out.cntrl.init
    /\ out.init.flag <=> out.cntrl.init # -1
    /\ out.tcl # <<>> /\ out.init.flag =>
         out.tcl.args[out.cntrl.init + 1] = Len(out.init.params)

\* The task a request is sent to is the one whose table holds its codel, under the
\* number of the request and at the place where the module starts that task; no
\* other task has it.
CodelsPlaced ==
  Server => \A i \in DOMAIN requetes : requetes[i].str.type # "CONTROL" =>
    LET t == out.cntrl.handlers[i].task + 1 IN
    /\ out.cntrl.tasks[t] = requetes[i].str.exec_task
    /\ out.module.tasks[t].name = out.poster.tasks[t]
    /\ out.exec[t].codels[out.msg.nums[i] + 1] = requetes[i].str.codel_main
    /\ \A u \in DOMAIN out.exec \ {t} : out.exec[u].codels[out.msg.nums[i] + 1] = None

\* The menu of the test program offers, for the input of a request, data of the
\* type that the request takes (testMakeGetInput compares paths, not types).
MenuHasType ==
  Server => \A i \in DOMAIN requetes : \A j \in DOMAIN out.test[i].menu :
    LET s == out.test[i].menu[j] IN
    s[1] = "request" => \E q \in Range(requetes) :
      q.name = s[2] /\ TypeAt(q.str.output) = TypeAt(requetes[i].str.input)

\* The reports that OpenPRS knows have a number each (errorGen takes the control
\* requests, the others and the tasks one after the other).
ReportsNumbered ==
  Done => /\ out.atoms \subseteq Range(out.error)
          /\ \A i, j \in DOMAIN out.error : out.error[i] = out.error[j] => i = j

\* What the generators write apart, for the module and for its clients, agrees:
\* the zones of the SDI, the numbers, the codels, the menus and the reports.
TablesAgree ==
  /\ ReentrantHasZone
  /\ NumbersAgree
  /\ CodelsPlaced
  /\ MenuHasType
  /\ ReportsNumbered

\* Unless genom warned of an unknown type, each conversion function that a file
\* calls is defined in the files it includes: the bare imports have none, and the
\* SDI is not known to OpenPRS.  An alias has no function: the one called, of a type
\* "inconnu", is nowhere.
FunctionsDefined ==
  Done /\ ~ warned =>
    \A c \in out.calls :
      \/ c[2] \in out.conv[c[1]]
      \/ c[2].def = "struct" /\ types[c[2].id].import # "none"
      \/ c[1] = "prs" /\ c[2] = SdiType
      \/ c[2].def = "alias"

\* Unless genom warned of an unused type, the structures those functions handle are
\* declared once: in the header genom writes or in one it includes.
TypesDeclared ==
  Done /\ Unused = {} =>
    \A t \in DOMAIN types :
      /\ t \in out.type \/ types[t].header \in includes \/ ~ Grouped("typedef")
      /\ ~ (t \in out.type /\ types[t].header \in includes /\ t # module.internal_data)

-----------------------------------------------------------------------------
(* What the documents, the comments and the messages claim, and TLC refutes. *)

\* A .gen file is a list of declarations (parser.y), in any order: none is lost.
NothingLost ==
  Done => /\ Names(requetes) = DeclaredOf("request") /\ Names(taches) = DeclaredOf("task")
          /\ Names(posters) = DeclaredOf("poster") /\ Names(typedefs) = DeclaredOf("typedef") \cup DeclaredOf("alias")

\* The size given for replies is the largest one (msgLibGen.c).
RepliesFit ==
  Server => \A i \in DOMAIN requetes : out.test[i].out <= out.msg.replySize

\* A type object is freed while members refer to it only after a warning (genom.c).
FreedIsAlwaysWarned == freed # {} => warned

\* The functions of the typedefs call those of their types (endianGen.c and the others).
AliasesConverted == Done => \A c \in out.calls : c[2].def # "alias"

\* A module has at most one init request (genom-edition.tex).
AtMostOneInit == Done => Cardinality(InitRequests) <= 1

\* The posters of a task fit in the table of the module (execTaskGen.c).
PosterIdsFit == Server => \A t \in DOMAIN out.exec : out.exec[t].posters <= MaxPosters

\* Each type of input poster is registered once (genom.c).
InputsOnce == \A i, j \in DOMAIN inputs : inputs[i] = inputs[j] => i = j

\* genom ends by itself.
NoCrash == pc # "crash"
=============================================================================
