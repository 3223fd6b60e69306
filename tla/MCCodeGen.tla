------------------------------- MODULE MCCodeGen -------------------------------
(***************************************************************************)
(* Descriptions put together from parts: the types, the tasks, the         *)
(* requests and the posters of a small module, and the order of the parts. *)
(***************************************************************************)
EXTENDS CodeGen

MCWords == STRING
MCBase == {"int", "double", "char"}
MCSize == [n \in MCBase |-> CASE n = "int" -> 4 [] n = "double" -> 8 [] n = "char" -> 1]

Typedef(n, tag, ms, h, imp) ==
  [kind |-> "typedef", name |-> n, tag |-> tag, members |-> ms, header |-> h, import |-> imp]
Point(h) == Typedef("Point", "Point", <<<<"x", "double">>, <<"y", "double">>>>, h, "none")
Sdi(other) ==
  Typedef("Sdi", "Sdi", <<<<"goal", "Point">>, <<"other", other>>, <<"mode", "int">>>>, "gen", "none")
Frame(imp) == Typedef("Frame", "FrameStr", <<<<"o", "double">>, <<"u", "double">>>>, "frame.h", imp)
Odd == Typedef("Odd", "Odd", <<<<"c", "char">>, <<"x", "double">>>>, "odd.h", "none")
Spare == Typedef("Spare", "Spare", <<<<"p", "Point">>>>, "gen", "none")
Alias(n, of, imp) == [kind |-> "alias", name |-> n, of |-> of, import |-> imp]
Block(ds) == <<[kind |-> "import"]>> \o ds \o <<[kind |-> "close"]>>

Module(n) == <<[kind |-> "module", name |-> "m", number |-> n, sdi |-> "Sdi"]>>
Poster(n, data, user, task) ==
  [kind |-> "poster", name |-> n, data |-> data, user |-> user, task |-> task]
Data(n, path) == [name |-> n, path |-> path, type |-> None]
TypedData(n, type) == [name |-> n, path |-> <<>>, type |-> type]
TaskDecl(n, period, ins) ==
  [kind |-> "task", name |-> n,
   attributes |-> <<<<"period", period>>, <<"posters", ins>>, <<"fail_reports", {"OK", "late"}>>>>]
Rqst(n, as) == [kind |-> "request", name |-> n, attributes |-> as]
Of(type, input, output, by, task) ==
  <<<<"type", type>>, <<"input", input>>, <<"output", output>>, <<"interrupt_activity", by>>,
    <<"exec_task", task>>, <<"codel_main", IF task = None THEN None ELSE "main">>>>

Goal == <<"goal">>
Other == <<"other">>
Start == Rqst("start", Of("INIT", Goal, <<>>, <<>>, "slow"))
Goto(input, by) == Rqst("goto", Of("EXEC", input, Other, by, "slow"))
Track(task) == Rqst("track", Append(Of("EXEC", <<>>, Goal, <<"track">>, task),
                                    <<"fail_reports", {"OK", "lost"}>>))
Stop_ == Rqst("stop", <<<<"type", "CONTROL">>, <<"output", Other>>,
                        <<"interrupt_activity", ALL>>, <<"fail_reports", {"late", "stuck"}>>>>)
Watch(ps) == Rqst("watch", <<<<"type", "EXEC">>, <<"exec_task", "slow">>, <<"posters", ps>>>>)
Twice == Rqst("twice", <<<<"type", "EXEC">>, <<"type", "CONTROL">>>>)

Tasks(period, ins) == {<<TaskDecl("slow", period, ins)>>,
                       <<TaskDecl("fast", 5, <<>>), TaskDecl("slow", period, ins)>>}
Requests ==
  {<<Goto(Goal, by), Track("slow"), Stop_>> : by \in {<<>>, <<"goto">>, <<"track", "ghost">>, ALL}}
  \cup {<<Start, Goto(Goal, <<"goto">>)>>, <<Goto(Goal, <<>>), Start, Track("fast")>>,
        <<Stop_, Track(None)>>, <<Goto(<<"nowhere">>, <<>>)>>, <<Stop_, Goto(ALL, <<"goto">>), Track("slow")>>,
        <<Goto(ALL, <<>>)>>, <<Twice>>}
PostersOf == {<<>>, <<Poster("Path", <<Data("goal", Goal), Data("other", Other)>>, FALSE, "slow")>>,
              <<Poster("Pose", <<TypedData("p", "Point")>>, TRUE, "slow"),
                Poster("Path", <<Data("goal", Goal)>>, FALSE, "fast")>>}

Types ==
  {<<Point("point.h"), Sdi("Point")>>, <<Point("gen"), Sdi("Ghost")>>,
   <<Point("gen"), Frame("none"), Sdi("Frame")>>,
   <<Point("point.h"), Sdi("Frame"), Frame("none")>>,
   <<Point("gen"), Spare, Sdi("Point")>>}
  \cup {<<Point("point.h")>> \o Block(<<Frame("from")>>) \o <<Sdi("Frame")>>,
        Block(<<Frame("bare")>>) \o <<Point("gen"), Sdi("Frame")>>}

\* Aliases: of a basic type and of an imported one, of a structure, used by requests or
\* by another type only, of an unknown name, of an alias.
Aliased ==
  {<<Point("gen"), Alias("Angle", "double", "none"), Sdi("Angle")>>,
   <<Point("gen"), Alias("Pose", "Point", "none"), Sdi("Pose")>>,
   <<Point("gen"), Alias("Lost", "Nowhere", "none"), Sdi("Lost")>>,
   <<Point("gen"), Alias("Pose", "Point", "none"), Alias("Mark", "Pose", "none"), Sdi("Mark")>>,
   <<Point("gen"), Alias("Pose", "Point", "none"),
     Typedef("Spare", "Spare", <<<<"p", "Pose">>>>, "gen", "none"), Sdi("Spare")>>}
  \cup {Block(<<Frame("from"), Alias("Pose", "FrameStr", "from")>>) \o <<Point("gen"), Sdi("Pose")>>}

Whole(ts, ks, rs, ps) == {Module(7) \o ts \o ks \o ps \o rs, ts \o rs \o ps \o Module(7) \o ks}
Interleaved(ts, ks, rs) == Module(7) \o ts \o SubSeq(rs, 1, 1) \o ks \o SubSeq(rs, 2, Len(rs))

\* Files that end the run, and posters of other modules.
Mistakes ==
  LET of(ts, ks, rs) == Module(7) \o ts \o ks \o rs
      plain == <<Point("gen"), Sdi("Point")>>
      slow == <<TaskDecl("slow", 10, <<"Point">>)>>
  IN {Module(99), <<Point("gen")>>, <<TaskDecl("test", 0, <<>>)>>, of(<<Point("gen")>>, slow, <<>>),
      of(plain, slow, <<Watch(<<"Point", "Point">>)>>), of(plain, slow, <<Watch(<<"Nope">>)>>),
      of(plain, <<TaskDecl("slow", 10, <<"Nope">>)>>, <<Watch(<<"Point">>)>>),
      of(plain, slow, <<Track("gone")>>),
      of(plain, slow, <<Poster("Pose", <<TypedData("p", "Nope")>>, FALSE, "slow")>>),
      of(plain, slow, <<Watch(<<"Point", "int">>)>>),
      of(<<Point("gen"), Alias("Pose", "Point", "none"), Sdi("Pose")>>, slow,
         <<Watch(<<"Pose", "Point">>)>>),
      of(<<Point("gen"), Alias("Pose", "Point", "none"), Sdi("Pose")>>, slow,
         <<Poster("Mine", <<TypedData("p", "Pose")>>, TRUE, "slow"), Stop_>>),
      of(<<Point("gen"), Alias("Pose", "Point", "none"), Sdi("Pose")>>,
         <<TaskDecl("slow", 10, <<"Pose">>)>>, <<Stop_>>),
      of(plain, slow, <<Poster("Pose", <<Data("p", <<"nowhere">>)>>, FALSE, "slow")>>)}

MCInterleaved ==
  {Interleaved(ts, ks, rs) : ts \in Types, ks \in Tasks(10, <<"Point">>), rs \in Requests}

MCFiles ==
  UNION {Whole(ts, ks, rs, ps) :
           ts \in Types \cup Aliased, ks \in Tasks(0, <<>>) \cup Tasks(10, <<"Point">>),
           rs \in Requests, ps \in PostersOf}
  \cup MCInterleaved
  \cup Mistakes
MCAliases ==
  {Module(7) \o ts \o <<TaskDecl("slow", 0, <<>>), r>> : ts \in Aliased, r \in {Track("slow"), Stop_}}
MCTwice == {Module(7) \o <<Point("gen"), Frame("none"), Sdi("Frame"),
                          TaskDecl("slow", 0, <<"Frame">>), Watch(<<"Frame">>)>>}
MCOdd == {Module(7) \o <<Odd, Sdi("Odd"), TaskDecl("slow", 0, <<>>), Goto(<<>>, <<>>)>>}
MCManyPosters ==
  {Module(7) \o <<Point("gen"), Sdi("Point"), TaskDecl("slow", 0, <<>>)>>
     \o [i \in 1 .. n |-> Poster(<<"P1", "P2", "P3">>[i], <<Data("goal", Goal)>>, FALSE, "slow")]
     \o <<Track("slow")>> : n \in 0 .. 3}
MCMenu == {Module(7) \o <<Point("gen"), Sdi("Point"), TaskDecl("slow", 0, <<>>),
                         Goto(ALL, <<"goto">>), Stop_>>}
MCInits == {Module(7) \o <<Point("gen"), Sdi("Point"), TaskDecl("slow", 0, <<>>), Start,
                          [Start EXCEPT !.name = "again"]>>}
MCOptions == {{"server", "tcl", "openprs"}, {"server"}, {"tcl"}}
=============================================================================
