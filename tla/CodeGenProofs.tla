---------------------------- MODULE CodeGenProofs ----------------------------
(***************************************************************************)
(* Proofs about genom and the files it writes, for any description: the    *)
(* types of the tables, then what the files written apart agree on.  The   *)
(* recursive definitions are dealt with by least counterexamples.          *)
(***************************************************************************)
EXTENDS CodeGen, FiniteSetTheorems, SequenceTheorems, WellFoundedInduction, TLAPS

-----------------------------------------------------------------------------
(* Numbers and sequences *)

LEMMA LeastNatural ==
  ASSUME NEW T \in SUBSET Nat, T # {}
  PROVE  \E n \in T : \A m \in T : n <= m
<1> DEFINE below(n) == 0 .. n - 1
           B == {below(n) : n \in T}
<1>1. \A n \in Nat : IsFiniteSet(below(n)) /\ below(n) \subseteq Nat
  BY FS_Interval
<1>2. B \subseteq FiniteSubsetsOf(Nat) /\ B # {}
  BY <1>1 DEF FiniteSubsetsOf
<1>3. PICK x \in B : \A y \in B : <<y, x>> \notin StrictSubsetOrdering(Nat)
  BY <1>2, FS_StrictSubsetOrderingWellFounded, WFMin
<1>4. PICK n \in T : x = below(n)
  OBVIOUS
<1>5. ASSUME NEW m \in T, m < n PROVE FALSE
  <2>1. below(m) \subseteq below(n) /\ below(m) # below(n)
    <3>1. m \in below(n) /\ m \notin below(m)
      BY <1>5
    <3> QED
      BY <1>5, <3>1
  <2>2. <<below(m), below(n)>> \in StrictSubsetOrdering(Nat)
    BY <1>1, <2>1 DEF StrictSubsetOrdering
  <2> QED
    BY <1>3, <1>4, <2>2
<1> QED
  BY <1>5

LEMMA MinIs ==
  ASSUME NEW T \in SUBSET Nat, T # {}
  PROVE  Min(T) \in T /\ \A m \in T : Min(T) <= m
BY LeastNatural DEF Min

\* A set that holds 1, and each number that follows one it holds, up to n.
LEMMA Upwards ==
  ASSUME NEW n \in Nat, NEW S, n >= 1 => 1 \in S,
         \A i \in 1 .. n : i \in S /\ i + 1 <= n => i + 1 \in S
  PROVE  1 .. n \subseteq S
<1> SUFFICES ASSUME (1 .. n) \ S # {} PROVE FALSE
  OBVIOUS
<1>1. PICK i \in (1 .. n) \ S : \A m \in (1 .. n) \ S : i <= m
  <2> DEFINE T == (1 .. n) \ S
  <2>1. T \in SUBSET Nat /\ T # {}
    OBVIOUS
  <2> HIDE DEF T
  <2>2. \E i \in T : \A m \in T : i <= m
    BY <2>1, LeastNatural
  <2> QED BY <2>2 DEF T
<1>2. i # 1
  OBVIOUS
<1>3. i - 1 \in 1 .. n /\ i - 1 \in S /\ (i - 1) + 1 = i
  BY <1>1, <1>2
<1> QED
  BY <1>1, <1>3

\* The same from n down to 1.
LEMMA Downwards ==
  ASSUME NEW n \in Nat, NEW S, n >= 1 => n \in S,
         \A i \in 1 .. n : i \in S /\ i - 1 >= 1 => i - 1 \in S
  PROVE  1 .. n \subseteq S
<1> DEFINE R == {i \in 1 .. n : n + 1 - i \in S}
<1>1. n >= 1 => 1 \in R
  OBVIOUS
<1>2. ASSUME NEW i \in 1 .. n, i \in R, i + 1 <= n PROVE i + 1 \in R
  <2>1. n + 1 - i \in 1 .. n /\ n + 1 - i \in S /\ (n + 1 - i) - 1 >= 1
    BY <1>2
  <2>2. (n + 1 - i) - 1 \in S
    BY <2>1
  <2>3. (n + 1 - i) - 1 = n + 1 - (i + 1)
    OBVIOUS
  <2> QED
    BY <2>2, <2>3, <1>2
<1>3. 1 .. n \subseteq R
  <2> HIDE DEF R
  <2> QED BY <1>1, <1>2, Upwards
<1>4. ASSUME NEW j \in 1 .. n PROVE j \in S
  <2>1. n + 1 - j \in 1 .. n
    OBVIOUS
  <2>2. n + 1 - (n + 1 - j) = j
    OBVIOUS
  <2> QED
    BY <1>3, <2>1, <2>2
<1> QED
  BY <1>4

\* A function may be defined from each value to the next one.
Steps(f, n, first, step) ==
  \A i \in 1 .. n : f[i] = IF i = 1 THEN first ELSE step[<<f[i - 1], i>>]

LEMMA Iteration ==
  ASSUME NEW T, NEW n \in Nat, NEW first \in T, NEW step \in [T \X (1 .. n) -> T]
  PROVE  \E f \in [1 .. n -> T] : Steps(f, n, first, step)
<1> DEFINE Good(f, m) == \A i \in 1 .. m : f[i] = IF i = 1 THEN first ELSE step[<<f[i - 1], i>>]
           Upto(m) == \E f \in [1 .. m -> T] : Good(f, m)
           S == {m \in 1 .. n : Upto(m)}
<1>1. Upto(0)
  <2> WITNESS [i \in 1 .. 0 |-> first] \in [1 .. 0 -> T]
  <2> QED OBVIOUS
<1>2. Upto(1)
  <2> WITNESS [i \in 1 .. 1 |-> first] \in [1 .. 1 -> T]
  <2> QED OBVIOUS
<1>3. ASSUME NEW m \in 1 .. n, Upto(m), m + 1 <= n PROVE Upto(m + 1)
  <2>1. PICK f \in [1 .. m -> T] : Good(f, m)
    BY <1>3
  <2> DEFINE next == step[<<f[m], m + 1>>]
             g == [i \in 1 .. m + 1 |-> IF i <= m THEN f[i] ELSE next]
  <2>2. next \in T
    BY <1>3
  <2>3. g \in [1 .. m + 1 -> T]
    <3> HIDE DEF next
    <3> QED BY <2>2
  <2>4. ASSUME NEW i \in 1 .. m + 1
        PROVE  g[i] = IF i = 1 THEN first ELSE step[<<g[i - 1], i>>]
    <3>1. CASE i <= m
      <4>1. i # 1 => i - 1 \in 1 .. m
        BY <3>1
      <4>2. i # 1 => g[i - 1] = f[i - 1]
        BY <4>1
      <4>3. g[i] = f[i] /\ i \in 1 .. m
        BY <3>1
      <4> HIDE DEF g
      <4> QED BY <2>1, <4>2, <4>3
    <3>2. CASE i = m + 1
      <4>1. g[i - 1] = f[m] /\ g[i] = next /\ i # 1
        BY <3>2
      <4> QED BY <3>2, <4>1
    <3> QED
      BY <3>1, <3>2
  <2> HIDE DEF g
  <2> WITNESS g \in [1 .. m + 1 -> T]
  <2> QED
    BY <2>4
<1>4. 1 .. n \subseteq S
  <2> HIDE DEF Upto
  <2>1. n >= 1 => 1 \in S
    BY <1>2
  <2>2. \A m \in 1 .. n : m \in S /\ m + 1 <= n => m + 1 \in S
    BY <1>3
  <2> HIDE DEF S
  <2> QED BY <2>1, <2>2, Upwards
<1>5. Upto(n)
  <2> HIDE DEF Upto
  <2> QED BY <1>1, <1>4
<1> QED
  BY <1>5 DEF Steps

-----------------------------------------------------------------------------
(* What FlattenSeq makes: its elements, and when they are all different *)

LEMMA FlattenIs ==
  ASSUME NEW S, NEW ss \in Seq(Seq(S)), Len(ss) # 0
  PROVE  \E f \in [1 .. Len(ss) -> Seq(S)] :
           /\ \A i \in 1 .. Len(ss) : f[i] = IF i = 1 THEN ss[1] ELSE f[i - 1] \o ss[i]
           /\ FlattenSeq(ss) = f[Len(ss)]
<1> DEFINE n == Len(ss)
           T == Seq(S)
           step == [x \in T \X (1 .. n) |-> x[1] \o ss[x[2]]]
           Eq(f) == f = [i \in 1 .. n |-> IF i = 1 THEN ss[i] ELSE f[i - 1] \o ss[i]]
<1>1. n \in Nat /\ ss[1] \in T /\ \A i \in 1 .. n : ss[i] \in T
  OBVIOUS
<1>2. step \in [T \X (1 .. n) -> T]
  <2>1. ASSUME NEW x \in T \X (1 .. n) PROVE x[1] \o ss[x[2]] \in T
    <3>1. x[1] \in Seq(S) /\ ss[x[2]] \in Seq(S)
      BY <1>1
    <3> QED BY <3>1, ConcatProperties
  <2> QED BY <2>1
<1>3. PICK f \in [1 .. n -> T] : Steps(f, n, ss[1], step)
  <2> HIDE DEF step, T, n
  <2> QED BY <1>1, <1>2, Iteration
<1>4. \A i \in 1 .. n : f[i] = IF i = 1 THEN ss[1] ELSE f[i - 1] \o ss[i]
  <2> TAKE i \in 1 .. n
  <2>1. i # 1 => <<f[i - 1], i>> \in T \X (1 .. n)
    <3> HIDE DEF T, n
    <3>1. i # 1 => i - 1 \in 1 .. n
      BY <1>1
    <3> QED BY <3>1
  <2> HIDE DEF T
  <2> QED BY <1>3, <2>1 DEF Steps
<1>5. Eq(f)
  <2> HIDE DEF T
  <2> QED BY <1>4
<1> DEFINE h == CHOOSE g : Eq(g)
<1>6. Eq(h)
  <2> HIDE DEF Eq
  <2> QED BY <1>5
<1>7. h = f
  <2> DEFINE U == {i \in 1 .. n : h[i] = f[i]}
  <2> HIDE DEF h, T
  <2>0. \A i \in 1 .. n : h[i] = IF i = 1 THEN ss[i] ELSE h[i - 1] \o ss[i]
    BY <1>6
  <2>1. n >= 1 => 1 \in U
    <3>1. n >= 1 => 1 \in 1 .. n
      BY <1>1
    <3> HIDE DEF n
    <3>2. 1 \in 1 .. n => h[1] = ss[1] /\ f[1] = ss[1]
      BY <2>0, <1>4
    <3> QED BY <3>1, <3>2
  <2>2. ASSUME NEW i \in 1 .. n, i \in U, i + 1 <= n PROVE i + 1 \in U
    <3>1. i + 1 \in 1 .. n /\ i + 1 # 1 /\ (i + 1) - 1 = i
      BY <2>2
    <3>2. h[i + 1] = h[i] \o ss[i + 1]
      BY <2>0, <3>1
    <3>3. f[i + 1] = f[i] \o ss[i + 1]
      BY <1>4, <3>1
    <3> QED BY <3>1, <3>2, <3>3, <2>2
  <2>3. 1 .. n \subseteq U
    <3> HIDE DEF U
    <3> QED BY <1>1, <2>1, <2>2, Upwards
  <2>4. h = [i \in 1 .. n |-> h[i]]
    BY <1>6
  <2>5. f = [i \in 1 .. n |-> f[i]]
    OBVIOUS
  <2> QED BY <2>3, <2>4, <2>5
<1>8. FlattenSeq(ss) = h[n]
  BY DEF FlattenSeq
<1> QED
  BY <1>4, <1>7, <1>8

LEMMA Flattened ==
  ASSUME NEW S, NEW ss \in Seq(Seq(S))
  PROVE  /\ FlattenSeq(ss) \in Seq(S)
         /\ Range(FlattenSeq(ss)) = UNION {Range(ss[i]) : i \in DOMAIN ss}
<1>1. CASE Len(ss) = 0
  <2>1. ss = <<>> /\ FlattenSeq(ss) = <<>>
    BY <1>1 DEF FlattenSeq
  <2>2. <<>> \in Seq(S) /\ DOMAIN ss = {} /\ Range(<<>>) = {}
    BY <2>1 DEF Range
  <2> QED BY <2>1, <2>2
<1>2. CASE Len(ss) # 0
  <2>1. PICK f \in [1 .. Len(ss) -> Seq(S)] :
           /\ \A i \in 1 .. Len(ss) : f[i] = IF i = 1 THEN ss[1] ELSE f[i - 1] \o ss[i]
           /\ FlattenSeq(ss) = f[Len(ss)]
    BY <1>2, FlattenIs
  <2> DEFINE n == Len(ss)
             U == {i \in 1 .. n : Range(f[i]) = UNION {Range(ss[j]) : j \in 1 .. i}}
  <2>2. n \in Nat /\ n # 0 /\ DOMAIN ss = 1 .. n
    BY <1>2
  <2>3. n >= 1 => 1 \in U
    <3>1. 1 .. 1 = {1}
      OBVIOUS
    <3> QED BY <2>1, <2>2, <3>1
  <2>4. ASSUME NEW i \in 1 .. n, i \in U, i + 1 <= n PROVE i + 1 \in U
    <3>0. i + 1 \in 1 .. n /\ i + 1 # 1 /\ (i + 1) - 1 = i
      BY <2>4
    <3>1. f[i + 1] = f[i] \o ss[i + 1]
      BY <2>1, <3>0
    <3>2. f[i] \in Seq(S) /\ ss[i + 1] \in Seq(S)
      BY <2>4
    <3>3. Range(f[i + 1]) = Range(f[i]) \cup Range(ss[i + 1])
      BY <3>1, <3>2, RangeConcatenation
    <3>4. 1 .. i + 1 = (1 .. i) \cup {i + 1}
      OBVIOUS
    <3>5. Range(f[i]) = UNION {Range(ss[j]) : j \in 1 .. i}
      BY <2>4
    <3>6. Range(f[i + 1]) = UNION {Range(ss[j]) : j \in 1 .. i + 1}
      BY <3>3, <3>4, <3>5
    <3> QED BY <3>0, <3>6
  <2>5. 1 .. n \subseteq U
    <3> HIDE DEF U
    <3> QED BY <2>2, <2>3, <2>4, Upwards
  <2> QED BY <2>1, <2>2, <2>5
<1> QED
  BY <1>1, <1>2

\* No element twice.
Once(s) == \A p, q \in DOMAIN s : s[p] = s[q] => p = q

LEMMA OnceConcat ==
  ASSUME NEW S, NEW s \in Seq(S), NEW t \in Seq(S), Once(s), Once(t),
         Range(s) \cap Range(t) = {}
  PROVE  Once(s \o t)
<1>1. /\ s \o t \in Seq(S) /\ Len(s \o t) = Len(s) + Len(t)
      /\ \A i \in 1 .. Len(s) + Len(t) :
           (s \o t)[i] = IF i <= Len(s) THEN s[i] ELSE t[i - Len(s)]
  BY ConcatProperties
<1>2. DOMAIN (s \o t) = 1 .. Len(s) + Len(t) /\ DOMAIN s = 1 .. Len(s) /\ DOMAIN t = 1 .. Len(t)
      /\ Len(s) \in Nat /\ Len(t) \in Nat
  BY <1>1
<1> DEFINE u == s \o t
<1> SUFFICES ASSUME NEW p \in 1 .. Len(s) + Len(t), NEW q \in 1 .. Len(s) + Len(t), u[p] = u[q]
             PROVE  p = q
  BY <1>2 DEF Once
<1>3. \A i \in 1 .. Len(s) + Len(t) :
        IF i <= Len(s) THEN i \in DOMAIN s /\ u[i] = s[i] /\ u[i] \in Range(s)
        ELSE i - Len(s) \in DOMAIN t /\ u[i] = t[i - Len(s)] /\ u[i] \in Range(t)
  BY <1>1, <1>2 DEF Range
<1> HIDE DEF u
<1>4. CASE p <= Len(s) /\ q <= Len(s)
  BY <1>3, <1>4 DEF Once
<1>5. CASE ~ (p <= Len(s)) /\ ~ (q <= Len(s))
  <2>1. p - Len(s) = q - Len(s)
    BY <1>3, <1>5 DEF Once
  <2> QED BY <2>1, <1>2
<1>6. CASE (p <= Len(s)) # (q <= Len(s))
  BY <1>3, <1>6
<1> QED
  BY <1>4, <1>5, <1>6

LEMMA FlattenedOnce ==
  ASSUME NEW S, NEW ss \in Seq(Seq(S)), \A i \in DOMAIN ss : Once(ss[i]),
         \A i, j \in DOMAIN ss : i # j => Range(ss[i]) \cap Range(ss[j]) = {}
  PROVE  Once(FlattenSeq(ss))
<1>1. CASE Len(ss) = 0
  BY <1>1 DEF FlattenSeq, Once
<1>2. CASE Len(ss) # 0
  <2>1. PICK f \in [1 .. Len(ss) -> Seq(S)] :
           /\ \A i \in 1 .. Len(ss) : f[i] = IF i = 1 THEN ss[1] ELSE f[i - 1] \o ss[i]
           /\ FlattenSeq(ss) = f[Len(ss)]
    BY <1>2, FlattenIs
  <2> DEFINE n == Len(ss)
             From(i) == Range(f[i]) \subseteq UNION {Range(ss[j]) : j \in 1 .. i}
             U == {i \in 1 .. n : Once(f[i]) /\ From(i)}
  <2>2. n \in Nat /\ n # 0 /\ DOMAIN ss = 1 .. n
    BY <1>2
  <2>3. n >= 1 => 1 \in U
    <3>1. 1 .. 1 = {1}
      OBVIOUS
    <3> QED BY <2>1, <2>2, <3>1
  <2>4. ASSUME NEW i \in 1 .. n, i \in U, i + 1 <= n PROVE i + 1 \in U
    <3>0. i + 1 \in 1 .. n /\ i + 1 # 1 /\ (i + 1) - 1 = i
      BY <2>4
    <3>1. f[i + 1] = f[i] \o ss[i + 1]
      BY <2>1, <3>0
    <3>2. f[i] \in Seq(S) /\ ss[i + 1] \in Seq(S)
      BY <2>4
    <3>3. Range(f[i + 1]) = Range(f[i]) \cup Range(ss[i + 1])
      BY <3>1, <3>2, RangeConcatenation
    <3>4. 1 .. i + 1 = (1 .. i) \cup {i + 1}
      OBVIOUS
    <3>5. From(i) /\ Once(f[i])
      BY <2>4
    <3>6. From(i + 1)
      BY <3>3, <3>4, <3>5
    <3>7. \A j \in 1 .. i : Range(ss[j]) \cap Range(ss[i + 1]) = {}
      <4> TAKE j \in 1 .. i
      <4>1. j \in DOMAIN ss /\ i + 1 \in DOMAIN ss /\ j # i + 1
        BY <2>2, <3>0
      <4> QED BY <4>1
    <3>8. Range(f[i]) \cap Range(ss[i + 1]) = {}
      BY <3>5, <3>7
    <3>9. Once(f[i + 1])
      BY <3>0, <3>1, <3>2, <3>5, <3>8, <2>2, OnceConcat
    <3> HIDE DEF From
    <3> QED BY <3>0, <3>6, <3>9
  <2>5. 1 .. n \subseteq U
    <3> HIDE DEF U
    <3> QED BY <2>2, <2>3, <2>4, Upwards
  <2>6. n \in U
    <3> HIDE DEF U
    <3> QED BY <2>2, <2>5
  <2> QED BY <2>1, <2>6
<1> QED
  BY <1>1, <1>2

-----------------------------------------------------------------------------
(* The types of the tables *)

TypeObjects == [def : {"base", "name", "struct", "alias"}, id : Words]
Fields == [name : Words, type : TypeObjects]
Structs == [members : Seq(Fields), header : Words, import : {"none", "from", "bare"}]
Typedefs == [name : Words, type : TypeObjects, import : {"none", "from", "bare"}]
RqstStr == [type : {None, "INIT", "EXEC", "CONTROL"}, input : Path, output : Path,
            posters : Path, interrupt_activity : Path, exec_task : Words,
            fail_reports : ReportSets, codel_control : Words, codel_main : Words]
Requests == [name : Words, num : Nat, incompatible : SUBSET Nat, str : RqstStr]
TaskStr == [period : Nat, priority : Nat, posters : Path, codel_task_main : Words,
            fail_reports : ReportSets]
ExecTasks == [name : Words, num : Nat, str : TaskStr]
PosterData == [name : Words, path : Path, type : Words]
Posters == [name : Words, data : Seq(PosterData), user : BOOLEAN, exec_task : Words,
            members : Seq(Fields)]

ListTypes ==
  /\ group = "typedef" => list \in Seq(Typedefs)
  /\ group = "request" => list \in Seq(Requests)
  /\ group = "task" => list \in Seq(ExecTasks)
  /\ group = "poster" => list \in Seq(Posters)
  /\ outer \in Seq(Typedefs)

TableTypes ==
  /\ typedefs \in Seq(Typedefs)
  /\ DOMAIN types \in SUBSET Words /\ types \in [DOMAIN types -> Structs]
  /\ requetes \in Seq(Requests) /\ taches \in Seq(ExecTasks) /\ posters \in Seq(Posters)
  /\ module \in [name : Words, number : Nat, internal_data : Words]

ParseTypes ==
  /\ file \in Files /\ at \in 0 .. Len(file)
  /\ pc = "parse" => group = IF at = 0 THEN None ELSE KindOf(file[at])

ResolveTypes == inputs \in Seq(TypeObjects) /\ k \in Nat \ {0} /\ warned \in BOOLEAN

\* Each typedef is one of a structure, or declared by an alias of the file.
AliasName(n) == \E j \in DOMAIN file : file[j].kind = "alias" /\ file[j].name = n
EntryKnown(e) ==
  \/ e.type.def = "struct" /\ e.type.id \in DOMAIN types
  \/ e.type.def \in {"base", "alias"} /\ AliasName(e.name)
TagsKnown ==
  /\ \A i \in DOMAIN typedefs : EntryKnown(typedefs[i])
  /\ group = "typedef" => \A i \in DOMAIN list : EntryKnown(list[i])
  /\ \A i \in DOMAIN outer : EntryKnown(outer[i])

\* A type is a basic one, a structure, an alias, or a name that genom warned of.
Known(t) == /\ t.def = "struct" => t.id \in DOMAIN types
            /\ t.def = "name" => warned
FieldsKnown == \A t \in DOMAIN types : \A i \in DOMAIN types[t].members :
                 Known(types[t].members[i].type)

DescInv == ParseTypes /\ ListTypes /\ TableTypes /\ ResolveTypes /\ TagsKnown /\ FieldsKnown

-----------------------------------------------------------------------------
(* What a declaration makes *)

LEMMA DeclTypes ==
  ASSUME NEW f \in Files, NEW i \in 1 .. Len(f)
  PROVE  /\ f[i].kind \in {"module", "typedef", "alias", "import", "close", "request", "task",
                       "poster"}
         /\ f[i].kind = "module" => f[i].name \in Words /\ f[i].number \in Nat /\ f[i].sdi \in Words
         /\ f[i].kind = "typedef" =>
              /\ f[i].name \in Words /\ f[i].tag \in Words /\ f[i].members \in Seq(Words \X Words)
              /\ f[i].header \in Words /\ f[i].import \in {"none", "from", "bare"}
         /\ f[i].kind = "alias" =>
              f[i].name \in Words /\ f[i].of \in Words /\ f[i].import \in {"none", "from", "bare"}
         /\ f[i].kind = "request" => f[i].name \in Words /\ f[i].attributes \in Seq(RqstAttributes)
         /\ f[i].kind = "task" => f[i].name \in Words /\ f[i].attributes \in Seq(TaskAttributes)
         /\ f[i].kind = "poster" =>
              /\ f[i].name \in Words /\ f[i].user \in BOOLEAN /\ f[i].task \in Words
              /\ f[i].data \in Seq(PosterData)
<1>1. f[i] \in Declarations
  BY FilesAssumption
<1> QED
  BY <1>1 DEF Declarations, PosterData

LEMMA AttributesType ==
  ASSUME NEW Str, NEW P, NEW zero \in Str, NEW avs \in Seq(P),
         \A s \in Str, a \in P : [s EXCEPT ![a[1]] = a[2]] \in Str
  PROVE  Attributes(avs, zero).str \in Str
<1> DEFINE n == Len(avs) + 1
           T == [str : Str, dup : BOOLEAN]
           set(x, i) == [str |-> [x.str EXCEPT ![avs[i][1]] = avs[i][2]],
                         dup |-> x.dup \/ x.str[avs[i][1]] # zero[avs[i][1]]]
           first == [str |-> zero, dup |-> FALSE]
           step == [x \in T \X (1 .. n) |->
                      IF x[2] = 1 THEN first ELSE set(x[1], n + 1 - x[2])]
           Eq(s) == s = [i \in 1 .. n |-> IF i = n THEN first ELSE set(s[i + 1], i)]
<1>1. n \in Nat /\ n >= 1 /\ first \in T /\ \A i \in 1 .. n : i # n => i \in 1 .. Len(avs) /\ i + 1 \in 1 .. n
  OBVIOUS
<1>2. ASSUME NEW x \in T, NEW i \in 1 .. n, i # n PROVE set(x, i) \in T
  <2>1. avs[i] \in P
    BY <1>1, <1>2
  <2>2. [x.str EXCEPT ![avs[i][1]] = avs[i][2]] \in Str
    BY <2>1
  <2> QED BY <2>2
<1>3. step \in [T \X (1 .. n) -> T]
  <2>1. ASSUME NEW x \in T, NEW i \in 1 .. n, i # 1 PROVE n + 1 - i \in 1 .. n /\ n + 1 - i # n
    BY <1>1, <2>1
  <2> HIDE DEF T, n, first, set
  <2>2. ASSUME NEW x \in T \X (1 .. n)
        PROVE  (IF x[2] = 1 THEN first ELSE set(x[1], n + 1 - x[2])) \in T
    <3>1. x[1] \in T /\ x[2] \in 1 .. n
      OBVIOUS
    <3> QED BY <1>1, <1>2, <2>1, <3>1
  <2> QED BY <2>2
<1>4. PICK f \in [1 .. n -> T] : Steps(f, n, first, step)
  <2> HIDE DEF T, n, first, step
  <2> QED BY <1>1, <1>3, Iteration
<1> DEFINE g == [i \in 1 .. n |-> f[n + 1 - i]]
<1>5. ASSUME NEW i \in 1 .. n
      PROVE  g[i] = IF i = n THEN first ELSE set(g[i + 1], i)
  <2> DEFINE j == n + 1 - i
  <2>1. j \in 1 .. n /\ n + 1 - j = i /\ (j = 1 <=> i = n) /\ g[i] = f[j]
    BY <1>1
  <2>2. f[j] = IF j = 1 THEN first ELSE step[<<f[j - 1], j>>]
    <3> HIDE DEF step, first, T, n
    <3> QED BY <1>4, <2>1 DEF Steps
  <2>3. CASE i = n
    BY <2>1, <2>2, <2>3
  <2>4. CASE i # n
    <3>1. j - 1 \in 1 .. n /\ i + 1 \in 1 .. n /\ n + 1 - (i + 1) = j - 1
      BY <1>1, <2>1, <2>4
    <3>2. g[i + 1] = f[j - 1] /\ f[j - 1] \in T
      BY <3>1
    <3>3. step[<<f[j - 1], j>>] = set(f[j - 1], n + 1 - j)
      <4> HIDE DEF T, n, first, set
      <4>1. <<f[j - 1], j>> \in T \X (1 .. n)
        BY <2>1, <3>2
      <4> QED BY <4>1, <2>1, <2>4
    <3> HIDE DEF set, step, g, first, n, T
    <3> QED BY <2>1, <2>2, <2>4, <3>2, <3>3
  <2> QED BY <2>3, <2>4
<1> DEFINE h == CHOOSE s : Eq(s)
<1>6. Eq(h)
  <2>1. Eq(g)
    <3> HIDE DEF set, first, n, T
    <3>1. \A i \in 1 .. n : g[i] = IF i = n THEN first ELSE set(g[i + 1], i)
      BY <1>5
    <3> QED BY <3>1
  <2> HIDE DEF Eq
  <2> QED BY <2>1
<1>7. \A i \in 1 .. n : h[i] = IF i = n THEN first ELSE set(h[i + 1], i)
  <2> HIDE DEF set, first, n, T, h
  <2> QED BY <1>6
<1> DEFINE U == {i \in 1 .. n : h[i] \in T}
<1>8. 1 .. n \subseteq U
  <2>1. n >= 1 => n \in U
    <3> HIDE DEF set, first, h, T, n
    <3> QED BY <1>1, <1>7
  <2>2. ASSUME NEW i \in 1 .. n, i \in U, i - 1 >= 1 PROVE i - 1 \in U
    <3>1. i - 1 \in 1 .. n /\ i - 1 # n /\ (i - 1) + 1 = i
      BY <1>1, <2>2
    <3> HIDE DEF set, first, h, T, n
    <3>2. h[i - 1] = set(h[i], i - 1) /\ h[i] \in T
      BY <1>7, <2>2, <3>1
    <3> QED BY <1>2, <3>1, <3>2
  <2> HIDE DEF U, n
  <2> QED BY <1>1, <2>1, <2>2, Downwards
<1>9. Attributes(avs, zero) = h[1]
  BY DEF Attributes
<1>10. h[1] \in T
  <2> HIDE DEF h, T, n
  <2> QED BY <1>1, <1>8
<1> QED
  BY <1>9, <1>10

LEMMA RqstAttributesType ==
  ASSUME NEW avs \in Seq(RqstAttributes)
  PROVE  Attributes(avs, NoRqst).str \in RqstStr
<1>1. NoRqst \in RqstStr
  <2>1. {} \in ReportSets
    BY FS_EmptySet DEF ReportSets
  <2>2. <<>> \in Path
    BY DEF Path
  <2>3. None \in Words
    BY GenfileAssumption
  <2> QED BY <2>1, <2>2, <2>3 DEF NoRqst, RqstStr
<1>2. \A s \in RqstStr, a \in RqstAttributes : [s EXCEPT ![a[1]] = a[2]] \in RqstStr
  BY DEF RqstStr, RqstAttributes
<1> QED
  BY <1>1, <1>2, AttributesType

LEMMA TaskAttributesType ==
  ASSUME NEW avs \in Seq(TaskAttributes)
  PROVE  Attributes(avs, NoTask).str \in TaskStr
<1>1. NoTask \in TaskStr
  <2>1. {} \in ReportSets
    BY FS_EmptySet DEF ReportSets
  <2>2. <<>> \in Path
    BY DEF Path
  <2>3. None \in Words
    BY GenfileAssumption
  <2> QED BY <2>1, <2>2, <2>3 DEF NoTask, TaskStr
<1>2. \A s \in TaskStr, a \in TaskAttributes : [s EXCEPT ![a[1]] = a[2]] \in TaskStr
  BY DEF TaskStr, TaskAttributes
<1> QED
  BY <1>1, <1>2, AttributesType

LEMMA ReportsType ==
  /\ \A s \in RqstStr : Reports(s) \in RqstStr
  /\ \A s \in TaskStr : Reports(s) \in TaskStr
<1>1. \A R \in ReportSets : R \ {"OK"} \in ReportSets
  BY FS_Subset DEF ReportSets
<1> QED
  BY <1>1 DEF Reports, RqstStr, TaskStr

LEMMA TrouveTypeIs ==
  ASSUME typedefs \in Seq(Typedefs), DOMAIN types \in SUBSET Words, TagsKnown, NEW n \in Words
  PROVE  /\ TrouveType(n) \in TypeObjects \cup {NoType}
         /\ TrouveType(n).def = "struct" => TrouveType(n).id \in DOMAIN types
         /\ TrouveType(n).def # "name"
         /\ TrouveType(n) # NoType => TrouveType(n).def = "struct" \/ AliasName(n)
<1> DEFINE I == {i \in 1 .. Len(typedefs) : typedefs[i].name = n}
<1>1. TrouveType(n) = IF (IF I # {} THEN Min(I) ELSE 0) # 0
                      THEN typedefs[IF I # {} THEN Min(I) ELSE 0].type
                      ELSE IF n \in DOMAIN types THEN StructType(n) ELSE NoType
  BY DEF TrouveType, SelectInSeq
<1>2. CASE I = {}
  <2>1. StructType(n) \in TypeObjects /\ StructType(n).def = "struct" /\ StructType(n).id = n
    BY DEF StructType, TypeObjects
  <2>2. NoType.def = "none"
    BY DEF NoType
  <2> HIDE DEF I
  <2> QED BY <1>1, <1>2, <2>1, <2>2
<1>3. CASE I # {}
  <2>1. Min(I) \in I
    <3>1. I \in SUBSET Nat
      OBVIOUS
    <3> HIDE DEF I
    <3> QED BY <1>3, <3>1, MinIs
  <2>2. Min(I) \in 1 .. Len(typedefs) /\ typedefs[Min(I)].name = n /\ Min(I) # 0
    BY <2>1
  <2> DEFINE m == Min(I)
  <2>3. TrouveType(n) = typedefs[m].type
    <3> HIDE DEF I
    <3> QED BY <1>1, <1>3, <2>2
  <2> HIDE DEF m, I
  <2>4. m \in DOMAIN typedefs /\ typedefs[m] \in Typedefs /\ typedefs[m].name = n
    BY <2>2 DEF m
  <2>5. EntryKnown(typedefs[m]) /\ typedefs[m].type \in TypeObjects
    BY <2>4 DEF TagsKnown, Typedefs
  <2> QED BY <2>3, <2>4, <2>5 DEF EntryKnown
<1> QED
  BY <1>2, <1>3

LEMMA ReduceTypes ==
  ASSUME ListTypes, TableTypes, NEW next, Reduce(next)
  PROVE  requetes' \in Seq(Requests) /\ taches' \in Seq(ExecTasks) /\ posters' \in Seq(Posters)
BY DEF ListTypes, TableTypes, Reduce

\* The run stops, or goes on with the tables as they are.
LEMMA DescSame ==
  ASSUME DescInv, UNCHANGED <<parsing, tables, warned>>, pc' = "parse" => pc = "parse",
         k' \in Nat \ {0}, inputs' \in Seq(TypeObjects)
  PROVE  DescInv'
<1>1. ParseTypes' /\ ListTypes'
  BY DEF DescInv, ParseTypes, ListTypes, parsing, KindOf
<1>2. TableTypes' /\ ResolveTypes' /\ TagsKnown'
  BY DEF DescInv, TableTypes, ResolveTypes, TagsKnown, EntryKnown, AliasName, tables, parsing
<1>3. FieldsKnown'
  BY DEF DescInv, FieldsKnown, Known, tables
<1> QED
  BY <1>1, <1>2, <1>3 DEF DescInv

LEMMA StopKeepsDesc ==
  ASSUME DescInv, NEW end, end # "parse", Stop(end)
  PROVE  DescInv'
BY DescSame DEF Stop, resolved, DescInv, ResolveTypes

-----------------------------------------------------------------------------
(* The parser keeps the types of the tables *)

LEMMA TypeOfIs ==
  ASSUME typedefs \in Seq(Typedefs), DOMAIN types \in SUBSET Words, TagsKnown, NEW n \in Words
  PROVE  /\ TypeOf(n) \in TypeObjects
         /\ TypeOf(n).def = "struct" => TypeOf(n).id \in DOMAIN types
         /\ TypeOf(n).def = "name" => Unknown(n)
<1>1. /\ TrouveType(n) \in TypeObjects \cup {NoType} /\ TrouveType(n).def # "name"
      /\ TrouveType(n).def = "struct" => TrouveType(n).id \in DOMAIN types
  BY TrouveTypeIs
<1>2. CASE n \in Base \/ Unknown(n)
  BY <1>2 DEF TypeOf, TypeObjects
<1>3. CASE ~ (n \in Base) /\ ~ Unknown(n)
  <2>1. TypeOf(n) = TrouveType(n) /\ TrouveType(n) # NoType
    BY <1>3 DEF TypeOf, Unknown
  <2> QED BY <1>1, <2>1
<1> QED
  BY <1>2, <1>3

LEMMA ParsedDecl ==
  ASSUME DescInv, NEW kind, Is(kind)
  PROVE  /\ at + 1 \in 1 .. Len(file) /\ file \in Files /\ Decl.kind = kind /\ pc = "parse"
         /\ Len(file) \in Nat
<1>1. file \in Seq(Declarations)
  BY FilesAssumption DEF DescInv, ParseTypes
<1> QED
  BY <1>1 DEF DescInv, ParseTypes, Is, Decl

LEMMA ParsedTypes ==
  ASSUME DescInv, NEW kind, Is(kind), at' = at + 1, file' = file, group' = KindOf(Decl)
  PROVE  ParseTypes'
<1>1. at + 1 \in 1 .. Len(file) /\ file \in Files /\ Len(file) \in Nat
  BY ParsedDecl
<1> QED
  BY <1>1 DEF DescInv, ParseTypes, KindOf, Decl

LEMMA ParseModuleKeepsDesc ==
  ASSUME DescInv, ParseModule
  PROVE  DescInv'
<1>1. CASE Stop("exit")
  BY <1>1, StopKeepsDesc
<1>2. CASE ~ (Decl.number > MaxNumber)
  <2>1. /\ Decl.name \in Words /\ Decl.number \in Nat /\ Decl.sdi \in Words
        /\ Decl.kind = "module"
    BY ParsedDecl, DeclTypes DEF ParseModule, Decl
  <2>2. ParseTypes'
    <3>1. group' = KindOf(Decl)
      BY <1>2, <2>1 DEF ParseModule, KindOf
    <3> QED BY <1>2, <3>1, ParsedTypes DEF ParseModule
  <2>3. ListTypes'
    BY <1>2 DEF ParseModule, ListTypes, DescInv
  <2>4. TableTypes'
    <3>1. requetes' \in Seq(Requests) /\ taches' \in Seq(ExecTasks) /\ posters' \in Seq(Posters)
      BY <1>2, ReduceTypes DEF ParseModule, DescInv
    <3> QED BY <1>2, <2>1, <3>1 DEF ParseModule, TableTypes, DescInv
  <2>5. ResolveTypes' /\ TagsKnown' /\ FieldsKnown'
    BY <1>2 DEF ParseModule, DescInv, ResolveTypes, TagsKnown, EntryKnown, AliasName, FieldsKnown,
                Known, resolved
  <2> QED BY <2>2, <2>3, <2>4, <2>5 DEF DescInv
<1> QED
  BY <1>1, <1>2 DEF ParseModule

LEMMA StructIs ==
  ASSUME DescInv, NEW d, d.members \in Seq(Words \X Words), d.header \in Words,
         d.import \in {"none", "from", "bare"}
  PROVE  /\ Struct(d) \in Structs /\ Len(Struct(d).members) = Len(d.members)
         /\ \A i \in 1 .. Len(d.members) :
              /\ Struct(d).members[i].type = TypeOf(d.members[i][2])
              /\ d.members[i][2] \in Words
<1>1. \A i \in 1 .. Len(d.members) : d.members[i] \in Words \X Words
  OBVIOUS
<1>2. \A i \in 1 .. Len(d.members) :
        [name |-> d.members[i][1], type |-> TypeOf(d.members[i][2])] \in Fields
  <2> TAKE i \in 1 .. Len(d.members)
  <2>1. d.members[i][1] \in Words /\ d.members[i][2] \in Words
    BY <1>1
  <2>2. TypeOf(d.members[i][2]) \in TypeObjects
    BY <2>1, TypeOfIs DEF DescInv, TableTypes
  <2> QED BY <2>1, <2>2 DEF Fields
<1> DEFINE ms == [i \in 1 .. Len(d.members) |->
                    [name |-> d.members[i][1], type |-> TypeOf(d.members[i][2])]]
<1>3. ms \in Seq(Fields) /\ Len(ms) = Len(d.members)
  BY <1>2
<1>4. Struct(d).members = ms /\ Struct(d) \in Structs
  BY <1>3 DEF Struct, Structs
<1> QED
  BY <1>1, <1>3, <1>4

LEMMA ParseTypedefKeepsDesc ==
  ASSUME DescInv, ParseTypedef
  PROVE  DescInv'
<1> DEFINE d == Decl
           l == IF group = "typedef" THEN list ELSE <<>>
           e == [name |-> d.name, type |-> StructType(d.tag), import |-> d.import]
<1>1. /\ d.name \in Words /\ d.tag \in Words /\ d.members \in Seq(Words \X Words)
      /\ d.header \in Words /\ d.import \in {"none", "from", "bare"} /\ d.kind = "typedef"
  BY ParsedDecl, DeclTypes DEF ParseTypedef, Decl
<1>2. l \in Seq(Typedefs) /\ e \in Typedefs
  BY <1>1 DEF DescInv, ListTypes, Typedefs, TypeObjects, StructType
<1>3. ParseTypes'
  <2>1. group' = KindOf(Decl)
    BY <1>1 DEF ParseTypedef, KindOf
  <2> QED BY <2>1, ParsedTypes DEF ParseTypedef
<1>4. list' = Append(l, e) /\ typedefs' = Append(l, e) /\ group' = "typedef"
      /\ types' = With(d.tag, Struct(d)) /\ outer' = outer /\ module' = module
  BY DEF ParseTypedef
<1>5. ListTypes'
  BY <1>2, <1>4 DEF ListTypes, DescInv
<1>6. Struct(d) \in Structs
  BY <1>1, StructIs
<1>7. DOMAIN types' = DOMAIN types \cup {d.tag}
      /\ types'[d.tag] = Struct(d)
      /\ \A t \in DOMAIN types \ {d.tag} : types'[t] = types[t]
  BY <1>4 DEF With
<1>8. TableTypes'
  <2>1. requetes' \in Seq(Requests) /\ taches' \in Seq(ExecTasks) /\ posters' \in Seq(Posters)
    BY ReduceTypes DEF ParseTypedef, DescInv
  <2>2. types' \in [DOMAIN types' -> Structs]
    BY <1>4, <1>6, <1>7 DEF With, DescInv, TableTypes
  <2> QED BY <1>1, <1>2, <1>4, <1>7, <2>1, <2>2 DEF DescInv, TableTypes
<1>9. TagsKnown'
  <2> DEFINE s == Append(l, e)
  <2>1. \A i \in DOMAIN s : (i \in DOMAIN l /\ s[i] = l[i]) \/ s[i] = e
    <3> HIDE DEF l, e
    <3> QED BY <1>2
  <2>2. e.type.def = "struct" /\ e.type.id \in DOMAIN types'
    BY <1>7 DEF StructType
  <2> DEFINE Stays(x) == \/ x.type.def = "struct" /\ x.type.id \in DOMAIN types'
                         \/ x.type.def \in {"base", "alias"} /\ AliasName(x.name)
  <2>3. \A i \in DOMAIN l : Stays(l[i])
    BY <1>7 DEF DescInv, TagsKnown, EntryKnown
  <2>4. \A i \in DOMAIN s : Stays(s[i])
    <3>1. Stays(e)
      BY <2>2
    <3> HIDE DEF s, l, e, Stays
    <3> QED BY <2>1, <2>3, <3>1
  <2>5. \A i \in DOMAIN outer : Stays(outer[i])
    BY <1>7 DEF DescInv, TagsKnown, EntryKnown
  <2>6. file' = file
    BY DEF ParseTypedef
  <2> HIDE DEF s, l, e
  <2> QED BY <1>4, <2>4, <2>5, <2>6 DEF TagsKnown, EntryKnown, AliasName, s
<1>10. FieldsKnown'
  <2> SUFFICES ASSUME NEW t \in DOMAIN types', NEW i \in DOMAIN types'[t].members
               PROVE  /\ types'[t].members[i].type.def = "struct" =>
                            types'[t].members[i].type.id \in DOMAIN types'
                      /\ types'[t].members[i].type.def = "name" => warned'
    BY DEF FieldsKnown, Known
  <2>1. warned => warned'
    BY DEF ParseTypedef
  <2>2. CASE t = d.tag
    <3> DEFINE n == d.members[i][2]
    <3>1. i \in 1 .. Len(d.members) /\ Struct(d).members[i].type = TypeOf(n) /\ n \in Words
      BY <1>1, <1>6, <1>7, <2>2, StructIs DEF Structs
    <3>2. /\ TypeOf(n).def = "struct" => TypeOf(n).id \in DOMAIN types
          /\ TypeOf(n).def = "name" => Unknown(n)
      BY <3>1, TypeOfIs DEF DescInv, TableTypes
    <3>3. Unknown(n) => warned'
      BY <3>1 DEF ParseTypedef
    <3>4. types'[t].members[i].type = TypeOf(n)
      BY <1>7, <2>2, <3>1
    <3> HIDE DEF n
    <3> QED BY <1>7, <3>2, <3>3, <3>4
  <2>3. CASE t # d.tag
    BY <1>7, <2>1, <2>3 DEF DescInv, FieldsKnown, Known
  <2> QED BY <2>2, <2>3
<1>11. ResolveTypes'
  BY DEF ParseTypedef, DescInv, ResolveTypes, resolved
<1> QED
  BY <1>3, <1>5, <1>8, <1>9, <1>10, <1>11 DEF DescInv

LEMMA ParseAliasKeepsDesc ==
  ASSUME DescInv, ParseAlias
  PROVE  DescInv'
<1> DEFINE d == Decl
           l == IF group = "typedef" THEN list ELSE <<>>
           e == [name |-> d.name, type |-> AliasType(d), import |-> d.import]
           s == Append(l, e)
<1>1. d.name \in Words /\ d.of \in Words /\ d.import \in {"none", "from", "bare"} /\ d.kind = "alias"
  BY ParsedDecl, DeclTypes DEF ParseAlias, Decl
<1>2. AliasType(d) \in TypeObjects /\ AliasType(d).def \in {"base", "alias"}
  BY <1>1 DEF AliasType, TypeObjects
<1>3. l \in Seq(Typedefs) /\ e \in Typedefs
  <2>1. l \in Seq(Typedefs)
    BY DEF DescInv, ListTypes
  <2> QED BY <1>1, <1>2, <2>1 DEF Typedefs
<1>4. ParseTypes'
  <2>1. group' = KindOf(Decl)
    BY <1>1 DEF ParseAlias, KindOf
  <2> QED BY <2>1, ParsedTypes DEF ParseAlias
<1>5. list' = s /\ typedefs' = s /\ group' = "typedef"
      /\ UNCHANGED <<file, types, outer, module>>
  BY DEF ParseAlias
<1>6. s \in Seq(Typedefs) /\ \A i \in DOMAIN s : (i \in DOMAIN l /\ s[i] = l[i]) \/ s[i] = e
  <2> HIDE DEF l, e
  <2> QED BY <1>3
<1>7. EntryKnown(e)
  <2>1. AliasName(d.name)
    <3>1. at + 1 \in DOMAIN file /\ file[at + 1] = d
      <4>1. file \in Seq(Declarations) /\ at + 1 \in 1 .. Len(file)
        BY ParsedDecl, FilesAssumption DEF ParseAlias
      <4> QED BY <4>1 DEF Decl
    <3> QED BY <1>1, <3>1 DEF AliasName
  <2> HIDE DEF d
  <2> QED BY <1>2, <2>1 DEF EntryKnown
<1>8. \A i \in DOMAIN s : EntryKnown(s[i])
  <2>1. \A i \in DOMAIN l : EntryKnown(l[i])
    BY DEF DescInv, TagsKnown
  <2> HIDE DEF s, l, e
  <2> QED BY <1>6, <1>7, <2>1
<1>9. ListTypes'
  <2> HIDE DEF s, l, e
  <2> QED BY <1>5, <1>6 DEF ListTypes, DescInv
<1>10. TableTypes'
  <2>1. requetes' \in Seq(Requests) /\ taches' \in Seq(ExecTasks) /\ posters' \in Seq(Posters)
    BY ReduceTypes DEF ParseAlias, DescInv
  <2> HIDE DEF s, l, e
  <2> QED BY <1>5, <1>6, <2>1 DEF DescInv, TableTypes
<1>11. TagsKnown'
  <2> HIDE DEF s, l, e
  <2>1. \A i \in DOMAIN outer : EntryKnown(outer[i])
    BY DEF DescInv, TagsKnown
  <2> QED BY <1>5, <1>8, <2>1 DEF TagsKnown, EntryKnown, AliasName
<1>12. ResolveTypes' /\ FieldsKnown'
  BY DEF ParseAlias, DescInv, ResolveTypes, FieldsKnown, Known, resolved
<1> QED
  BY <1>4, <1>9, <1>10, <1>11, <1>12 DEF DescInv

LEMMA OpenImportKeepsDesc ==
  ASSUME DescInv, OpenImport
  PROVE  DescInv'
<1>1. ParseTypes'
  <2>1. group' = KindOf(Decl)
    BY ParsedDecl DEF OpenImport, KindOf
  <2> QED BY <2>1, ParsedTypes DEF OpenImport
<1>2. ListTypes' /\ TagsKnown'
  BY DEF OpenImport, DescInv, ListTypes, TagsKnown, EntryKnown, AliasName
<1>3. TableTypes'
  <2>1. requetes' \in Seq(Requests) /\ taches' \in Seq(ExecTasks) /\ posters' \in Seq(Posters)
    BY ReduceTypes DEF OpenImport, DescInv
  <2> QED BY <2>1 DEF OpenImport, DescInv, TableTypes
<1>4. ResolveTypes' /\ FieldsKnown'
  BY DEF OpenImport, DescInv, ResolveTypes, FieldsKnown, Known, resolved
<1> QED
  BY <1>1, <1>2, <1>3, <1>4 DEF DescInv

\* An import block holds types only.
LEMMA ClosedIsTypedef ==
  ASSUME DescInv, Is("close")
  PROVE  group = "typedef"
<1>1. at + 1 \in 1 .. Len(file) /\ file \in Files /\ Decl.kind = "close" /\ pc = "parse"
  BY ParsedDecl
<1>2. PICK i \in 1 .. at : Opens(file, i, at)
  <2>1. file \in Seq(Declarations)
    BY <1>1, FilesAssumption
  <2>2. at + 1 \in DOMAIN file /\ file[at + 1].kind = "close" /\ (at + 1) - 1 = at
    BY <1>1, <2>1 DEF Decl, DescInv, ParseTypes
  <2> QED BY <1>1, <2>2, FilesAssumption
<1>3. at # 0 /\ at \in i .. at
  BY <1>2 DEF DescInv, ParseTypes
<1>4. KindOf(file[at]) = "typedef"
  <2>1. CASE i = at
    BY <1>2, <2>1 DEF Opens, KindOf
  <2>2. CASE i # at
    <3>1. at \in i + 1 .. at
      BY <1>2, <1>3, <2>2
    <3>2. file[at].kind \in TypedefKinds
      BY <1>2, <3>1 DEF Opens
    <3> QED BY <3>2 DEF TypedefKinds, KindOf
  <2> QED BY <2>1, <2>2
<1> QED
  BY <1>1, <1>3, <1>4 DEF DescInv, ParseTypes

LEMMA CloseImportKeepsDesc ==
  ASSUME DescInv, CloseImport
  PROVE  DescInv'
<1>1. group = "typedef" /\ group' = "typedef"
  BY ClosedIsTypedef DEF CloseImport
<1>2. ParseTypes'
  <2>1. group' = KindOf(Decl)
    BY <1>1, ParsedDecl DEF CloseImport, KindOf
  <2> QED BY <2>1, ParsedTypes DEF CloseImport
<1> DEFINE l == outer \o list
<1>3. /\ l \in Seq(Typedefs)
      /\ \A i \in DOMAIN l : EntryKnown(l[i])
  <2>1. outer \in Seq(Typedefs) /\ list \in Seq(Typedefs)
    BY <1>1 DEF DescInv, ListTypes
  <2>2. l \in Seq(Typedefs) /\ Len(l) = Len(outer) + Len(list)
        /\ \A i \in 1 .. Len(outer) + Len(list) :
             l[i] = IF i <= Len(outer) THEN outer[i] ELSE list[i - Len(outer)]
    BY <2>1, ConcatProperties
  <2>3. \A i \in DOMAIN l : i \in 1 .. Len(outer) + Len(list)
    BY <2>2
  <2> HIDE DEF l
  <2>4. \A i \in DOMAIN l : IF i <= Len(outer) THEN i \in DOMAIN outer /\ l[i] = outer[i]
                            ELSE i - Len(outer) \in DOMAIN list /\ l[i] = list[i - Len(outer)]
    BY <2>1, <2>2, <2>3
  <2> QED BY <1>1, <2>2, <2>4 DEF DescInv, TagsKnown
<1>4. list' = l /\ typedefs' = l /\ outer' = <<>>
  BY DEF CloseImport
<1>5. ListTypes' /\ TagsKnown'
  <2> HIDE DEF l
  <2>1. UNCHANGED <<types, file>>
    BY DEF CloseImport
  <2> QED BY <1>1, <1>3, <1>4, <2>1 DEF ListTypes, TagsKnown, EntryKnown, AliasName
<1>6. TableTypes'
  <2> HIDE DEF l
  <2> QED BY <1>3, <1>4 DEF CloseImport, DescInv, TableTypes
<1>7. ResolveTypes' /\ FieldsKnown'
  BY DEF CloseImport, DescInv, ResolveTypes, FieldsKnown, Known, resolved
<1> QED
  BY <1>2, <1>5, <1>6, <1>7 DEF DescInv

\* A list that is not one of types gets one more element.
LEMMA ElementKeepsDesc ==
  ASSUME DescInv, NEW kind \in {"request", "task", "poster"}, NEW e, Is(kind), Element(kind, e),
         pc' = pc,
         kind = "request" => e \in Requests,
         kind = "task" => e \in ExecTasks,
         kind = "poster" => e \in Posters
  PROVE  DescInv'
<1>1. ParseTypes'
  <2>1. group' = KindOf(Decl)
    BY ParsedDecl DEF Element, KindOf
  <2> QED BY <2>1, ParsedTypes DEF Element
<1>2. ListTypes' /\ TagsKnown'
  BY DEF Element, DescInv, ListTypes, TagsKnown, EntryKnown, AliasName
<1>3. TableTypes'
  <2>1. requetes' \in Seq(Requests) /\ taches' \in Seq(ExecTasks) /\ posters' \in Seq(Posters)
    BY ReduceTypes DEF Element, DescInv
  <2> QED BY <2>1 DEF Element, DescInv, TableTypes
<1>4. ResolveTypes' /\ FieldsKnown'
  BY DEF Element, DescInv, ResolveTypes, FieldsKnown, Known, resolved
<1> QED
  BY <1>1, <1>2, <1>3, <1>4 DEF DescInv

LEMMA ParseRequestKeepsDesc ==
  ASSUME DescInv, ParseRequest
  PROVE  DescInv'
<1>1. Decl.name \in Words /\ Decl.attributes \in Seq(RqstAttributes)
  BY ParsedDecl, DeclTypes DEF ParseRequest, Decl
<1> DEFINE str == Reports(Attributes(Decl.attributes, NoRqst).str)
           e == [name |-> Decl.name, num |-> 0, incompatible |-> {}, str |-> str]
<1>2. e \in Requests
  <2>1. str \in RqstStr
    BY <1>1, RqstAttributesType, ReportsType
  <2> HIDE DEF str
  <2> QED BY <1>1, <2>1 DEF Requests
<1>3. CASE Stop("exit")
  BY <1>3, StopKeepsDesc
<1>4. CASE Element("request", e) /\ pc' = pc
  <2> HIDE DEF e
  <2> QED BY <1>2, <1>4, ElementKeepsDesc DEF ParseRequest
<1> QED
  BY <1>3, <1>4 DEF ParseRequest

LEMMA ParseTaskKeepsDesc ==
  ASSUME DescInv, ParseTask
  PROVE  DescInv'
<1>1. Decl.name \in Words /\ Decl.attributes \in Seq(TaskAttributes)
  BY ParsedDecl, DeclTypes DEF ParseTask, Decl
<1> DEFINE str == Reports(Attributes(Decl.attributes, NoTask).str)
           e == [name |-> Decl.name, num |-> 0, str |-> str]
<1>2. e \in ExecTasks
  <2>1. str \in TaskStr
    BY <1>1, TaskAttributesType, ReportsType
  <2> HIDE DEF str
  <2> QED BY <1>1, <2>1 DEF ExecTasks
<1>3. CASE Stop("exit")
  BY <1>3, StopKeepsDesc
<1>4. CASE Element("task", e) /\ pc' = pc
  <2> HIDE DEF e
  <2> QED BY <1>2, <1>4, ElementKeepsDesc DEF ParseTask
<1> QED
  BY <1>3, <1>4 DEF ParseTask

LEMMA ParsePosterKeepsDesc ==
  ASSUME DescInv, ParsePoster
  PROVE  DescInv'
<1>1. Decl.name \in Words /\ Decl.user \in BOOLEAN /\ Decl.task \in Words
      /\ Decl.data \in Seq(PosterData)
  BY ParsedDecl, DeclTypes DEF ParsePoster, Decl
<1> DEFINE e == [name |-> Decl.name, data |-> Decl.data, user |-> Decl.user,
                 exec_task |-> Decl.task, members |-> <<>>]
<1>2. e \in Posters
  BY <1>1 DEF Posters
<1>3. Is("poster") /\ Element("poster", e) /\ pc' = pc
  BY DEF ParsePoster
<1> HIDE DEF e
<1> QED
  BY <1>2, <1>3, ElementKeepsDesc

LEMMA EndOfFileKeepsDesc ==
  ASSUME DescInv, EndOfFile
  PROVE  DescInv'
<1>1. CASE Stop("exit")
  BY <1>1, StopKeepsDesc
<1>2. CASE module # NoModule
  <2>1. requetes' \in Seq(Requests) /\ taches' \in Seq(ExecTasks) /\ posters' \in Seq(Posters)
    BY <1>2, ReduceTypes DEF EndOfFile, DescInv
  <2>2. TableTypes'
    BY <1>2, <2>1 DEF EndOfFile, DescInv, TableTypes
  <2>3. ParseTypes' /\ ListTypes'
    BY <1>2 DEF EndOfFile, DescInv, ParseTypes, ListTypes, None
  <2>5. TagsKnown'
    <3>1. /\ group' # "typedef" /\ UNCHANGED <<file, outer, typedefs, types>>
      BY <1>2 DEF EndOfFile, None
    <3>2. \A e : EntryKnown(e) => EntryKnown(e)'
      BY <3>1 DEF EntryKnown, AliasName
    <3> QED BY <3>1, <3>2 DEF DescInv, TagsKnown
  <2>4. ResolveTypes' /\ FieldsKnown'
    BY <1>2 DEF EndOfFile, DescInv, ResolveTypes, FieldsKnown, Known, resolved
  <2> QED BY <2>2, <2>3, <2>4, <2>5 DEF DescInv
<1> QED
  BY <1>1, <1>2 DEF EndOfFile

-----------------------------------------------------------------------------
(* The ways into the SDI *)

Refs == {r \in Words \X Nat : r[1] \in DOMAIN types /\ r[2] \in DOMAIN types[r[1]].members}

\* The member of t with a name.
Step(t, name) ==
  LET i == SelectInSeq(Members(t), LAMBDA m : m.name = name) IN
  IF i = 0 THEN <<>> ELSE <<t.id, i>>

LEMMA StepIs ==
  ASSUME TableTypes, NEW t, t.def = "struct" => t.id \in DOMAIN types, NEW name
  PROVE  Step(t, name) \in {<<>>} \cup Refs
<1> DEFINE ms == Members(t)
           I == {i \in 1 .. Len(ms) : ms[i].name = name}
           i == IF I # {} THEN Min(I) ELSE 0
<1>1. Step(t, name) = IF i = 0 THEN <<>> ELSE <<t.id, i>>
  BY DEF Step, SelectInSeq
<1>2. CASE I = {}
  BY <1>1, <1>2
<1>3. CASE I # {}
  <2>1. Min(I) \in I
    <3>1. I \in SUBSET Nat
      OBVIOUS
    <3> HIDE DEF I
    <3> QED BY <1>3, <3>1, MinIs
  <2>2. Min(I) \in 1 .. Len(ms)
    BY <2>1
  <2>3. t.def = "struct"
    <3>1. t.def # "struct" => ms = <<>>
      BY DEF Members
    <3> HIDE DEF ms, I
    <3> QED BY <2>2, <3>1
  <2>4. t.id \in DOMAIN types /\ t.id \in Words /\ ms = types[t.id].members /\ ms \in Seq(Fields)
    BY <2>3 DEF Members, TableTypes, Structs
  <2>5. Min(I) \in DOMAIN ms /\ Min(I) \in Nat /\ Min(I) # 0
    <3> HIDE DEF ms, I
    <3> QED BY <2>2, <2>4
  <2>6. i = Min(I)
    BY <1>3
  <2> HIDE DEF ms, I, i
  <2> QED BY <1>1, <2>4, <2>5, <2>6 DEF Refs
<1> QED
  BY <1>2, <1>3

LEMMA RefIs ==
  ASSUME TableTypes, FieldsKnown, NEW r \in Refs
  PROVE  /\ Member(r) \in Fields /\ Known(Member(r).type)
         /\ types[r[1]].members[r[2]] = Member(r)
BY DEF Refs, TableTypes, FieldsKnown, Structs, Member

LEMMA WalkIs ==
  ASSUME TableTypes, FieldsKnown, module.internal_data \in DOMAIN types, NEW path \in Path
  PROVE  \A j \in 1 .. Len(path) : Walk(path)[j] \in {<<>>} \cup Refs
<1> DEFINE n == Len(path)
           T == {<<>>} \cup Refs
           first == Step(SdiType, path[1])
           next(r, j) == IF r = <<>> THEN <<>> ELSE Step(types[r[1]].members[r[2]].type, path[j])
           step == [x \in T \X (1 .. n) |-> next(x[1], x[2])]
           Eq(w) == w = [j \in 1 .. n |-> IF j = 1 THEN first ELSE next(w[j - 1], j)]
<1>1. n \in Nat
  BY DEF Path
<1>2. first \in T
  BY StepIs DEF SdiType, StructType
<1>3. ASSUME NEW r \in T, NEW j \in 1 .. n PROVE next(r, j) \in T
  <2>1. CASE r = <<>>
    BY <2>1
  <2>2. CASE r # <<>> /\ r \in Refs
    <3>1. Member(r) \in Fields /\ Known(Member(r).type) /\ types[r[1]].members[r[2]] = Member(r)
      BY <2>2, RefIs
    <3>2. Member(r).type.def = "struct" => Member(r).type.id \in DOMAIN types
      BY <3>1 DEF Known
    <3>3. Step(Member(r).type, path[j]) \in T
      BY <3>2, StepIs
    <3> QED BY <2>2, <3>1, <3>3
  <2> QED BY <2>1, <2>2
<1>4. step \in [T \X (1 .. n) -> T]
  <2> HIDE DEF T, n, next
  <2> QED BY <1>3
<1>5. PICK f \in [1 .. n -> T] : Steps(f, n, first, step)
  <2> HIDE DEF T, n, first, step
  <2> QED BY <1>1, <1>2, <1>4, Iteration
<1>6. Eq(f)
  <2> HIDE DEF T, first, next
  <2>1. ASSUME NEW j \in 1 .. n PROVE f[j] = IF j = 1 THEN first ELSE next(f[j - 1], j)
    <3>1. j # 1 => j - 1 \in 1 .. n
      BY <1>1
    <3>2. j # 1 => <<f[j - 1], j>> \in T \X (1 .. n)
      BY <3>1
    <3>3. j # 1 => step[<<f[j - 1], j>>] = next(f[j - 1], j)
      BY <3>2
    <3> HIDE DEF step, n
    <3> QED BY <1>5, <3>3 DEF Steps
  <2> HIDE DEF n
  <2> QED BY <2>1
<1> DEFINE h == CHOOSE w : Eq(w)
<1>7. Eq(h)
  <2> HIDE DEF Eq
  <2> QED BY <1>6
<1>8. Walk(path) = h
  BY DEF Walk, Step
<1>9. \A j \in 1 .. n : h[j] = IF j = 1 THEN first ELSE next(h[j - 1], j)
  <2> HIDE DEF T, first, next, h, n
  <2> QED BY <1>7
<1> DEFINE U == {j \in 1 .. n : h[j] \in T}
<1>10. 1 .. n \subseteq U
  <2>1. n >= 1 => 1 \in U
    <3> HIDE DEF T, first, next, h, n
    <3> QED BY <1>1, <1>2, <1>9
  <2>2. ASSUME NEW j \in 1 .. n, j \in U, j + 1 <= n PROVE j + 1 \in U
    <3> HIDE DEF T, first, next, h, n, U
    <3>1. j + 1 \in 1 .. n /\ j + 1 # 1 /\ (j + 1) - 1 = j
      BY <1>1, <2>2
    <3> USE DEF U
    <3>2. h[j + 1] = next(h[j], j + 1) /\ h[j] \in T
      BY <1>9, <2>2, <3>1
    <3> QED BY <1>3, <3>1, <3>2
  <2> HIDE DEF U, n
  <2> QED BY <1>1, <2>1, <2>2, Upwards
<1> QED
  <2> HIDE DEF h
  <2> QED BY <1>8, <1>10

\* A path that leads to a member.
Leads(path) == path = ALL \/ SdiRef(path) \in Refs

LEMMA SdiRefIs ==
  ASSUME TableTypes, FieldsKnown, module.internal_data \in DOMAIN types, NEW path \in Path,
         path # <<>>
  PROVE  SdiRef(path) \in {<<>>} \cup Refs
<1>1. Len(path) \in 1 .. Len(path)
  BY DEF Path
<1> QED
  BY <1>1, WalkIs DEF SdiRef

-----------------------------------------------------------------------------
(* What the resolution makes of the references *)

LEMMA FateIs ==
  ASSUME DescInv, module.internal_data \in DOMAIN types, NEW path \in Path, path # <<>>,
         NEW typed \in BOOLEAN
  PROVE  /\ Fate(path, typed) \in {"found", "late", "exit", "undefined"}
         /\ Fate(path, typed) = "undefined" => freed # {}
         /\ Fate(path, typed) \in {"found", "late"} => Leads(path)
         /\ Fate(path, typed) = "late" =>
              warned \/ Member(SdiRef(path)).type.def = "alias"
<1>1. SdiRef(path) \in {<<>>} \cup Refs
  BY SdiRefIs DEF DescInv
<1>2. Dangling(path) => freed # {}
  BY DEF Dangling
<1> DEFINE t == Member(SdiRef(path)).type
<1>3. SdiRef(path) # <<>> => Known(t)
  BY <1>1, RefIs DEF DescInv
<1>4. <<>> \notin Refs
  BY DEF Refs
<1>5. TrouveOf(t) # t => t.def \in {"name", "alias"}
  BY DEF TrouveOf
<1> HIDE DEF t
<1>6. Fate(path, typed) =
        IF path = ALL THEN "found"
        ELSE IF Dangling(path) THEN "undefined"
        ELSE IF SdiRef(path) = <<>> THEN "exit"
        ELSE IF TrouveOf(t) = t THEN "found"
        ELSE IF TrouveOf(t) # NoType THEN "late"
        ELSE IF typed THEN "exit" ELSE "found"
  BY DEF Fate, t
<1> QED
  BY <1>1, <1>2, <1>3, <1>4, <1>5, <1>6 DEF Leads, Known, t

\* The members whose type object goes with that of a member have the same.
LEMMA SharingIs ==
  ASSUME NEW r, NEW x \in Sharing(r)
  PROVE  Member(x).type = Member(r).type
<1>1. CASE Member(r).type.def # "alias"
  BY <1>1 DEF Sharing
<1>2. CASE Member(r).type.def = "alias"
  <2>1. PICK t \in DOMAIN types :
          \E j \in DOMAIN types[t].members :
            x = <<t, j>> /\ types[t].members[j].type = Member(r).type
    BY <1>2 DEF Sharing
  <2> QED BY <2>1 DEF Member
<1> QED
  BY <1>1, <1>2

UseSet == {"sdi"} \X (Path \ {<<>>}) \cup {"type"} \X Words

LEMMA UsesIs ==
  ASSUME TableTypes
  PROVE  /\ Uses \in Seq(UseSet)
         /\ \A i \in DOMAIN requetes :
              /\ requetes[i].str.input # <<>> => <<"sdi", requetes[i].str.input>> \in Range(Uses)
              /\ requetes[i].str.output # <<>> => <<"sdi", requetes[i].str.output>> \in Range(Uses)
<1> DEFINE of(p) == IF p = <<>> THEN <<>> ELSE << <<"sdi", p>> >>
           ty(ps) == [j \in DOMAIN ps |-> <<"type", ps[j]>>]
           part(i) == LET s == requetes[i].str IN of(s.input) \o of(s.output) \o ty(s.posters)
           ss == [i \in DOMAIN requetes |-> part(i)]
<1>1. ASSUME NEW p \in Path
      PROVE  of(p) \in Seq(UseSet) /\ (p # <<>> => <<"sdi", p>> \in Range(of(p)))
  <2>1. CASE p = <<>>
    BY <2>1
  <2>2. CASE p # <<>>
    <3>1. <<"sdi", p>> \in UseSet
      BY <2>2 DEF UseSet
    <3>2. of(p) = << <<"sdi", p>> >>
      BY <2>2
    <3> HIDE DEF of
    <3> QED BY <3>1, <3>2 DEF Range
  <2> QED BY <2>1, <2>2
<1>2. ASSUME NEW ps \in Path PROVE ty(ps) \in Seq(UseSet)
  <2>1. \A j \in 1 .. Len(ps) : <<"type", ps[j]>> \in UseSet
    BY DEF UseSet, Path
  <2>2. ty(ps) = [j \in 1 .. Len(ps) |-> <<"type", ps[j]>>] /\ Len(ps) \in Nat
    BY DEF Path
  <2> QED BY <2>1, <2>2
<1>3. ASSUME NEW i \in DOMAIN requetes
      PROVE  /\ part(i) \in Seq(UseSet)
             /\ requetes[i].str.input # <<>> => <<"sdi", requetes[i].str.input>> \in Range(part(i))
             /\ requetes[i].str.output # <<>> => <<"sdi", requetes[i].str.output>> \in Range(part(i))
  <2> DEFINE a == of(requetes[i].str.input)
             b == of(requetes[i].str.output)
             c == ty(requetes[i].str.posters)
  <2>1. requetes[i].str.input \in Path /\ requetes[i].str.output \in Path
        /\ requetes[i].str.posters \in Path
    <3>1. requetes[i] \in Requests
      BY DEF TableTypes
    <3>2. requetes[i].str \in RqstStr
      BY <3>1 DEF Requests
    <3> QED BY <3>2 DEF RqstStr
  <2>2. a \in Seq(UseSet) /\ b \in Seq(UseSet) /\ c \in Seq(UseSet)
    <3> HIDE DEF of, ty
    <3> QED BY <2>1, <1>1, <1>2
  <2>3. part(i) = a \o b \o c
    OBVIOUS
  <2>4. a \o b \in Seq(UseSet) /\ a \o b \o c \in Seq(UseSet)
        /\ Range(a \o b \o c) = Range(a) \cup Range(b) \cup Range(c)
    <3> HIDE DEF a, b, c
    <3>1. a \o b \in Seq(UseSet) /\ Range(a \o b) = Range(a) \cup Range(b)
      BY <2>2, ConcatProperties, RangeConcatenation
    <3> DEFINE ab == a \o b
    <3> HIDE DEF ab
    <3>2. ab \in Seq(UseSet)
      BY <3>1 DEF ab
    <3>3. ab \o c \in Seq(UseSet) /\ Range(ab \o c) = Range(ab) \cup Range(c)
      BY <2>2, <3>2, ConcatProperties, RangeConcatenation
    <3> QED BY <3>1, <3>3 DEF ab
  <2> HIDE DEF part
  <2> QED BY <1>1, <2>1, <2>3, <2>4
<1>4. ss \in Seq(Seq(UseSet)) /\ DOMAIN ss = DOMAIN requetes
      /\ \A i \in DOMAIN requetes : ss[i] = part(i)
  <2> HIDE DEF part
  <2>1. DOMAIN requetes = 1 .. Len(requetes) /\ Len(requetes) \in Nat
    BY DEF TableTypes
  <2>2. \A i \in 1 .. Len(requetes) : part(i) \in Seq(UseSet)
    BY <1>3, <2>1
  <2> QED BY <2>1, <2>2
<1>5. Uses = FlattenSeq(ss)
  BY DEF Uses
<1> HIDE DEF ss, part, of, ty
<1>6. Uses \in Seq(UseSet) /\ Range(Uses) = UNION {Range(ss[i]) : i \in DOMAIN ss}
  BY <1>4, <1>5, Flattened
<1> QED
  BY <1>3, <1>4, <1>6

LEMMA TaskInputsIs ==
  ASSUME TableTypes
  PROVE  TaskInputs \in Seq(Words)
<1> DEFINE ss == [i \in DOMAIN taches |-> taches[i].str.posters]
<1>1. ss \in Seq(Seq(Words))
  <2>1. DOMAIN taches = 1 .. Len(taches) /\ Len(taches) \in Nat
        /\ \A i \in 1 .. Len(taches) : taches[i] \in ExecTasks
    BY DEF TableTypes
  <2>2. \A i \in 1 .. Len(taches) : taches[i].str \in TaskStr
    BY <2>1 DEF ExecTasks
  <2>3. \A i \in 1 .. Len(taches) : taches[i].str.posters \in Seq(Words)
    BY <2>2 DEF TaskStr, Path
  <2> QED BY <2>1, <2>3
<1>2. TaskInputs = FlattenSeq(ss)
  BY DEF TaskInputs
<1> HIDE DEF ss
<1> QED
  BY <1>1, <1>2, Flattened

InputsKnown == \A i \in DOMAIN inputs : Known(inputs[i])

LEMMA RegisteredInput ==
  ASSUME DescInv, InputsKnown, NEW n \in Words, RegisterInput(n)
  PROVE  /\ k' \in Nat \ {0} /\ inputs' \in Seq(TypeObjects)
         /\ pc' \in {pc, "exit", "crash", "undefined"}
         /\ pc' = "undefined" => pc = "undefined" \/ freed # {}
         /\ \A i \in DOMAIN inputs' : Known(inputs'[i])
<1> DEFINE t == TypeOf(n)
<1>1. CASE Next1 /\ UNCHANGED inputs
  BY <1>1 DEF Next1, DescInv, ResolveTypes, InputsKnown
<1>2. CASE pc' \in {"exit", "crash", "undefined"} /\ UNCHANGED <<k, inputs>>
           /\ (pc' = "undefined" => FreedType(t))
  <2>1. FreedType(t) => freed # {}
    BY DEF FreedType
  <2> QED BY <1>2, <2>1 DEF DescInv, ResolveTypes, InputsKnown
<1>3. CASE t.def # "name" /\ Next1 /\ inputs' = <<t>> \o inputs
  <2>1. t \in TypeObjects /\ Known(t)
    BY <1>3, TypeOfIs DEF DescInv, TableTypes, Known
  <2> HIDE DEF t
  <2>2. <<t>> \in Seq(TypeObjects) /\ inputs \in Seq(TypeObjects) /\ k' \in Nat \ {0} /\ pc' = pc
    BY <1>3, <2>1 DEF Next1, DescInv, ResolveTypes
  <2>3. inputs' = <<t>> \o inputs
    BY <1>3
  <2>4. inputs' \in Seq(TypeObjects) /\ Range(inputs') = Range(<<t>>) \cup Range(inputs)
    BY <2>2, <2>3, ConcatProperties, RangeConcatenation
  <2>5. Range(<<t>>) = {t}
    BY <2>2 DEF Range
  <2>6. ASSUME NEW i \in DOMAIN inputs' PROVE Known(inputs'[i])
    <3>1. inputs'[i] \in Range(inputs')
      BY DEF Range
    <3>2. \A x \in Range(inputs) : Known(x)
      BY DEF Range, InputsKnown
    <3> QED BY <2>1, <2>4, <2>5, <3>1, <3>2
  <2> QED BY <2>2, <2>4, <2>6
<1>4. \/ Next1 /\ UNCHANGED inputs
      \/ /\ pc' \in {"exit", "crash", "undefined"} /\ UNCHANGED <<k, inputs>>
         /\ pc' = "undefined" => FreedType(t)
      \/ t.def # "name" /\ Next1 /\ inputs' = <<t>> \o inputs
  <2> HIDE DEF t
  <2> QED BY DEF RegisterInput, t
<1> QED
  BY <1>1, <1>2, <1>3, <1>4

-----------------------------------------------------------------------------
(* The resolution keeps the types of the tables, and resolves what it meets *)

Declaring == {"parse", "requests", "sdi"}
Early == {"parse", "requests", "sdi", "exit"}

\* The SDI is the one a declaration of the module names, then one of the structures.
SdiName(n) == \E j \in DOMAIN file : file[j].kind = "module" /\ file[j].sdi = n
SdiDeclared ==
  /\ pc \in Declaring => module = NoModule \/ SdiName(module.internal_data)
  /\ pc \in Declaring \ {"parse"} => module # NoModule
SdiKnown == pc \notin Early => module.internal_data \in DOMAIN types

PostersKnown ==
  /\ \A i \in DOMAIN posters : \A j \in DOMAIN posters[i].members :
       Known(posters[i].members[j].type)
  /\ group = "poster" => \A i \in DOMAIN list : list[i].members = <<>>

FreedWarned ==
  /\ \A m \in freed : warned \/ Member(m).type.def = "alias"
  /\ pc = "parse" => freed = {}

RefsInv == SdiDeclared /\ SdiKnown /\ InputsKnown /\ PostersKnown /\ FreedWarned

LEMMA RefsSame ==
  ASSUME DescInv, RefsInv, UNCHANGED <<parsing, tables, warned>>,
         pc' \notin Early => pc \notin Early, pc' \in Declaring => pc' = pc /\ freed' = freed,
         \A m \in freed' : warned \/ Member(m).type.def = "alias",
         \A i \in DOMAIN inputs' : Known(inputs'[i])
  PROVE  RefsInv'
<1>1. UNCHANGED <<types, module, posters, group, list, file, warned>>
  BY DEF tables, parsing
<1>2. SdiDeclared' /\ SdiKnown'
  BY <1>1 DEF RefsInv, SdiDeclared, SdiName, SdiKnown, Early, Declaring, NoModule, None
<1>3. InputsKnown' /\ PostersKnown'
  BY <1>1 DEF RefsInv, InputsKnown, PostersKnown, Known
<1>4. FreedWarned'
  BY <1>1 DEF RefsInv, FreedWarned, Member, Declaring
<1> QED
  BY <1>2, <1>3, <1>4 DEF RefsInv

LEMMA SameKeeps ==
  ASSUME DescInv, RefsInv, UNCHANGED <<parsing, tables, warned, inputs, freed>>,
         pc' \in Declaring => pc' = pc, pc' \notin Early => pc \notin Early, k' \in Nat \ {0}
  PROVE  DescInv' /\ RefsInv'
<1>1. inputs \in Seq(TypeObjects)
  BY DEF DescInv, ResolveTypes
<1>2. DescInv'
  BY <1>1, DescSame DEF Declaring
<1>3. RefsInv'
  <2>1. \A m \in freed' : warned \/ Member(m).type.def = "alias"
    BY DEF RefsInv, FreedWarned
  <2>2. \A i \in DOMAIN inputs' : Known(inputs'[i])
    BY DEF RefsInv, InputsKnown
  <2> QED BY <2>1, <2>2, RefsSame
<1> QED
  BY <1>2, <1>3

LEMMA StopKeeps ==
  ASSUME DescInv, RefsInv, NEW end, Stop(end), end \notin Declaring,
         end \notin Early => pc \notin Early
  PROVE  DescInv' /\ RefsInv'
<1>1. k' \in Nat \ {0} /\ pc' = end
  BY DEF Stop, DescInv, ResolveTypes
<1> QED
  BY <1>1, SameKeeps DEF Stop, resolved

LEMMA IncompatibleType ==
  ASSUME TableTypes, NEW r
  PROVE  Incompatible(r) \subseteq DOMAIN requetes
<1> DEFINE first(n) == SelectInSeq(requetes, LAMBDA q : q.name = n)
<1>1. ASSUME NEW n PROVE first(n) \in {0} \cup DOMAIN requetes
  <2> DEFINE I == {i \in 1 .. Len(requetes) : requetes[i].name = n}
  <2>1. first(n) = IF I # {} THEN Min(I) ELSE 0
    BY DEF SelectInSeq
  <2>2. DOMAIN requetes = 1 .. Len(requetes)
    BY DEF TableTypes
  <2>3. CASE I # {}
    <3>1. I \in SUBSET Nat
      OBVIOUS
    <3>2. Min(I) \in I
      <4> HIDE DEF I
      <4> QED BY <2>3, <3>1, MinIs
    <3> QED BY <2>1, <2>2, <2>3, <3>2
  <2> QED BY <2>1, <2>3
<1> DEFINE by == r.str.interrupt_activity
           some == {first(by[j]) : j \in DOMAIN by} \ {0}
<1>2. Incompatible(r) \in {DOMAIN requetes, some}
  BY DEF Incompatible
<1> HIDE DEF first, by
<1> QED
  BY <1>1, <1>2

LEMMA ResolveRequestsKeeps ==
  ASSUME DescInv, RefsInv, ResolveRequests
  PROVE  DescInv' /\ RefsInv'
<1>1. requetes' \in Seq(Requests)
  <2>1. DOMAIN requetes = 1 .. Len(requetes) /\ Len(requetes) \in Nat
    BY DEF DescInv, TableTypes
  <2>2. ASSUME NEW i \in DOMAIN requetes
        PROVE  [requetes[i] EXCEPT !.num = i - 1, !.incompatible = Incompatible(requetes[i])]
                 \in Requests
    <3>1. requetes[i] \in Requests /\ i - 1 \in Nat
      BY <2>1 DEF DescInv, TableTypes
    <3>2. Incompatible(requetes[i]) \in SUBSET Nat
      BY <2>1, IncompatibleType DEF DescInv
    <3> QED BY <3>1, <3>2 DEF Requests
  <2>3. requetes' = [i \in 1 .. Len(requetes) |-> [requetes[i] EXCEPT
                       !.num = i - 1, !.incompatible = Incompatible(requetes[i])]]
    BY <2>1 DEF ResolveRequests
  <2> DEFINE e(i) == [requetes[i] EXCEPT !.num = i - 1, !.incompatible = Incompatible(requetes[i])]
  <2>4. \A i \in 1 .. Len(requetes) : e(i) \in Requests
    BY <2>1, <2>2
  <2>5. requetes' = [i \in 1 .. Len(requetes) |-> e(i)]
    BY <2>3
  <2> HIDE DEF e
  <2> QED BY <2>1, <2>4, <2>5
<1>2. TableTypes'
  BY <1>1 DEF ResolveRequests, DescInv, TableTypes
<1>3. ParseTypes' /\ ListTypes' /\ TagsKnown'
  BY DEF ResolveRequests, Go, parsing, DescInv, ParseTypes, ListTypes, TagsKnown, EntryKnown,
           AliasName
<1>4. ResolveTypes' /\ FieldsKnown'
  <2>1. UNCHANGED <<types, inputs, warned>> /\ k' = 1
    BY DEF ResolveRequests, Go, resolved
  <2> QED BY <2>1 DEF DescInv, ResolveTypes, FieldsKnown, Known
<1>5. RefsInv'
  <2>1. UNCHANGED <<types, module, posters, group, list, file, inputs, warned, freed>>
        /\ pc = "requests" /\ pc' = "sdi"
    BY DEF ResolveRequests, Go, resolved, parsing
  <2>2. SdiDeclared' /\ SdiKnown'
    BY <2>1 DEF RefsInv, SdiDeclared, SdiName, SdiKnown, Early, Declaring, NoModule, None
  <2>3. InputsKnown' /\ PostersKnown' /\ FreedWarned'
    BY <2>1 DEF RefsInv, InputsKnown, PostersKnown, Known, FreedWarned, Member
  <2> QED BY <2>2, <2>3 DEF RefsInv
<1> QED
  BY <1>2, <1>3, <1>4, <1>5 DEF DescInv

\* The SDI is not an alias.
LEMMA SdiIsStruct ==
  ASSUME DescInv, NEW n \in Words, SdiName(n), TrouveType(n) # NoType
  PROVE  TrouveType(n).id \in Words /\ TrouveType(n).id \in DOMAIN types
<1>1. file \in Files /\ AliasesSound(file)
  BY FilesAssumption DEF DescInv, ParseTypes
<1>2. ~ AliasName(n)
  BY <1>1 DEF AliasesSound, AliasName, SdiName
<1>3. TrouveType(n) \in TypeObjects /\ TrouveType(n).def = "struct"
      /\ TrouveType(n).id \in DOMAIN types
  BY <1>2, TrouveTypeIs DEF DescInv, TableTypes
<1> QED
  BY <1>3 DEF TypeObjects

LEMMA ResolveSdiKeeps ==
  ASSUME DescInv, RefsInv, ResolveSdi
  PROVE  DescInv' /\ RefsInv'
<1> DEFINE t == TrouveType(module.internal_data)
<1>1. CASE Stop("exit")
  BY <1>1, StopKeeps DEF Early, Declaring
<1>2. CASE t # NoType
  <2>1. t.id \in Words /\ t.id \in DOMAIN types
    <3>1. SdiName(module.internal_data)
      BY DEF ResolveSdi, RefsInv, SdiDeclared, Declaring
    <3>2. module.internal_data \in Words
      BY DEF DescInv, TableTypes
    <3> QED BY <1>2, <3>1, <3>2, SdiIsStruct
  <2>2. module' = [module EXCEPT !.internal_data = t.id] /\ UNCHANGED <<parsing, typedefs, types,
          requetes, taches, posters, warned, resolved>> /\ Go("uses")
    BY <1>2 DEF ResolveSdi
  <2> DEFINE sdi == t.id
  <2> HIDE DEF t, sdi
  <2>3. TableTypes'
    <3>1. module' = [module EXCEPT !.internal_data = sdi] /\ sdi \in Words
      BY <2>1, <2>2 DEF sdi
    <3>2. UNCHANGED <<typedefs, types, requetes, taches, posters>>
      BY <2>2
    <3> QED BY <3>1, <3>2 DEF DescInv, TableTypes
  <2>4. ParseTypes' /\ ListTypes' /\ TagsKnown'
    BY <2>2 DEF Go, parsing, DescInv, ParseTypes, ListTypes, TagsKnown, EntryKnown, AliasName
  <2>5. ResolveTypes' /\ FieldsKnown'
    BY <2>2 DEF Go, resolved, DescInv, ResolveTypes, FieldsKnown, Known
  <2>6. SdiKnown'
    <3>1. module'.internal_data = t.id
      BY <2>2 DEF DescInv, TableTypes
    <3> QED BY <2>1, <2>2, <3>1 DEF SdiKnown
  <2>7. RefsInv'
    <3>1. InputsKnown' /\ PostersKnown'
      BY <2>2 DEF parsing, resolved, RefsInv, InputsKnown, PostersKnown, Known
    <3>2. FreedWarned' /\ SdiDeclared'
      BY <2>2 DEF Go, resolved, RefsInv, FreedWarned, Member, SdiDeclared, Declaring
    <3> QED BY <2>6, <3>1, <3>2 DEF RefsInv
  <2> QED BY <2>3, <2>4, <2>5, <2>7 DEF DescInv
<1> QED
  BY <1>1, <1>2 DEF ResolveSdi

LEMMA UseIs ==
  ASSUME DescInv, k <= Len(Uses)
  PROVE  /\ Uses[k][1] = "type" => Uses[k][2] \in Words
         /\ Uses[k][1] # "type" => /\ Uses[k][1] = "sdi"
                                   /\ Uses[k][2] \in Path /\ Uses[k][2] # <<>>
<1>1. Uses \in Seq(UseSet)
  BY UsesIs DEF DescInv
<1>2. k \in 1 .. Len(Uses)
  BY <1>1 DEF DescInv, ResolveTypes
<1>3. Uses[k] \in UseSet
  BY <1>1, <1>2
<1> QED
  BY <1>3 DEF UseSet

LEMMA ResolveUseKeeps ==
  ASSUME DescInv, RefsInv, ResolveUse
  PROVE  DescInv' /\ RefsInv'
<1>1. UNCHANGED <<parsing, tables, warned>> /\ pc = "uses" /\ k <= Len(Uses) /\ pc \notin Early
  BY DEF ResolveUse, Early
<1>2. module.internal_data \in DOMAIN types
  BY <1>1 DEF RefsInv, SdiKnown
<1>3. CASE Uses[k][1] = "type"
  <2>1. RegisterInput(Uses[k][2]) /\ UNCHANGED freed /\ Uses[k][2] \in Words
    BY <1>1, <1>3, UseIs DEF ResolveUse
  <2>2. /\ k' \in Nat \ {0} /\ inputs' \in Seq(TypeObjects)
        /\ pc' \in {pc, "exit", "crash", "undefined"}
        /\ \A i \in DOMAIN inputs' : Known(inputs'[i])
    BY <2>1, RegisteredInput DEF RefsInv
  <2>3. DescInv'
    BY <1>1, <2>2, DescSame
  <2>4. RefsInv'
    <3>1. \A m \in freed' : warned \/ Member(m).type.def = "alias"
      BY <2>1 DEF RefsInv, FreedWarned
    <3> QED BY <1>1, <2>2, <3>1, RefsSame DEF Declaring
  <2> QED BY <2>3, <2>4
<1>4. CASE Uses[k][1] # "type"
  <2> DEFINE p == Uses[k][2]
             f == Fate(p, FALSE)
  <2>1. p \in Path /\ p # <<>>
    BY <1>1, <1>4, UseIs
  <2>2. /\ IF f \in {"exit", "undefined"} THEN pc' = f /\ UNCHANGED k ELSE Next1
        /\ freed' = Replaced(p) /\ UNCHANGED inputs
    BY <1>4 DEF ResolveUse
  <2>3. f = "late" => warned \/ Member(SdiRef(p)).type.def = "alias"
    BY <1>2, <2>1, FateIs
  <2>4. \A m \in freed' : warned \/ Member(m).type.def = "alias"
    <3>1. freed' = IF f = "late" THEN freed \cup Sharing(SdiRef(p)) ELSE freed
      BY <2>2 DEF Replaced
    <3>2. \A m \in Sharing(SdiRef(p)) : Member(m).type = Member(SdiRef(p)).type
      BY SharingIs
    <3> HIDE DEF f, p
    <3> QED BY <2>3, <3>1, <3>2 DEF RefsInv, FreedWarned
  <2>5. /\ k' \in Nat \ {0} /\ inputs' \in Seq(TypeObjects) /\ pc' \in {pc, "exit", "undefined"}
        /\ \A i \in DOMAIN inputs' : Known(inputs'[i])
    <3> HIDE DEF f, p
    <3> QED BY <2>2 DEF Next1, DescInv, ResolveTypes, RefsInv, InputsKnown
  <2>6. DescInv'
    BY <1>1, <2>5, DescSame
  <2>7. RefsInv'
    BY <1>1, <2>4, <2>5, RefsSame DEF Declaring
  <2> QED BY <2>6, <2>7
<1> QED
  BY <1>3, <1>4

LEMMA PosterMemberIs ==
  ASSUME DescInv, module.internal_data \in DOMAIN types, NEW d \in PosterData,
         PosterFate(d) \notin {"exit", "undefined"}
  PROVE  PosterMember(d) \in Fields /\ Known(PosterMember(d).type)
<1>1. d.name \in Words /\ d.path \in Path /\ d.type \in Words
  BY DEF PosterData
<1>2. CASE d.path = ALL
  <2>1. PosterMember(d) = [name |-> d.name, type |-> SdiType]
    BY <1>2 DEF PosterMember
  <2>2. module.internal_data \in Words
    BY DEF DescInv, TableTypes
  <2> QED BY <1>1, <2>1, <2>2 DEF SdiType, StructType, Fields, TypeObjects, Known
<1>3. CASE d.path # ALL /\ d.path # <<>>
  <2>1. PosterMember(d) = [name |-> d.name, type |-> Member(SdiRef(d.path)).type]
    BY <1>3 DEF PosterMember
  <2>2. Leads(d.path)
    <3>1. PosterFate(d) = Fate(d.path, TRUE)
      BY <1>3 DEF PosterFate
    <3> QED BY <1>1, <1>3, <3>1, FateIs
  <2>3. SdiRef(d.path) \in Refs
    BY <1>3, <2>2 DEF Leads
  <2>4. Member(SdiRef(d.path)) \in Fields /\ Known(Member(SdiRef(d.path)).type)
    BY <2>3, RefIs DEF DescInv
  <2> DEFINE m == Member(SdiRef(d.path))
  <2> HIDE DEF m
  <2> QED BY <1>1, <2>1, <2>4 DEF Fields, m
<1>4. CASE d.path = <<>>
  <2> DEFINE t == TypeOf(d.type)
  <2>1. PosterMember(d) = [name |-> d.name, type |-> t]
    BY <1>4 DEF PosterMember, ALL
  <2>2. ~ Unknown(d.type)
    BY <1>4 DEF PosterFate
  <2>3. t \in TypeObjects /\ Known(t)
    BY <1>1, <2>2, TypeOfIs DEF DescInv, TableTypes, Known
  <2> HIDE DEF t
  <2> QED BY <1>1, <2>1, <2>3 DEF Fields
<1> QED
  BY <1>2, <1>3, <1>4

LEMMA PosterFateIs ==
  ASSUME DescInv, module.internal_data \in DOMAIN types, NEW d \in PosterData
  PROVE  /\ PosterFate(d) \in {"found", "late", "exit", "undefined"}
         /\ PosterFate(d) = "undefined" => freed # {}
<1>1. d.path \in Path
  BY DEF PosterData
<1> QED
  BY <1>1, FateIs DEF PosterFate, FreedType

\* The fate of the first data that stops the run, and that of the others.
LEMMA BadIs ==
  ASSUME NEW n \in Nat, NEW f \in [1 .. n -> {"found", "late", "exit", "undefined"}]
  PROVE  LET bad == SelectInSeq(f, LAMBDA x : x \in {"exit", "undefined"}) IN
         /\ bad # 0 => bad \in 1 .. n /\ f[bad] \in {"exit", "undefined"}
         /\ bad = 0 => \A j \in 1 .. n : f[j] \notin {"exit", "undefined"}
<1> DEFINE I == {j \in 1 .. Len(f) : f[j] \in {"exit", "undefined"}}
           bad == SelectInSeq(f, LAMBDA x : x \in {"exit", "undefined"})
<1>1. bad = IF I # {} THEN Min(I) ELSE 0
  BY DEF SelectInSeq
<1>2. Len(f) = n
  OBVIOUS
<1>3. CASE I = {}
  BY <1>1, <1>2, <1>3
<1>4. CASE I # {}
  <2>1. I \in SUBSET Nat
    OBVIOUS
  <2>2. Min(I) \in I
    <3> HIDE DEF I
    <3> QED BY <1>4, <2>1, MinIs
  <2>3. Min(I) \in 1 .. n /\ f[Min(I)] \in {"exit", "undefined"}
    BY <1>2, <2>2
  <2> HIDE DEF I
  <2>4. bad = Min(I) /\ bad # 0
    BY <1>1, <1>4, <2>3
  <2> HIDE DEF bad
  <2>5. bad \in 1 .. n /\ f[bad] \in {"exit", "undefined"} /\ bad # 0
    BY <2>3, <2>4
  <2> QED BY <2>5 DEF bad
<1> QED
  BY <1>3, <1>4

LEMMA ResolvePosterCases ==
  ASSUME DescInv, RefsInv, ResolvePoster
  PROVE  \/ Stop("exit")
         \/ Stop("undefined") /\ freed # {}
         \/ /\ \A j \in DOMAIN posters[k].data :
                 /\ PosterMember(posters[k].data[j]) \in Fields
                 /\ Known(PosterMember(posters[k].data[j]).type)
            /\ posters' = [posters EXCEPT ![k].members =
                             [j \in DOMAIN posters[k].data |-> PosterMember(posters[k].data[j])]]
            /\ Next1
            /\ UNCHANGED <<parsing, typedefs, types, requetes, taches, module, warned, resolved>>
<1>1. module.internal_data \in DOMAIN types
  BY DEF ResolvePoster, RefsInv, SdiKnown, Early
<1>2. k \in DOMAIN posters /\ posters[k] \in Posters
  BY DEF ResolvePoster, DescInv, TableTypes, ResolveTypes
<1>3. posters[k].data \in Seq(PosterData)
  BY <1>2 DEF Posters
<1> DEFINE data == posters[k].data
           n == Len(data)
           fates == [j \in DOMAIN data |-> PosterFate(data[j])]
           bad == SelectInSeq(fates, LAMBDA f : f \in {"exit", "undefined"})
<1>4. n \in Nat /\ DOMAIN data = 1 .. n /\ \A j \in 1 .. n : data[j] \in PosterData
  BY <1>3
<1>5. \A j \in 1 .. n : /\ PosterFate(data[j]) \in {"found", "late", "exit", "undefined"}
                        /\ PosterFate(data[j]) = "undefined" => freed # {}
  <2> HIDE DEF data, n
  <2> QED BY <1>1, <1>4, PosterFateIs
<1>6. fates \in [1 .. n -> {"found", "late", "exit", "undefined"}]
      /\ \A j \in 1 .. n : fates[j] = PosterFate(data[j])
  <2> HIDE DEF data, n
  <2> QED BY <1>4, <1>5
<1>7. /\ bad # 0 => bad \in 1 .. n /\ fates[bad] \in {"exit", "undefined"}
      /\ bad = 0 => \A j \in 1 .. n : fates[j] \notin {"exit", "undefined"}
  <2> HIDE DEF n, fates
  <2> QED BY <1>4, <1>6, BadIs
<1>8. CASE bad # 0
  <2>1. Stop(fates[bad])
    BY <1>8 DEF ResolvePoster
  <2> HIDE DEF bad, n, data, fates
  <2> QED BY <1>5, <1>6, <1>7, <1>8, <2>1
<1>9. CASE bad = 0
  <2>1. /\ posters' = [posters EXCEPT ![k].members =
                             [j \in DOMAIN posters[k].data |-> PosterMember(posters[k].data[j])]]
        /\ Next1
        /\ UNCHANGED <<parsing, typedefs, types, requetes, taches, module, warned, resolved>>
    BY <1>9 DEF ResolvePoster
  <2>2. ASSUME NEW j \in DOMAIN posters[k].data
        PROVE  /\ PosterMember(posters[k].data[j]) \in Fields
               /\ Known(PosterMember(posters[k].data[j]).type)
    <3>1. j \in 1 .. n /\ data[j] \in PosterData
      BY <1>4
    <3>2. PosterFate(data[j]) \notin {"exit", "undefined"}
      <4> HIDE DEF bad, n, data, fates
      <4> QED BY <1>6, <1>7, <1>9, <3>1
    <3> QED BY <1>1, <3>1, <3>2, PosterMemberIs
  <2> QED BY <2>1, <2>2
<1> QED
  BY <1>8, <1>9

LEMMA ResolvePosterKeeps ==
  ASSUME DescInv, RefsInv, ResolvePoster
  PROVE  DescInv' /\ RefsInv'
<1> DEFINE data == posters[k].data
           ms == [j \in DOMAIN data |-> PosterMember(data[j])]
<1>1. CASE Stop("exit") \/ Stop("undefined")
  BY <1>1, StopKeeps DEF ResolvePoster, Early, Declaring
<1>2. CASE /\ \A j \in DOMAIN data : PosterMember(data[j]) \in Fields /\ Known(PosterMember(data[j]).type)
           /\ posters' = [posters EXCEPT ![k].members = ms]
           /\ Next1
           /\ UNCHANGED <<parsing, typedefs, types, requetes, taches, module, warned, resolved>>
  <2>1. k \in DOMAIN posters /\ posters[k] \in Posters
    BY DEF ResolvePoster, DescInv, TableTypes, ResolveTypes
  <2>2. DOMAIN data = 1 .. Len(data) /\ Len(data) \in Nat
    BY <2>1 DEF Posters
  <2>3. ms \in Seq(Fields) /\ DOMAIN ms = DOMAIN data
        /\ \A j \in DOMAIN data : ms[j] = PosterMember(data[j])
    <3> HIDE DEF data
    <3>1. \A j \in 1 .. Len(data) : PosterMember(data[j]) \in Fields
      BY <1>2, <2>2
    <3> QED BY <2>2, <3>1
  <2>4. \A j \in DOMAIN ms : Known(ms[j].type)
    <3> HIDE DEF ms, data
    <3> QED BY <1>2, <2>3
  <2> HIDE DEF ms, data
  <2>5. posters' \in Seq(Posters)
    <3>1. posters \in Seq(Posters)
      BY DEF DescInv, TableTypes
    <3>2. [posters[k] EXCEPT !.members = ms] \in Posters
      BY <2>1, <2>3 DEF Posters
    <3>3. posters' = [posters EXCEPT ![k] = [posters[k] EXCEPT !.members = ms]]
      BY <1>2
    <3> DEFINE p == [posters[k] EXCEPT !.members = ms]
    <3> HIDE DEF p
    <3> QED BY <2>1, <3>1, <3>2, <3>3 DEF p
  <2>6. TableTypes'
    BY <1>2, <2>5 DEF DescInv, TableTypes
  <2>7. ParseTypes' /\ ListTypes' /\ TagsKnown'
    BY <1>2 DEF Next1, parsing, DescInv, ParseTypes, ListTypes, TagsKnown, EntryKnown,
           AliasName
  <2>8. ResolveTypes' /\ FieldsKnown'
    <3>1. UNCHANGED <<types, inputs, warned>> /\ k' = k + 1
      BY <1>2 DEF Next1, resolved
    <3> QED BY <3>1 DEF DescInv, ResolveTypes, FieldsKnown, Known
  <2>9. PostersKnown'
    <3>1. UNCHANGED <<types, warned, list, group>> /\ DOMAIN posters' = DOMAIN posters
      BY <1>2 DEF parsing
    <3>2. \A i \in DOMAIN posters :
            posters'[i].members = IF i = k THEN ms ELSE posters[i].members
      BY <1>2, <2>1
    <3> QED BY <2>4, <3>1, <3>2 DEF RefsInv, PostersKnown, Known
  <2>10. RefsInv'
    <3>1. SdiKnown' /\ SdiDeclared'
      BY <1>2 DEF Next1, parsing, RefsInv, SdiKnown, SdiDeclared, SdiName, Declaring, Early,
                  ResolvePoster
    <3>2. InputsKnown' /\ FreedWarned'
      BY <1>2 DEF Next1, resolved, RefsInv, InputsKnown, Known, FreedWarned, Member
    <3> QED BY <2>9, <3>1, <3>2 DEF RefsInv
  <2> QED BY <2>6, <2>7, <2>8, <2>10 DEF DescInv
<1> QED
  BY <1>1, <1>2, ResolvePosterCases

LEMMA ResolveTaskInputKeeps ==
  ASSUME DescInv, RefsInv, ResolveTaskInput
  PROVE  DescInv' /\ RefsInv'
<1>1. /\ UNCHANGED <<parsing, tables, warned, freed>> /\ pc = "inputs"
      /\ RegisterInput(TaskInputs[k]) /\ k <= Len(TaskInputs)
  BY DEF ResolveTaskInput
<1>2. TaskInputs[k] \in Words
  <2>1. TaskInputs \in Seq(Words)
    BY TaskInputsIs DEF DescInv
  <2> QED BY <1>1, <2>1 DEF DescInv, ResolveTypes
<1>3. /\ k' \in Nat \ {0} /\ inputs' \in Seq(TypeObjects)
      /\ pc' \in {pc, "exit", "crash", "undefined"}
      /\ \A i \in DOMAIN inputs' : Known(inputs'[i])
  BY <1>1, <1>2, RegisteredInput DEF RefsInv
<1>4. DescInv'
  BY <1>1, <1>3, DescSame
<1>5. RefsInv'
  <2>1. \A m \in freed' : warned \/ Member(m).type.def = "alias"
    BY <1>1 DEF RefsInv, FreedWarned
  <2>2. (pc' \notin Early => pc \notin Early) /\ pc' \notin Declaring
    BY <1>1, <1>3 DEF Early, Declaring
  <2> QED BY <1>1, <1>3, <2>1, <2>2, RefsSame
<1> QED
  BY <1>4, <1>5

LEMMA ResolveTasksKeeps ==
  ASSUME DescInv, RefsInv, ResolveTasks
  PROVE  DescInv' /\ RefsInv'
<1>1. CASE Stop("exit")
  BY <1>1, StopKeeps DEF Early, Declaring
<1> DEFINE e(i) == [taches[i] EXCEPT !.num = i - 1]
<1>2. CASE /\ taches' = [i \in DOMAIN taches |-> e(i)]
           /\ Go("includes")
           /\ UNCHANGED <<parsing, typedefs, types, requetes, posters, module, warned, resolved>>
  <2>1. DOMAIN taches = 1 .. Len(taches) /\ Len(taches) \in Nat
    BY DEF DescInv, TableTypes
  <2>2. \A i \in 1 .. Len(taches) : e(i) \in ExecTasks
    <3> TAKE i \in 1 .. Len(taches)
    <3>1. taches[i] \in ExecTasks /\ i - 1 \in Nat
      BY <2>1 DEF DescInv, TableTypes
    <3> QED BY <3>1 DEF ExecTasks
  <2>3. taches' \in Seq(ExecTasks)
    <3> HIDE DEF e
    <3> QED BY <1>2, <2>1, <2>2
  <2> HIDE DEF e
  <2>4. TableTypes'
    BY <1>2, <2>3 DEF DescInv, TableTypes
  <2>5. ParseTypes' /\ ListTypes' /\ TagsKnown'
    BY <1>2 DEF Go, parsing, DescInv, ParseTypes, ListTypes, TagsKnown, EntryKnown,
           AliasName
  <2>6. ResolveTypes' /\ FieldsKnown'
    BY <1>2 DEF Go, resolved, DescInv, ResolveTypes, FieldsKnown, Known
  <2>7. RefsInv'
    <3>1. pc = "tasks"
      BY DEF ResolveTasks
    <3>2. SdiKnown' /\ SdiDeclared'
      BY <1>2, <3>1 DEF Go, RefsInv, SdiKnown, SdiDeclared, Declaring, Early
    <3>3. InputsKnown' /\ PostersKnown' /\ FreedWarned'
      BY <1>2 DEF Go, parsing, resolved, RefsInv, InputsKnown, PostersKnown, FreedWarned, Known, Member
    <3> QED BY <3>2, <3>3 DEF RefsInv
  <2> QED BY <2>4, <2>5, <2>6, <2>7 DEF DescInv
<1> QED
  BY <1>1, <1>2 DEF ResolveTasks

LEMMA ResolveKeeps ==
  ASSUME DescInv, RefsInv, Resolve
  PROVE  DescInv' /\ RefsInv'
<1>1. CASE UsesResolved \/ PostersResolved \/ AddArrays \/ ConstruitIncludeList
  <2>1. /\ UNCHANGED <<parsing, tables, warned, inputs, freed>> /\ k' = 1
        /\ pc \in {"uses", "posters", "inputs", "includes"}
        /\ pc' \in {"posters", "inputs", "tasks", "gen"}
    BY <1>1 DEF UsesResolved, PostersResolved, AddArrays, ConstruitIncludeList, Go, resolved
  <2> QED BY <2>1, SameKeeps DEF Early, Declaring
<1> QED
  BY <1>1, ResolveRequestsKeeps, ResolveSdiKeeps, ResolveUseKeeps, ResolvePosterKeeps,
     ResolveTaskInputKeeps, ResolveTasksKeeps DEF Resolve

LEMMA ParseKeepsRefs ==
  ASSUME DescInv, RefsInv, Parse
  PROVE  RefsInv'
<1>1. CASE Stop("exit")
  BY <1>1, StopKeeps DEF Early, Declaring
<1>2. CASE ~ Stop("exit")
  <2>1. UNCHANGED <<inputs, freed>> /\ pc' \in {"parse", "requests"} /\ (warned => warned')
        /\ DOMAIN types \subseteq DOMAIN types'
    BY <1>2 DEF Parse, ParseModule, ParseTypedef, ParseAlias, With, OpenImport, CloseImport, ParseRequest,
                ParseTask, ParsePoster, EndOfFile, Element, resolved, Is
  <2>2. posters' = posters \/ (group = "poster" /\ posters' = list)
    <3>1. CASE CloseImport
      BY <3>1 DEF CloseImport
    <3>2. CASE ~ CloseImport
      <4>1. Reduce("module") \/ Reduce("typedef") \/ Reduce("request") \/ Reduce("task")
            \/ Reduce("poster") \/ Reduce("end")
        BY <1>2, <3>2 DEF Parse, ParseModule, ParseTypedef, ParseAlias, OpenImport, ParseRequest,
                ParseTask, ParsePoster, EndOfFile, Element
      <4> QED BY <4>1 DEF Reduce
    <3> QED BY <3>1, <3>2
  <2>3. \A i \in DOMAIN posters' : \A j \in DOMAIN posters'[i].members :
          /\ posters'[i].members[j].type.def = "struct" =>
               posters'[i].members[j].type.id \in DOMAIN types'
          /\ posters'[i].members[j].type.def = "name" => warned'
    BY <2>1, <2>2 DEF RefsInv, PostersKnown, Known
  <2>4. ASSUME group' = "poster" PROVE \A i \in DOMAIN list' : list'[i].members = <<>>
    <3>1. CASE ParsePoster
      <4> DEFINE e == [name |-> Decl.name, data |-> Decl.data, user |-> Decl.user,
                       exec_task |-> Decl.task, members |-> <<>>]
      <4>1. list' = IF group = "poster" THEN Append(list, e) ELSE <<e>>
        BY <3>1 DEF ParsePoster, Element
      <4>2. e.members = <<>>
        OBVIOUS
      <4> HIDE DEF e
      <4>3. CASE group = "poster"
        <5>1. list \in Seq(Posters) /\ list' = Append(list, e)
          BY <4>1, <4>3 DEF DescInv, ListTypes
        <5>2. \A i \in DOMAIN list' : (i \in DOMAIN list /\ list'[i] = list[i]) \/ list'[i] = e
          BY <5>1
        <5> QED BY <4>2, <4>3, <5>2 DEF RefsInv, PostersKnown
      <4>4. CASE group # "poster"
        BY <4>1, <4>2, <4>4
      <4> QED BY <4>3, <4>4
    <3>2. CASE ~ ParsePoster
      <4>1. ~ CloseImport
        BY <2>4, ClosedIsTypedef DEF CloseImport
      <4> QED BY <1>2, <2>4, <3>2, <4>1 DEF Parse, ParseModule, ParseTypedef, ParseAlias,
                 OpenImport, ParseRequest, ParseTask, EndOfFile, Element, None
    <3> QED BY <3>1, <3>2
  <2>5. PostersKnown'
    BY <2>3, <2>4 DEF PostersKnown, Known
  <2>6. SdiKnown' /\ InputsKnown'
    BY <2>1 DEF SdiKnown, Early, InputsKnown, Known, RefsInv
  <2>7. FreedWarned'
    <3>1. pc = "parse"
      BY DEF Parse, ParseModule, ParseTypedef, ParseAlias, OpenImport, CloseImport, ParseRequest,
         ParseTask, ParsePoster, EndOfFile, Is
    <3> QED BY <2>1, <3>1 DEF RefsInv, FreedWarned
  <2>8. SdiDeclared'
    <3>1. file' = file /\ pc = "parse"
      BY DEF Parse, ParseModule, ParseTypedef, ParseAlias, OpenImport, CloseImport, ParseRequest,
         ParseTask, ParsePoster, EndOfFile, Element, Stop, parsing, Is
    <3>2. CASE ParseModule
      <4>1. module'.internal_data = Decl.sdi /\ pc' = "parse"
        BY <1>2, <3>1, <3>2 DEF ParseModule
      <4>2. SdiName(Decl.sdi)
        <5>1. Decl.kind = "module" /\ at + 1 \in 1 .. Len(file) /\ file \in Seq(Declarations)
          BY <3>2, ParsedDecl, FilesAssumption DEF ParseModule
        <5>2. at + 1 \in DOMAIN file
          BY <5>1
        <5> QED BY <5>1, <5>2 DEF SdiName, Decl
      <4> QED BY <3>1, <4>1, <4>2 DEF SdiDeclared, SdiName
    <3>3. CASE ~ ParseModule
      <4>1. module' = module
        BY <1>2, <3>3 DEF Parse, ParseTypedef, ParseAlias, OpenImport, CloseImport, ParseRequest,
           ParseTask, ParsePoster, EndOfFile, Element
      <4>2. pc' # "parse" => module # NoModule
        BY <1>2, <3>1, <3>3 DEF Parse, ParseTypedef, ParseAlias, OpenImport, CloseImport,
           ParseRequest, ParseTask, ParsePoster, EndOfFile, Element
      <4> QED BY <2>1, <3>1, <4>1, <4>2 DEF RefsInv, SdiDeclared, SdiName, Declaring, NoModule
    <3> QED BY <3>2, <3>3
  <2> QED BY <2>5, <2>6, <2>7, <2>8 DEF RefsInv
<1> QED
  BY <1>1, <1>2

LEMMA ParseKeeps ==
  ASSUME DescInv, RefsInv, Parse
  PROVE  DescInv' /\ RefsInv'
<1>1. DescInv'
  BY ParseModuleKeepsDesc, ParseTypedefKeepsDesc, ParseAliasKeepsDesc, OpenImportKeepsDesc, CloseImportKeepsDesc,
     ParseRequestKeepsDesc, ParseTaskKeepsDesc, ParsePosterKeepsDesc, EndOfFileKeepsDesc DEF Parse
<1> QED
  BY <1>1, ParseKeepsRefs

\* The steps of the generators, and the ends of a run.
Generating == {"gen", "error", "endian", "print", "xml", "scan", "posterLib", "msg", "cntrl", "exec",
           "module", "test", "init", "prs", "tcl", "end"}

LEMMA GenerateIs ==
  ASSUME Generate
  PROVE  /\ UNCHANGED <<parsing, tables, k, warned, resolved, options>>
         /\ pc \in Generating /\ pc' \in Generating \cup {"undefined", "crash", "refused", "done"}
         /\ pc' = "undefined" => freed # {} \/ Endless
BY DEF Generate, TypeGen, TypeGenFreed, ErrorGen, EndianGen, PrintGen, PrintXMLGen, ScanGen,
       ConvGen, Write, PosterLibGen, MsgLibGen, AfterMsg, MsgLibGenEndless, CntrlTaskGen,
       ExecTaskGen, ModuleInitGen, TestGen, TestGenCrash, InitGen, OpenprsGen, TclGen,
       SkipBinding, Finish, Stop, Generating

LEMMA GenerateKeeps ==
  ASSUME DescInv, RefsInv, Generate
  PROVE  DescInv' /\ RefsInv'
<1>1. k' \in Nat \ {0} /\ UNCHANGED <<parsing, tables, warned, inputs, freed>>
  BY GenerateIs DEF resolved, DescInv, ResolveTypes
<1>2. pc \notin Early /\ pc' \notin Early
  BY GenerateIs DEF Early, Generating
<1> QED
  BY <1>1, <1>2, SameKeeps DEF Early, Declaring

LEMMA InitKeeps ==
  ASSUME Init
  PROVE  DescInv /\ RefsInv
<1>1. ParseTypes /\ ListTypes /\ ResolveTypes /\ TagsKnown /\ FieldsKnown
  <2>1. file \in Seq(Declarations)
    BY FilesAssumption DEF Init, GInit
  <2>2. ParseTypes
    BY <2>1 DEF Init, GInit, ParseTypes
  <2>3. DOMAIN <<>> = {}
    OBVIOUS
  <2>4. ListTypes /\ TagsKnown
    <3>1. outer = <<>> /\ typedefs = <<>> /\ group = ""
      BY DEF Init, GInit, None
    <3>2. ListTypes
      <4>1. <<>> \in Seq(Typedefs)
        OBVIOUS
      <4> QED BY <3>1, <4>1 DEF ListTypes
    <3>3. TagsKnown
      <4>1. DOMAIN outer = {} /\ DOMAIN typedefs = {}
        BY <2>3, <3>1
      <4> QED BY <3>1, <4>1 DEF TagsKnown
    <3> QED BY <3>2, <3>3
  <2>5. ResolveTypes
    <3>1. inputs = <<>> /\ k = 1 /\ warned = FALSE
      BY DEF Init, GInit
    <3>2. inputs \in Seq(TypeObjects) /\ k \in Nat \ {0}
      BY <3>1
    <3>3. warned \in BOOLEAN
      BY <3>1
    <3> QED BY <3>2, <3>3 DEF ResolveTypes
  <2>6. FieldsKnown
    <3>1. DOMAIN types = {}
      BY <2>3 DEF Init, GInit
    <3> QED BY <3>1 DEF FieldsKnown
  <2> QED BY <2>2, <2>4, <2>5, <2>6
<1>2. TableTypes
  <2>1. module \in [name : Words, number : Nat, internal_data : Words]
    BY GenfileAssumption DEF Init, GInit, NoModule
  <2> QED BY <2>1 DEF Init, GInit, TableTypes
<1>3. RefsInv
  <2>1. DOMAIN inputs = {} /\ DOMAIN posters = {} /\ pc = "parse" /\ freed = {} /\ group = ""
    <3>1. inputs = <<>> /\ posters = <<>> /\ pc = "parse" /\ freed = {} /\ group = ""
      BY DEF Init, GInit, None
    <3>2. DOMAIN <<>> = {}
      OBVIOUS
    <3> QED BY <3>1, <3>2
  <2>2. SdiDeclared
    BY <2>1 DEF Init, GInit, SdiDeclared, Declaring
  <2> QED BY <2>1, <2>2 DEF RefsInv, SdiKnown, Early, InputsKnown, PostersKnown, FreedWarned
<1> QED
  BY <1>1, <1>2, <1>3 DEF DescInv

LEMMA NextKeeps ==
  ASSUME DescInv, RefsInv, [Next]_cvars
  PROVE  DescInv' /\ RefsInv'
<1>1. CASE Next
  BY <1>1, ParseKeeps, ResolveKeeps, GenerateKeeps DEF Next
<1>2. CASE UNCHANGED cvars
  <2>1. k' \in Nat \ {0} /\ UNCHANGED <<parsing, tables, warned, inputs, freed, pc>>
    BY <1>2 DEF cvars, gvars, resolved, DescInv, ResolveTypes
  <2> QED BY <2>1, SameKeeps
<1> QED
  BY <1>1, <1>2

\* Whatever the .gen file declares, if it has no alias of a later name and none that is
\* the SDI, every name in the tables genom builds from it is a word of the file, every
\* tag that of a structure it has declared, and every member of a structure or of a
\* poster has a type that is known, or genom warned of it: the parser and the
\* resolution (parser.y, genom.c) leave no dangling index.  The objects that are freed
\* while members refer to them are those of names genom warned of, and of aliases.
THEOREM DescInvariant == Spec => [](DescInv /\ RefsInv)
<1>1. Init => DescInv /\ RefsInv
  BY InitKeeps
<1>2. DescInv /\ RefsInv /\ [Next]_cvars => DescInv' /\ RefsInv'
  BY NextKeeps
<1> QED
  BY <1>1, <1>2, PTL DEF Spec

-----------------------------------------------------------------------------
(* Freed type objects *)

\* The run is undefined only when an object was freed, or a structure holds itself.
UndefinedIs == pc = "undefined" => freed # {} \/ Endless

LEMMA EndlessSame ==
  ASSUME UNCHANGED <<zones, requetes>>
  PROVE  Endless' = Endless
BY DEF Endless, ALL

LEMMA ResolveUndefined ==
  ASSUME DescInv, RefsInv, Resolve, pc' = "undefined"
  PROVE  freed' # {}
<1>1. CASE ResolveUse
  <2>1. module.internal_data \in DOMAIN types /\ pc = "uses" /\ k <= Len(Uses)
    BY <1>1 DEF ResolveUse, RefsInv, SdiKnown, Early
  <2> DEFINE p == Uses[k][2]
             f == Fate(p, FALSE)
  <2>2. CASE Uses[k][1] = "type"
    <3>1. RegisterInput(Uses[k][2]) /\ UNCHANGED freed /\ Uses[k][2] \in Words
      BY <1>1, <2>1, <2>2, UseIs DEF ResolveUse
    <3> QED BY <2>1, <3>1, RegisteredInput DEF RefsInv
  <2>3. CASE Uses[k][1] # "type"
    <3>1. p \in Path /\ p # <<>>
      BY <2>1, <2>3, UseIs
    <3>2. /\ IF f \in {"exit", "undefined"} THEN pc' = f /\ UNCHANGED k ELSE Next1
          /\ freed' = IF f = "late" THEN freed \cup Sharing(SdiRef(p)) ELSE freed
      BY <1>1, <2>3 DEF ResolveUse, Replaced
    <3>3. f = "undefined" => freed # {}
      BY <2>1, <3>1, FateIs
    <3> HIDE DEF f, p
    <3> QED BY <2>1, <3>2, <3>3 DEF Next1
  <2> QED BY <2>2, <2>3
<1>2. CASE ResolvePoster
  <2>1. \/ Stop("exit")
        \/ Stop("undefined") /\ freed # {}
        \/ Next1
    BY <1>2, ResolvePosterCases
  <2> QED BY <1>2, <2>1 DEF Stop, Next1, ResolvePoster, resolved
<1>3. CASE ResolveTaskInput
  <2>1. RegisterInput(TaskInputs[k]) /\ UNCHANGED freed /\ pc = "inputs" /\ k <= Len(TaskInputs)
    BY <1>3 DEF ResolveTaskInput
  <2>2. TaskInputs[k] \in Words
    <3>1. TaskInputs \in Seq(Words)
      BY TaskInputsIs DEF DescInv
    <3> QED BY <2>1, <3>1 DEF DescInv, ResolveTypes
  <2> QED BY <2>1, <2>2, RegisteredInput DEF RefsInv
<1>4. CASE ~ ResolveUse /\ ~ ResolvePoster /\ ~ ResolveTaskInput
  BY <1>4 DEF Resolve, ResolveRequests, ResolveSdi, UsesResolved, PostersResolved,
       AddArrays, ResolveTasks, ConstruitIncludeList, Go, Stop
<1> QED
  BY <1>1, <1>2, <1>3, <1>4

LEMMA ParseUndefined ==
  ASSUME Parse
  PROVE  pc' # "undefined"
BY DEF Parse, ParseModule, ParseTypedef, ParseAlias, OpenImport, CloseImport, ParseRequest, ParseTask,
       ParsePoster, EndOfFile, Element, Is, Stop

LEMMA UndefinedKept ==
  ASSUME DescInv, RefsInv, UndefinedIs, [Next]_cvars
  PROVE  UndefinedIs'
<1>1. CASE Generate
  BY <1>1, GenerateIs, EndlessSame DEF UndefinedIs, resolved, tables
<1>2. CASE UNCHANGED cvars
  BY <1>2, EndlessSame DEF UndefinedIs, cvars, gvars, resolved, tables
<1> QED
  BY <1>1, <1>2, ResolveUndefined, ParseUndefined DEF Next, UndefinedIs

\* A member of a type refers to a freed object, which genom would read next, only once
\* genom has warned of an unknown type or where the type is an alias, and the run is
\* undefined for no other reason but a reentrant request on the whole SDI
\* (trouve_sdi_ref in genom.c, typeGen.c).
THEOREM FreedIsWarnedHolds == Spec => []FreedIsWarned
<1> DEFINE I == DescInv /\ RefsInv /\ UndefinedIs
<1>1. Init => I
  BY InitKeeps DEF Init, GInit, UndefinedIs
<1>2. I /\ [Next]_cvars => I'
  BY NextKeeps, UndefinedKept
<1>3. I => FreedIsWarned
  BY DEF RefsInv, FreedWarned, UndefinedIs, FreedIsWarned
<1> QED
  BY <1>1, <1>2, <1>3, PTL DEF Spec

-----------------------------------------------------------------------------
(* The operators of the model as functions of the tables they read: they keep *)
(* their value as long as those do.                                          *)

WalkIn(tys, sdi, path) ==
  LET step(t, name) ==
        LET i == SelectInSeq(IF t.def = "struct" THEN tys[t.id].members ELSE <<>>,
                             LAMBDA m : m.name = name)
        IN IF i = 0 THEN <<>> ELSE <<t.id, i>>
      w[j \in 1 .. Len(path)] ==
        IF j = 1 THEN step(StructType(sdi), path[1])
        ELSE IF w[j - 1] = <<>> THEN <<>>
        ELSE step(tys[w[j - 1][1]].members[w[j - 1][2]].type, path[j])
  IN w

UsesIn(rs) ==
  LET of(p) == IF p = <<>> THEN <<>> ELSE << <<"sdi", p>> >> IN
  FlattenSeq([i \in DOMAIN rs |->
    LET s == rs[i].str IN
    of(s.input) \o of(s.output) \o [j \in DOMAIN s.posters |-> <<"type", s.posters[j]>>]])

TrouveIn(tds, tys, n) ==
  LET i == SelectInSeq(tds, LAMBDA t : t.name = n) IN
  IF i # 0 THEN tds[i].type ELSE IF n \in DOMAIN tys THEN StructType(n) ELSE NoType

AliasIn(f, n) == f[SelectInSeq(f, LAMBDA d : d.kind = "alias" /\ d.name = n)].of

TrouveOfIn(tds, tys, f, t) ==
  IF t.def = "name" THEN TrouveIn(tds, tys, t.id)
  ELSE IF t.def = "alias" THEN TrouveIn(tds, tys, AliasIn(f, t.id))
  ELSE t

LeavesIn(tys, type) ==
  LET of[t \in DOMAIN tys] ==
        FoldLeft(LAMBDA s, m :
          s \o (IF m.type.def = "base" THEN <<m.type.id>>
                ELSE IF m.type.def = "struct" THEN of[m.type.id] ELSE <<"?">>),
          <<>>, tys[t].members)
  IN IF type.def = "base" THEN <<type.id>> ELSE IF type.def = "struct" THEN of[type.id] ELSE <<"?">>

ReadTables ==
  /\ \A path : Walk(path) = WalkIn(types, module.internal_data, path)
  /\ Uses = UsesIn(requetes)
  /\ \A n : TrouveType(n) = TrouveIn(typedefs, types, n)
  /\ \A t : TrouveOf(t) = TrouveOfIn(typedefs, types, file, t)
  /\ \A t : Leaves(t) = LeavesIn(types, t)

LEMMA ReadTablesNow == ReadTables
<1>1. \A path : Walk(path) = WalkIn(types, module.internal_data, path)
  BY DEF Walk, WalkIn, SdiType, Members
<1>2. Uses = UsesIn(requetes)
  BY DEF Uses, UsesIn
<1>3. \A n : TrouveType(n) = TrouveIn(typedefs, types, n)
  BY DEF TrouveType, TrouveIn
<1>4. \A t : Leaves(t) = LeavesIn(types, t)
  BY DEF Leaves, LeavesIn
<1>5. \A t : TrouveOf(t) = TrouveOfIn(typedefs, types, file, t)
  <2>1. \A n : AliasOf(n) = AliasIn(file, n)
    BY DEF AliasOf, AliasIn
  <2> QED BY <1>3, <2>1 DEF TrouveOf, TrouveOfIn
<1> QED
  BY <1>1, <1>2, <1>3, <1>4, <1>5 DEF ReadTables

LEMMA ReadTablesNext == ReadTables'
BY ReadTablesNow, PTL

LEMMA WalkSame ==
  ASSUME UNCHANGED <<types, module>>, NEW path
  PROVE  SdiRef(path)' = SdiRef(path) /\ Leads(path)' = Leads(path)
<1>1. Walk(path)' = Walk(path)
  BY ReadTablesNow, ReadTablesNext DEF ReadTables
<1>2. SdiRef(path)' = SdiRef(path)
  BY <1>1 DEF SdiRef
<1>3. Refs' = Refs
  BY DEF Refs
<1> QED
  BY <1>2, <1>3 DEF Leads, ALL

LEMMA UsesSame ==
  ASSUME UNCHANGED requetes
  PROVE  Uses' = Uses
BY ReadTablesNow, ReadTablesNext DEF ReadTables

-----------------------------------------------------------------------------
(* The inputs and the outputs of the requests lead to members of the SDI *)

RqstsLead == \A i \in DOMAIN requetes :
  /\ requetes[i].str.input # <<>> => Leads(requetes[i].str.input)
  /\ requetes[i].str.output # <<>> => Leads(requetes[i].str.output)

UsesLead ==
  /\ pc = "uses" => \A j \in 1 .. Len(Uses) : j < k /\ Uses[j][1] = "sdi" => Leads(Uses[j][2])
  /\ pc \notin Early \cup {"uses", "undefined", "crash"} => RqstsLead

LEMMA UsesLeadSame ==
  ASSUME UsesLead, UNCHANGED <<types, module, requetes>>,
         pc' = "uses" => pc = "uses" /\ k' = k,
         pc' \notin Early \cup {"uses", "undefined", "crash"} => pc \notin Early \cup {"uses", "undefined", "crash"}
  PROVE  UsesLead'
<1>1. Uses' = Uses /\ \A p : Leads(p)' = Leads(p)
  BY WalkSame, UsesSame
<1>2. RqstsLead => RqstsLead'
  BY <1>1 DEF RqstsLead
<1> QED
  BY <1>1, <1>2 DEF UsesLead

LEMMA UsesLeadKept ==
  ASSUME DescInv, RefsInv, UsesLead, [Next]_cvars
  PROVE  UsesLead'
<1>1. CASE Parse
  <2>1. pc' \in {"parse", "requests", "exit"}
    BY <1>1 DEF Parse, ParseModule, ParseTypedef, ParseAlias, OpenImport, CloseImport, ParseRequest,
         ParseTask, ParsePoster, EndOfFile, Element, Is, Stop
  <2> QED BY <2>1 DEF UsesLead, Early
<1>2. CASE ResolveRequests
  BY <1>2 DEF ResolveRequests, Go, UsesLead, Early
<1>3. CASE ResolveSdi
  <2>1. pc' = "exit" \/ (pc' = "uses" /\ k' = 1)
    BY <1>3 DEF ResolveSdi, Stop, Go
  <2> QED BY <2>1 DEF UsesLead, Early
<1>4. CASE ResolveUse
  <2>0. UNCHANGED <<types, module, requetes>> /\ pc = "uses" /\ k <= Len(Uses)
        /\ module.internal_data \in DOMAIN types
    BY <1>4 DEF ResolveUse, tables, RefsInv, SdiKnown, Early
  <2>1. Uses' = Uses /\ \A p : Leads(p)' = Leads(p)
    BY <2>0, WalkSame, UsesSame
  <2> DEFINE p == Uses[k][2]
             f == Fate(p, FALSE)
  <2>2. pc' \in Early \cup {"undefined", "crash"} \/ (Next1 /\ (Uses[k][1] # "type" => f \in {"found", "late"}))
    <3>1. CASE Uses[k][1] = "type"
      BY <1>4, <3>1 DEF ResolveUse, RegisterInput, Early
    <3>2. CASE Uses[k][1] # "type"
      <4>1. p \in Path /\ p # <<>>
        BY <2>0, <3>2, UseIs
      <4>2. IF f \in {"exit", "undefined"} THEN pc' = f /\ UNCHANGED k ELSE Next1
        BY <1>4, <3>2 DEF ResolveUse
      <4>3. f \in {"found", "late", "exit", "undefined"}
        BY <2>0, <4>1, FateIs
      <4> HIDE DEF f, p
      <4> QED BY <4>2, <4>3 DEF Early
    <3> QED BY <3>1, <3>2
  <2>3. CASE pc' \in Early \cup {"undefined", "crash"}
    BY <2>3 DEF UsesLead, Early
  <2>4. CASE Next1 /\ (Uses[k][1] # "type" => f \in {"found", "late"})
    <3>1. Uses[k][1] = "sdi" => Leads(p)
      <4> SUFFICES ASSUME Uses[k][1] = "sdi" PROVE Leads(p)
        OBVIOUS
      <4>1. p \in Path /\ p # <<>>
        BY <2>0, UseIs
      <4> QED BY <2>0, <2>4, <4>1, FateIs
    <3>2. pc' = "uses" /\ k' = k + 1 /\ k \in Nat
      BY <2>0, <2>4 DEF Next1, DescInv, ResolveTypes
    <3>3. Uses \in Seq(UseSet)
      BY UsesIs DEF DescInv
    <3>4. \A j \in 1 .. Len(Uses) : j < k' => j < k \/ j = k
      BY <3>2, <3>3
    <3>5. \A j \in 1 .. Len(Uses) : j < k' /\ Uses[j][1] = "sdi" => Leads(Uses[j][2])
      BY <2>0, <3>1, <3>4 DEF UsesLead
    <3> QED BY <2>1, <3>2, <3>5 DEF UsesLead
  <2> QED BY <2>2, <2>3, <2>4
<1>5. CASE UsesResolved
  <2>1. pc = "uses" /\ k > Len(Uses) /\ pc' = "posters" /\ UNCHANGED <<types, module, requetes>>
    BY <1>5 DEF UsesResolved, Go, tables
  <2>2. Uses \in Seq(UseSet)
    BY UsesIs DEF DescInv
  <2>3. ASSUME NEW p, <<"sdi", p>> \in Range(Uses) PROVE Leads(p)
    <3>1. PICK j \in DOMAIN Uses : Uses[j] = <<"sdi", p>>
      BY <2>3 DEF Range
    <3>2. j \in 1 .. Len(Uses) /\ j < k
      BY <2>1, <2>2 DEF DescInv, ResolveTypes
    <3> QED BY <2>1, <3>1, <3>2 DEF UsesLead
  <2>4. RqstsLead
    BY <2>3, UsesIs DEF DescInv, RqstsLead
  <2>5. RqstsLead'
    <3>1. \A p : Leads(p)' = Leads(p)
      BY <2>1, WalkSame
    <3> QED BY <2>1, <2>4, <3>1 DEF RqstsLead
  <2> QED BY <2>1, <2>5 DEF UsesLead
<1>6. CASE ResolvePoster \/ PostersResolved \/ ResolveTaskInput \/ AddArrays \/ ResolveTasks
           \/ ConstruitIncludeList \/ Generate \/ UNCHANGED cvars
  <2>1. UNCHANGED <<types, module, requetes>>
    BY <1>6, GenerateIs DEF ResolvePoster, PostersResolved, ResolveTaskInput, AddArrays,
       ResolveTasks, ConstruitIncludeList, Stop, tables, cvars, gvars
  <2>2. UNCHANGED <<pc, k>> \/ (pc' # "uses" /\ pc \notin Early \cup {"uses", "undefined", "crash"})
    <3>1. CASE ResolvePoster
      BY <3>1, ResolvePosterCases DEF ResolvePoster, Stop, Next1, Early
    <3>2. CASE Generate
      BY <3>2, GenerateIs DEF Early, Generating
    <3>3. CASE UNCHANGED cvars
      BY <3>3 DEF cvars, gvars
    <3>4. CASE PostersResolved \/ ResolveTaskInput \/ AddArrays \/ ResolveTasks
               \/ ConstruitIncludeList
      BY <3>4 DEF PostersResolved, ResolveTaskInput, AddArrays, ResolveTasks,
         ConstruitIncludeList, Stop, Go, Next1, RegisterInput, Early
    <3> QED BY <1>6, <3>1, <3>2, <3>3, <3>4
  <2> QED BY <2>1, <2>2, UsesLeadSame
<1> QED
  BY <1>1, <1>2, <1>3, <1>4, <1>5, <1>6 DEF Next, Resolve

-----------------------------------------------------------------------------
(* The functions the files call *)

Callable(t) ==
  \/ t \in TypeObjects /\ t.def # "base" /\ Known(t)
  \/ \E p \in Range(posters) : t = PosterType(p)

LEMMA MemberTypes ==
  ASSUME DescInv
  PROVE  \A t \in DOMAIN types : \A m \in Range(types[t].members) :
           m.type \in TypeObjects /\ Known(m.type)
<1> TAKE t \in DOMAIN types
<1> TAKE m \in Range(types[t].members)
<1>1. types[t] \in Structs
  BY DEF DescInv, TableTypes
<1>2. types[t].members \in Seq(Fields)
  BY <1>1 DEF Structs
<1>3. PICK i \in DOMAIN types[t].members : m = types[t].members[i]
  BY DEF Range
<1>4. m \in Fields
  BY <1>2, <1>3
<1> QED
  BY <1>3, <1>4 DEF Fields, DescInv, FieldsKnown

LEMMA PosterTypes ==
  ASSUME DescInv, RefsInv
  PROVE  \A p \in Range(posters) : \A m \in Range(p.members) :
           m.type \in TypeObjects /\ Known(m.type)
<1> TAKE p \in Range(posters)
<1> TAKE m \in Range(p.members)
<1>1. PICK i \in DOMAIN posters : p = posters[i]
  BY DEF Range
<1>2. p \in Posters
  BY <1>1 DEF DescInv, TableTypes
<1>3. p.members \in Seq(Fields)
  BY <1>2 DEF Posters
<1>4. PICK j \in DOMAIN p.members : m = p.members[j]
  BY DEF Range
<1>5. m \in Fields
  BY <1>3, <1>4
<1> QED
  BY <1>1, <1>4, <1>5 DEF Fields, RefsInv, PostersKnown

LEMMA CalledIs ==
  ASSUME DescInv, RefsInv
  PROVE  \A t \in Called : Callable(t)
<1> TAKE t \in Called
<1>1. Compound(t)
      /\ \/ \E u \in DOMAIN types : \E m \in Range(types[u].members) : t = m.type
         \/ \E p \in Range(posters) : \E m \in Range(p.members) : t = m.type
         \/ \E i \in DOMAIN typedefs : t = typedefs[i].type
  <2>1. \A d \in OwnTypedefs : \E i \in DOMAIN typedefs : d = typedefs[i]
    BY DEF OwnTypedefs, Range
  <2>2. Own \subseteq DOMAIN types
    BY DEF Own
  <2>3. Compound(t) /\ t \in (UNION ({{m.type : m \in Range(types[u].members)} : u \in Own}
                                     \cup {{m.type : m \in Range(p.members)} : p \in Range(posters)}))
                              \cup {d.type : d \in OwnTypedefs}
    BY DEF Called
  <2>4. CASE t \in {d.type : d \in OwnTypedefs}
    BY <2>1, <2>3, <2>4
  <2>5. CASE t \notin {d.type : d \in OwnTypedefs}
    <3>1. PICK S \in {{m.type : m \in Range(types[u].members)} : u \in Own}
                     \cup {{m.type : m \in Range(p.members)} : p \in Range(posters)} : t \in S
      BY <2>3, <2>5
    <3> QED BY <2>2, <2>3, <3>1
  <2> QED BY <2>4, <2>5
<1>2. ASSUME NEW i \in DOMAIN typedefs
      PROVE  typedefs[i].type \in TypeObjects /\ Known(typedefs[i].type)
  <2>1. typedefs[i] \in Typedefs /\ EntryKnown(typedefs[i])
    BY DEF DescInv, TableTypes, TagsKnown
  <2> QED BY <2>1 DEF Typedefs, EntryKnown, Known
<1> QED
  BY <1>1, <1>2, MemberTypes, PosterTypes DEF Compound, Callable

LEMMA ReadTypesIs ==
  ASSUME DescInv, RefsInv
  PROVE  \A t \in ReadTypes : Compound(t) => Callable(t)
<1> TAKE t \in ReadTypes
<1>1. \/ \E p \in Range(posters) : t = PosterType(p)
      \/ \E p \in Range(posters) : \E m \in Range(p.members) : t = m.type
  BY DEF ReadTypes
<1> QED
  BY <1>1, PosterTypes DEF Compound, Callable

LEMMA TypeAtIs ==
  ASSUME DescInv, module.internal_data \in DOMAIN types, NEW path, Leads(path)
  PROVE  TypeAt(path) \in TypeObjects /\ Known(TypeAt(path))
<1>1. CASE path = ALL
  <2>1. TypeAt(path) = SdiType /\ module.internal_data \in Words
    BY <1>1 DEF TypeAt, DescInv, TableTypes
  <2> QED BY <2>1 DEF SdiType, StructType, TypeObjects, Known
<1>2. CASE path # ALL
  <2>1. SdiRef(path) \in Refs
    BY <1>2 DEF Leads
  <2>2. Member(SdiRef(path)) \in Fields /\ Known(Member(SdiRef(path)).type)
    BY <2>1, RefIs DEF DescInv
  <2>3. TypeAt(path) = Member(SdiRef(path)).type
    BY <1>2 DEF TypeAt
  <2> QED BY <2>2, <2>3 DEF Fields
<1> QED
  BY <1>1, <1>2

\* The paths of the requests: what they name has a type.
LEMMA RqstTypes ==
  ASSUME DescInv, RefsInv, UsesLead, pc \in Generating
  PROVE  \A i \in DOMAIN requetes : \A p \in {requetes[i].str.input, requetes[i].str.output} :
           p # <<>> => TypeAt(p) \in TypeObjects /\ Known(TypeAt(p))
<1>1. RqstsLead /\ module.internal_data \in DOMAIN types
  BY DEF UsesLead, Early, Generating, RefsInv, SdiKnown
<1> QED
  BY <1>1, TypeAtIs DEF RqstsLead

LEMMA CallsAre ==
  ASSUME NEW kinds \in SUBSET Kinds, NEW S, \A t \in S : Compound(t) => Callable(t)
  PROVE  \A c \in Calls(kinds, S) : c[1] \in kinds /\ Callable(c[2])
BY DEF Calls

LEMMA TestCallsAre ==
  ASSUME DescInv, RefsInv, UsesLead, pc \in Generating
  PROVE  \A c \in TestCalls : c[1] \in {"scan", "print"} /\ Callable(c[2])
<1> DEFINE given(f) == {TypeAt(p) : p \in {r.str[f] : r \in Range(requetes)} \ {<<>>}}
<1>1. ASSUME NEW f \in {"input", "output"}, NEW t \in given(f), Compound(t) PROVE Callable(t)
  <2>1. PICK i \in DOMAIN requetes : requetes[i].str[f] # <<>> /\ t = TypeAt(requetes[i].str[f])
    BY DEF Range
  <2>2. CASE f = "input"
    BY <1>1, <2>1, <2>2, RqstTypes DEF Callable, Compound
  <2>3. CASE f = "output"
    BY <1>1, <2>1, <2>3, RqstTypes DEF Callable, Compound
  <2> QED BY <2>2, <2>3
<1>2. {"scan"} \in SUBSET Kinds /\ {"print"} \in SUBSET Kinds
  BY DEF Kinds
<1>3. TestCalls = Calls({"scan"}, given("input")) \cup Calls({"print"}, given("output"))
  BY DEF TestCalls
<1> HIDE DEF given
<1> QED
  BY <1>1, <1>2, <1>3, CallsAre

LEMMA PrsTermsAre ==
  ASSUME DescInv, RefsInv, UsesLead, pc \in Generating
  PROVE  \A t \in PrsTerms : Compound(t) => Callable(t)
<1> SUFFICES ASSUME NEW t \in PrsTerms, Compound(t) PROVE Callable(t)
  OBVIOUS
<1>1. CASE t \in ReadTypes
  BY <1>1, ReadTypesIs
<1>2. CASE t \notin ReadTypes
  <2>1. PICK i \in DOMAIN requetes :
          \E p \in {requetes[i].str.input, requetes[i].str.output} : p # <<>> /\ t = TypeAt(p)
    BY <1>2 DEF PrsTerms, Range
  <2> QED BY <2>1, RqstTypes DEF Callable, Compound
<1> QED
  BY <1>1, <1>2

\* The steps after which the functions of each kind are written.
AfterScan == {"posterLib", "msg", "cntrl", "exec", "module", "test", "init", "prs", "tcl", "end",
              "refused", "done"}
Written(kind) ==
  AfterScan \cup (IF kind = "scan" THEN {} ELSE {"scan"})
    \cup (IF kind \in {"scan", "xml"} THEN {} ELSE {"xml"})
    \cup (IF kind \in {"scan", "xml", "print"} THEN {} ELSE {"print"})

OutFields == {"conv", "calls", "type", "error", "poster", "msg", "cntrl", "exec", "init", "test",
              "tcl", "module", "atoms"}
OutShape == DOMAIN out = OutFields /\ DOMAIN out.conv = Kinds

Resolving == Early \cup {"uses", "posters", "inputs", "tasks", "includes"}

CallsInv ==
  /\ OutShape
  /\ pc \in Resolving => out.calls = {}
  /\ \A kind \in {"endian", "print", "xml", "scan"} :
       pc \in Written(kind) => out.conv[kind] = Generated
  /\ \A c \in out.calls : /\ c[1] \in Kinds /\ Callable(c[2])
                          /\ c[1] = "prs" => out.conv["prs"] = PrsFunctions

LEMMA FunctionsSame ==
  ASSUME UNCHANGED <<tables, warned>>
  PROVE  /\ Generated' = Generated /\ PrsFunctions' = PrsFunctions
         /\ \A t : Callable(t)' = Callable(t)
<1>3. UNCHANGED <<types, typedefs, posters, module>>
  BY DEF tables
<1>1. Generated' = Generated
  BY <1>3 DEF Generated, Own, OwnTypedefs, PosterType, StructType
<1>2. SdiType' = SdiType
  BY <1>3 DEF SdiType, StructType
<1>4. PrsFunctions' = PrsFunctions
  BY <1>1, <1>2, <1>3 DEF PrsFunctions
<1>5. \A t : Callable(t)' = Callable(t)
  BY <1>3 DEF Callable, Known, TypeObjects, PosterType
<1> QED
  BY <1>1, <1>4, <1>5

\* A generator that writes neither functions nor calls.
LEMMA CallsSame ==
  ASSUME CallsInv, Generate, OutShape', UNCHANGED <<out.conv, out.calls>>,
         \A kind \in {"endian", "print", "xml", "scan"} : pc' \in Written(kind) => pc \in Written(kind)
  PROVE  CallsInv'
<1>1. UNCHANGED <<tables, warned>> /\ pc' \notin Resolving
  BY GenerateIs DEF Generating, Resolving, Early
<1>2. Generated' = Generated /\ PrsFunctions' = PrsFunctions /\ \A t : Callable(t)' = Callable(t)
  BY <1>1, FunctionsSame
<1>3. \A kind : Written(kind)' = Written(kind)
  BY DEF Written, AfterScan
<1> QED
  BY <1>1, <1>2, <1>3 DEF CallsInv

\* A generator that writes calls.
LEMMA MoreCalls ==
  ASSUME CallsInv, Generate, OutShape', NEW C, out'.calls = out.calls \cup C,
         \A kind \in {"endian", "print", "xml", "scan"} :
           pc' \in Written(kind) => out'.conv[kind] = Generated,
         \A c \in C : c[1] \in Kinds /\ Callable(c[2]),
         \/ out'.conv["prs"] = out.conv["prs"] /\ \A c \in C : c[1] # "prs"
         \/ out'.conv["prs"] = PrsFunctions
  PROVE  CallsInv'
<1>1. UNCHANGED <<tables, warned>> /\ pc' \notin Resolving
  BY GenerateIs DEF Generating, Resolving, Early
<1>2. Generated' = Generated /\ PrsFunctions' = PrsFunctions /\ \A t : Callable(t)' = Callable(t)
  BY <1>1, FunctionsSame
<1> QED
  BY <1>1, <1>2 DEF CallsInv

LEMMA ConvGenKeeps ==
  ASSUME DescInv, RefsInv, CallsInv, Generate,
         NEW step, NEW kind \in {"endian", "print", "xml", "scan"}, NEW next,
         ConvGen(step, kind, next),
         <<step, kind, next>> \in {<<"endian", "endian", "print">>, <<"print", "print", "xml">>,
                                   <<"xml", "xml", "scan">>, <<"scan", "scan", "posterLib">>}
  PROVE  CallsInv'
<1>1. pc = step /\ pc' = next
      /\ out' = [out EXCEPT !.conv[kind] = Generated, !.calls = @ \cup ({kind} \X Called)]
  BY DEF ConvGen
<1>2. OutShape /\ kind \in Kinds
  BY DEF CallsInv, Kinds
<1>3. /\ DOMAIN out' = OutFields /\ out'.calls = out.calls \cup ({kind} \X Called)
      /\ out'.conv = [out.conv EXCEPT ![kind] = Generated]
  BY <1>1, <1>2 DEF OutShape, OutFields
<1>4. OutShape'
  BY <1>2, <1>3 DEF OutShape, OutFields, Kinds
<1>5. \A i \in Kinds : out'.conv[i] = IF i = kind THEN Generated ELSE out.conv[i]
  BY <1>2, <1>3 DEF OutShape
<1>6. \A i \in {"endian", "print", "xml", "scan"} : pc' \in Written(i) => (i = kind \/ pc \in Written(i))
  BY <1>1 DEF Written, AfterScan
<1>7. \A i \in {"endian", "print", "xml", "scan"} : pc' \in Written(i) => out'.conv[i] = Generated
  BY <1>5, <1>6 DEF CallsInv, Kinds
<1>8. \A c \in {kind} \X Called : c[1] \in Kinds /\ Callable(c[2]) /\ c[1] # "prs"
  BY <1>2, CalledIs
<1>9. out'.conv["prs"] = out.conv["prs"]
  BY <1>5 DEF Kinds
<1> HIDE DEF CallsInv
<1> QED
  BY <1>3, <1>4, <1>7, <1>8, <1>9, MoreCalls

LEMMA WriteKeeps ==
  ASSUME CallsInv, Generate, NEW f \in OutFields \ {"conv", "calls"}, NEW content,
         out' = out \/ out' = [out EXCEPT ![f] = content],
         \A kind \in {"endian", "print", "xml", "scan"} : pc' \in Written(kind) => pc \in Written(kind)
  PROVE  CallsInv'
<1>1. OutShape
  BY DEF CallsInv
<1>2. DOMAIN out' = OutFields /\ out'.conv = out.conv /\ out'.calls = out.calls
  BY <1>1 DEF OutShape, OutFields
<1>3. OutShape'
  BY <1>1, <1>2 DEF OutShape, OutFields, Kinds
<1> QED
  BY <1>2, <1>3, CallsSame

LEMMA PosterLibGenKeeps ==
  ASSUME DescInv, RefsInv, CallsInv, Generate, PosterLibGen
  PROVE  CallsInv'
<1> DEFINE C == Calls({"endian", "print", "xml"}, ReadTypes)
           x == [tasks |-> posterExecTaskNameTab, rqsts |-> posterRequestNameTab]
<1>1. OutShape /\ pc = "posterLib" /\ pc' = "msg"
      /\ out' = [out EXCEPT !.poster = x, !.calls = @ \cup C]
  BY DEF CallsInv, PosterLibGen
<1> HIDE DEF C, x
<1>2. DOMAIN out' = OutFields /\ out'.conv = out.conv /\ out'.calls = out.calls \cup C
  BY <1>1 DEF OutShape, OutFields
<1>3. OutShape'
  BY <1>1, <1>2 DEF OutShape, OutFields, Kinds
<1>4. \A c \in C : c[1] \in Kinds /\ Callable(c[2]) /\ c[1] # "prs"
  <2>1. {"endian", "print", "xml"} \in SUBSET Kinds
    BY DEF Kinds
  <2>2. \A c \in C : c[1] \in {"endian", "print", "xml"} /\ Callable(c[2])
    BY <2>1, ReadTypesIs, CallsAre DEF C
  <2> QED BY <2>2 DEF Kinds
<1>5. \A kind \in {"endian", "print", "xml", "scan"} : pc' \in Written(kind) => out'.conv[kind] = Generated
  BY <1>1, <1>2 DEF CallsInv, Written, AfterScan
<1> QED
  BY <1>2, <1>3, <1>4, <1>5, MoreCalls

LEMMA TestGenKeeps ==
  ASSUME DescInv, RefsInv, UsesLead, CallsInv, Generate, TestGen
  PROVE  CallsInv'
<1> DEFINE C == TestCalls
           x == [i \in DOMAIN requetes |-> TestEntry(requetes[i])]
<1>1. OutShape /\ pc = "test" /\ pc' = "init"
      /\ out' = [out EXCEPT !.test = x, !.calls = @ \cup C]
  BY DEF CallsInv, TestGen
<1> HIDE DEF C, x
<1>2. DOMAIN out' = OutFields /\ out'.conv = out.conv /\ out'.calls = out.calls \cup C
  BY <1>1 DEF OutShape, OutFields
<1>3. OutShape'
  BY <1>1, <1>2 DEF OutShape, OutFields, Kinds
<1>4. \A c \in C : c[1] \in Kinds /\ Callable(c[2]) /\ c[1] # "prs"
  BY <1>1, TestCallsAre DEF C, Kinds, Generating
<1>5. \A kind \in {"endian", "print", "xml", "scan"} : pc' \in Written(kind) => out'.conv[kind] = Generated
  BY <1>1, <1>2 DEF CallsInv, Written, AfterScan
<1> QED
  BY <1>2, <1>3, <1>4, <1>5, MoreCalls

LEMMA FirstInit ==
  ASSUME TableTypes, InitRequests # {}
  PROVE  Min(InitRequests) \in DOMAIN requetes /\ requetes[Min(InitRequests)].str.type = "INIT"
<1>1. InitRequests \in SUBSET Nat
  BY DEF InitRequests, TableTypes
<1>2. Min(InitRequests) \in InitRequests
  BY <1>1, MinIs
<1> QED
  BY <1>2 DEF InitRequests

LEMMA InitGenKeeps ==
  ASSUME DescInv, RefsInv, UsesLead, CallsInv, Generate, InitGen
  PROVE  CallsInv'
<1> DEFINE r == requetes[Min(InitRequests)]
           params == IF InitRequests = {} \/ r.str.input = <<>> THEN <<>>
                     ELSE Leaves(TypeAt(r.str.input))
           C == IF params = <<>> THEN {} ELSE Calls({"print"}, {TypeAt(r.str.input)})
           x == [flag |-> InitRequests # {},
                 num |-> IF InitRequests = {} THEN 0 ELSE r.num, params |-> params]
<1>1. OutShape /\ pc = "init" /\ pc' = "prs"
      /\ out' = [out EXCEPT !.init = x,
                            !.calls = IF params = <<>> THEN @
                                      ELSE @ \cup Calls({"print"}, {TypeAt(r.str.input)})]
  BY DEF CallsInv, InitGen
<1>2. DOMAIN out' = OutFields /\ out'.conv = out.conv /\ out'.calls = out.calls \cup C
  <2>1. C = IF params = <<>> THEN {} ELSE Calls({"print"}, {TypeAt(r.str.input)})
    OBVIOUS
  <2> HIDE DEF C, x, params, r
  <2> QED BY <1>1, <2>1 DEF OutShape, OutFields
<1>3. OutShape'
  <2> HIDE DEF C, x, params, r
  <2> QED BY <1>1, <1>2 DEF OutShape, OutFields, Kinds
<1>4. \A c \in C : c[1] \in Kinds /\ Callable(c[2]) /\ c[1] # "prs"
  <2>1. CASE params = <<>>
    BY <2>1
  <2>2. CASE params # <<>>
    <3>1. InitRequests # {} /\ r.str.input # <<>>
      BY <2>2
    <3>2. Min(InitRequests) \in DOMAIN requetes
      BY <3>1, FirstInit DEF DescInv
    <3>3. TypeAt(r.str.input) \in TypeObjects /\ Known(TypeAt(r.str.input))
      BY <1>1, <3>1, <3>2, RqstTypes DEF Generating
    <3>4. {"print"} \in SUBSET Kinds
      BY DEF Kinds
    <3>5. \A t \in {TypeAt(r.str.input)} : Compound(t) => Callable(t)
      BY <3>3 DEF Compound, Callable
    <3>6. C = Calls({"print"}, {TypeAt(r.str.input)})
      BY <2>2
    <3> HIDE DEF C, r
    <3>7. \A c \in C : c[1] \in {"print"} /\ Callable(c[2])
      BY <3>4, <3>5, <3>6, CallsAre
    <3> QED BY <3>7 DEF Kinds
  <2> QED BY <2>1, <2>2
<1>5. \A kind \in {"endian", "print", "xml", "scan"} : pc' \in Written(kind) => out'.conv[kind] = Generated
  <2> HIDE DEF C, x, params, r
  <2> QED BY <1>1, <1>2 DEF CallsInv, Written, AfterScan
<1> HIDE DEF C
<1> QED
  BY <1>2, <1>3, <1>4, <1>5, MoreCalls

LEMMA OpenprsGenKeeps ==
  ASSUME DescInv, RefsInv, UsesLead, CallsInv, Generate, OpenprsGen
  PROVE  CallsInv'
<1> DEFINE C == Calls({"prs"}, PrsTerms)
<1>1. OutShape /\ pc = "prs" /\ pc' = "tcl"
      /\ out' = [out EXCEPT !.conv["prs"] = PrsFunctions, !.atoms = ReportAtoms,
                            !.calls = @ \cup C]
  BY DEF CallsInv, OpenprsGen
<1> HIDE DEF C
<1>2. /\ DOMAIN out' = OutFields /\ out'.calls = out.calls \cup C
      /\ out'.conv = [out.conv EXCEPT !["prs"] = PrsFunctions]
  BY <1>1 DEF OutShape, OutFields
<1>3. OutShape'
  BY <1>1, <1>2 DEF OutShape, OutFields, Kinds
<1>4. \A c \in C : c[1] \in Kinds /\ Callable(c[2])
  <2>1. {"prs"} \in SUBSET Kinds
    BY DEF Kinds
  <2>2. \A c \in C : c[1] \in {"prs"} /\ Callable(c[2])
    BY <1>1, <2>1, PrsTermsAre, CallsAre DEF C, Generating
  <2> QED BY <2>2 DEF Kinds
<1>5. \A i \in Kinds : out'.conv[i] = IF i = "prs" THEN PrsFunctions ELSE out.conv[i]
  BY <1>1, <1>2 DEF OutShape
<1>6. \A kind \in {"endian", "print", "xml", "scan"} : pc' \in Written(kind) => out'.conv[kind] = Generated
  BY <1>1, <1>5 DEF CallsInv, Written, AfterScan, Kinds
<1>7. out'.conv["prs"] = PrsFunctions
  BY <1>5 DEF Kinds
<1> QED
  BY <1>2, <1>3, <1>4, <1>6, <1>7, MoreCalls

LEMMA GenerateKeepsCalls ==
  ASSUME DescInv, RefsInv, UsesLead, CallsInv, Generate
  PROVE  CallsInv'
<1>1. CASE TypeGen
  <2>1. (\E content : out' = [out EXCEPT !["type"] = content]) /\ pc' = "error"
    BY <1>1 DEF TypeGen, Write
  <2> QED BY <2>1, WriteKeeps DEF Written, AfterScan, OutFields
<1>2. CASE ErrorGen
  <2>1. (\E content : out' = [out EXCEPT !["error"] = content]) /\ pc' = "endian"
    BY <1>2 DEF ErrorGen, Write
  <2> QED BY <2>1, WriteKeeps DEF Written, AfterScan, OutFields
<1>3. CASE EndianGen \/ PrintGen \/ PrintXMLGen \/ ScanGen
  BY <1>3, ConvGenKeeps DEF EndianGen, PrintGen, PrintXMLGen, ScanGen
<1>4. CASE MsgLibGen
  <2>1. (\E content : out' = [out EXCEPT !["msg"] = content]) /\ pc = "msg"
    BY <1>4 DEF MsgLibGen, Write
  <2> QED BY <2>1, WriteKeeps DEF Written, AfterScan, OutFields
<1>5. CASE CntrlTaskGen
  <2>1. (out' = out \/ \E content : out' = [out EXCEPT !["cntrl"] = content]) /\ pc = "cntrl"
    BY <1>5 DEF CntrlTaskGen
  <2> QED BY <2>1, WriteKeeps DEF Written, AfterScan, OutFields
<1>6. CASE ExecTaskGen
  <2>1. (\E content : out' = [out EXCEPT !["exec"] = content]) /\ pc = "exec"
    BY <1>6 DEF ExecTaskGen, Write
  <2> QED BY <2>1, WriteKeeps DEF Written, AfterScan, OutFields
<1>7. CASE ModuleInitGen
  <2>1. (\E content : out' = [out EXCEPT !["module"] = content]) /\ pc = "module"
    BY <1>7 DEF ModuleInitGen, Write
  <2> QED BY <2>1, WriteKeeps DEF Written, AfterScan, OutFields
<1>8. CASE TclGen
  <2>1. (out' = out \/ \E content : out' = [out EXCEPT !["tcl"] = content]) /\ pc = "tcl"
    BY <1>8 DEF TclGen
  <2> QED BY <2>1, WriteKeeps DEF Written, AfterScan, OutFields
<1>9. CASE SkipBinding \/ Finish \/ TypeGenFreed \/ MsgLibGenEndless \/ TestGenCrash
  <2>1. out' = out /\ (pc \in AfterScan \/ pc' = "undefined")
    BY <1>9 DEF SkipBinding, Finish, TypeGenFreed, MsgLibGenEndless, TestGenCrash, Stop, AfterScan
  <2>2. \A kind \in {"endian", "print", "xml", "scan"} :
          pc' \in Written(kind) => pc \in Written(kind)
    BY <2>1 DEF Written, AfterScan
  <2>3. "type" \in OutFields \ {"conv", "calls"}
    BY DEF OutFields
  <2> QED BY <2>1, <2>2, <2>3, WriteKeeps
<1> QED
  BY <1>1, <1>2, <1>3, <1>4, <1>5, <1>6, <1>7, <1>8, <1>9, PosterLibGenKeeps, TestGenKeeps,
     InitGenKeeps, OpenprsGenKeeps DEF Generate

LEMMA ResolvingSteps ==
  ASSUME DescInv, RefsInv, Parse \/ Resolve
  PROVE  pc \in Resolving /\ pc' \in Resolving \cup {"gen", "undefined", "crash"}
<1>1. pc \in Resolving
  BY DEF Parse, ParseModule, ParseTypedef, ParseAlias, OpenImport, CloseImport,
     ParseRequest, ParseTask, ParsePoster, EndOfFile, Is, Resolve, ResolveRequests, ResolveSdi,
     ResolveUse, UsesResolved, ResolvePoster, PostersResolved, ResolveTaskInput, AddArrays,
     ResolveTasks, ConstruitIncludeList, Resolving, Early
<1>2. CASE Parse
  BY <1>2 DEF Parse, ParseModule, ParseTypedef, ParseAlias, OpenImport, CloseImport, ParseRequest,
     ParseTask, ParsePoster, EndOfFile, Element, Is, Stop, Resolving, Early
<1>3. CASE ResolvePoster
  <2>1. Stop("exit") \/ Stop("undefined") \/ UNCHANGED pc
    BY <1>3, ResolvePosterCases DEF Next1
  <2> QED BY <1>1, <2>1 DEF Stop, Resolving, Early
<1>4. CASE Resolve /\ ~ ResolvePoster
  BY <1>1, <1>4 DEF Resolve, ResolveRequests, ResolveSdi, ResolveUse, RegisterInput, Next1,
     UsesResolved, PostersResolved, ResolveTaskInput, AddArrays, ResolveTasks,
     ConstruitIncludeList, Go, Stop, Resolving, Early
<1> QED
  BY <1>1, <1>2, <1>3, <1>4

LEMMA CallsKept ==
  ASSUME DescInv, RefsInv, UsesLead, CallsInv, [Next]_cvars
  PROVE  CallsInv'
<1>1. CASE Parse \/ Resolve
  <2>1. out' = out
    BY <1>1, GenerateIs DEF Next, Parse, ParseModule, ParseTypedef, ParseAlias, OpenImport, CloseImport,
       ParseRequest, ParseTask, ParsePoster, EndOfFile, Is, Resolve, ResolveRequests, ResolveSdi,
       ResolveUse, UsesResolved, ResolvePoster, PostersResolved, ResolveTaskInput, AddArrays,
       ResolveTasks, ConstruitIncludeList, Generating, cvars
  <2>2. pc \in Resolving
    BY <1>1, ResolvingSteps
  <2>3. pc' \in Resolving \cup {"gen", "undefined", "crash"}
    BY <1>1, ResolvingSteps
  <2>4. pc' \notin AfterScan \cup {"print", "xml", "scan"}
    BY <2>3 DEF Resolving, Early, AfterScan
  <2>5. \A kind : pc' \notin Written(kind)
    BY <2>4 DEF Written
  <2>6. out'.calls = {} /\ OutShape'
    BY <2>1, <2>2 DEF CallsInv, OutShape
  <2>7. \A kind : Written(kind)' = Written(kind)
    BY DEF Written, AfterScan
  <2> QED BY <2>5, <2>6, <2>7 DEF CallsInv
<1>2. CASE UNCHANGED cvars
  <2>1. UNCHANGED <<tables, warned, out, pc>>
    BY <1>2 DEF cvars, gvars
  <2>2. Generated' = Generated /\ PrsFunctions' = PrsFunctions /\ \A t : Callable(t)' = Callable(t)
    BY <2>1, FunctionsSame
  <2>3. OutShape'
    BY <2>1 DEF CallsInv, OutShape
  <2>4. \A kind : Written(kind)' = Written(kind)
    BY DEF Written, AfterScan
  <2>5. \A c \in out'.calls : /\ c[1] \in Kinds /\ Callable(c[2])'
                              /\ c[1] = "prs" => out'.conv["prs"] = PrsFunctions'
    BY <2>1, <2>2 DEF CallsInv
  <2>6. \A kind \in {"endian", "print", "xml", "scan"} :
          pc' \in Written(kind) => out'.conv[kind] = Generated'
    BY <2>1, <2>2 DEF CallsInv
  <2>7. pc' \in Resolving => out'.calls = {}
    BY <2>1 DEF CallsInv
  <2> QED BY <2>3, <2>4, <2>5, <2>6, <2>7 DEF CallsInv
<1> QED
  BY <1>1, <1>2, GenerateKeepsCalls DEF Next

LEMMA CallsInit ==
  ASSUME Init
  PROVE  CallsInv
<1>1. out = Blank /\ pc = "parse"
  BY DEF Init, GInit
<1>2. OutShape /\ out.calls = {}
  BY <1>1 DEF OutShape, OutFields, Blank, Kinds
<1> QED
  BY <1>1, <1>2 DEF CallsInv, Written, AfterScan

LEMMA CalledFunctions ==
  ASSUME DescInv, CallsInv
  PROVE  FunctionsDefined
<1> SUFFICES ASSUME Done, ~ warned, NEW c \in out.calls
             PROVE  \/ c[2] \in out.conv[c[1]]
                    \/ c[2].def = "struct" /\ types[c[2].id].import # "none"
                    \/ c[1] = "prs" /\ c[2] = SdiType
                    \/ c[2].def = "alias"
  BY DEF FunctionsDefined
<1>1. /\ c[1] \in Kinds /\ Callable(c[2])
      /\ c[1] = "prs" => out.conv["prs"] = PrsFunctions
      /\ c[1] # "prs" => out.conv[c[1]] = Generated
  <2>1. \A kind : pc \in Written(kind)
    BY DEF Done, Written, AfterScan
  <2> QED BY <2>1 DEF CallsInv, Kinds
<1>2. CASE \E p \in Range(posters) : c[2] = PosterType(p)
  <2>1. c[2] \in Generated /\ c[2].def = "poster"
    <3>1. PICK p \in Range(posters) : c[2] = PosterType(p)
      BY <1>2
    <3>2. PosterType(p) \in Generated
      BY DEF Generated
    <3> QED BY <3>1, <3>2 DEF PosterType
  <2>2. c[2] \in PrsFunctions
    BY <2>1 DEF PrsFunctions, SdiType, StructType
  <2> QED BY <1>1, <2>1, <2>2
<1>3. CASE c[2] \in TypeObjects /\ c[2].def \notin {"base", "alias"} /\ Known(c[2])
  <2>1. c[2].def = "struct" /\ c[2].id \in DOMAIN types /\ c[2] = StructType(c[2].id)
    BY <1>3 DEF TypeObjects, Known, StructType
  <2>2. CASE types[c[2].id].import # "none"
    BY <2>1, <2>2
  <2>3. CASE types[c[2].id].import = "none"
    <3>1. c[2] \in Generated
      BY <2>1, <2>3 DEF Generated, Own
    <3>2. c[2] # SdiType => c[2] \in PrsFunctions
      BY <2>1, <3>1 DEF PrsFunctions
    <3> QED BY <1>1, <3>1, <3>2
  <2> QED BY <2>2, <2>3
<1> QED
  BY <1>1, <1>2, <1>3 DEF Callable

\* Unless genom warned of an unknown type, whatever the description, each conversion
\* function a file calls is defined in the files it includes, but for the bare imports,
\* for the SDI in OpenPRS and for the aliases, which have none: a member of a structure,
\* of a poster, a way into the SDI or the type a typedef names is otherwise never a type
\* for which no function is written (genom.c, endianGen.c, printGen.c, scanGen.c,
\* openprsGen.c).
THEOREM FunctionsDefinedHolds == Spec => []FunctionsDefined
<1> DEFINE I == DescInv /\ RefsInv /\ UsesLead /\ CallsInv
<1>1. Init => I
  BY InitKeeps, CallsInit DEF Init, GInit, UsesLead, Early
<1>2. I /\ [Next]_cvars => I'
  BY NextKeeps, UsesLeadKept, CallsKept
<1>3. I => FunctionsDefined
  BY CalledFunctions
<1> QED
  BY <1>1, <1>2, <1>3, PTL DEF Spec

-----------------------------------------------------------------------------
(* The declarations of the types *)

\* The structures a list of typedefs names.
Tags(l) == {l[i].type.id : i \in {j \in DOMAIN l : l[j].type.def = "struct"}}

InBlock == \E i \in 1 .. at : Opens(file, i, at)

\* When the types follow each other, their list holds them all: the list being parsed
\* and the one around an import block, or typedefs once they are over.
TypesListed ==
  /\ DOMAIN types # {} => \E i \in 1 .. at : KindOf(file[i]) = "typedef"
  /\ Grouped("typedef") /\ pc # "exit" =>
       IF pc = "parse" /\ InBlock THEN DOMAIN types \subseteq Tags(outer) \cup Tags(list)
       ELSE /\ DOMAIN types \subseteq Tags(typedefs)
            /\ pc = "parse" /\ group = "typedef" => list = typedefs

\* An import block holds types until it is closed.
LEMMA BlockGoesOn ==
  ASSUME DescInv, InBlock
  PROVE  at < Len(file) /\ file[at + 1].kind \in TypedefKinds \cup {"close"}
<1>1. file \in Files /\ at \in 0 .. Len(file) /\ file \in Seq(Declarations)
  BY FilesAssumption DEF DescInv, ParseTypes
<1>2. PICK i \in 1 .. at : Opens(file, i, at)
  BY DEF InBlock
<1>3. i \in DOMAIN file /\ file[i].kind = "import" /\ \A l \in i + 1 .. at : file[l].kind \in TypedefKinds
  BY <1>1, <1>2 DEF Opens
<1>4. PICK j \in i + 1 .. Len(file) : file[j].kind = "close" /\ Opens(file, i, j - 1)
  BY <1>1, <1>3, FilesAssumption
<1>5. j > at
  <2>1. ~ (j \in i + 1 .. at)
    BY <1>3, <1>4 DEF TypedefKinds
  <2> QED BY <1>1, <1>4, <2>1
<1>6. CASE j = at + 1
  BY <1>1, <1>4, <1>6
<1>7. CASE j # at + 1
  <2>1. at + 1 \in i + 1 .. j - 1 /\ at < Len(file)
    BY <1>1, <1>4, <1>5, <1>7
  <2> QED BY <1>4, <2>1 DEF Opens
<1> QED
  BY <1>6, <1>7

\* The block a declaration is in, after it.
LEMMA BlockNext ==
  ASSUME DescInv, NEW kind, Is(kind), at' = at + 1, file' = file
  PROVE  InBlock' <=> kind = "import" \/ (kind \in TypedefKinds /\ InBlock)
<1>1. at \in Nat /\ Decl.kind = kind /\ Decl = file[at + 1]
  BY ParsedDecl DEF DescInv, ParseTypes, Decl
<1>2. InBlock' <=> \E i \in 1 .. at + 1 : Opens(file, i, at + 1)
  BY DEF InBlock
<1>3. Opens(file, at + 1, at + 1) <=> kind = "import"
  BY <1>1 DEF Opens, TypedefKinds
<1>4. ASSUME NEW i \in 1 .. at
      PROVE  Opens(file, i, at + 1) <=> Opens(file, i, at) /\ kind \in TypedefKinds
  <2>1. i + 1 .. at + 1 = (i + 1 .. at) \cup {at + 1}
    BY <1>1
  <2> QED BY <1>1, <2>1 DEF Opens
<1>5. 1 .. at + 1 = (1 .. at) \cup {at + 1}
  BY <1>1
<1> QED
  BY <1>2, <1>3, <1>4, <1>5 DEF InBlock

\* A list of types starts only when there is no type yet.
LEMMA NoTypeBefore ==
  ASSUME DescInv, TypesListed, Grouped("typedef"), NEW kind \in {"typedef", "alias", "import"},
         Is(kind), group # "typedef"
  PROVE  DOMAIN types = {}
<1> SUFFICES ASSUME DOMAIN types # {} PROVE FALSE
  OBVIOUS
<1>1. PICK i \in 1 .. at : KindOf(file[i]) = "typedef"
  BY DEF TypesListed
<1>2. at + 1 \in 1 .. Len(file) /\ file \in Files /\ pc = "parse" /\ KindOf(file[at + 1]) = "typedef"
  BY ParsedDecl DEF KindOf, Decl
<1>3. DOMAIN file = 1 .. Len(file) /\ Len(file) \in Nat /\ at \in Nat
  BY <1>2, FilesAssumption DEF DescInv, ParseTypes
<1>4. i \in DOMAIN file /\ at + 1 \in DOMAIN file /\ at \in i .. at + 1
  BY <1>2, <1>3
<1>5. KindOf(file[at]) = "typedef"
  BY <1>1, <1>2, <1>4 DEF Grouped
<1> QED
  BY <1>1, <1>2, <1>5 DEF DescInv, ParseTypes

LEMMA BlockGroup ==
  ASSUME DescInv, pc = "parse", InBlock
  PROVE  group = "typedef"
<1>1. PICK i \in 1 .. at : Opens(file, i, at)
  BY DEF InBlock
<1>2. KindOf(file[at]) = "typedef"
  <2>1. CASE i = at
    BY <1>1, <2>1 DEF Opens, KindOf
  <2>2. CASE i # at
    <3>1. at \in i + 1 .. at
      BY <2>2 DEF DescInv, ParseTypes
    <3> QED BY <1>1, <3>1 DEF Opens, TypedefKinds, KindOf
  <2> QED BY <2>1, <2>2
<1> QED
  BY <1>2 DEF DescInv, ParseTypes

LEMMA GroupedSame ==
  ASSUME file' = file
  PROVE  Grouped("typedef")' = Grouped("typedef")
BY DEF Grouped, KindOf

LEMMA TagsAppend ==
  ASSUME NEW l \in Seq(Typedefs), NEW e
  PROVE  Tags(Append(l, e)) = Tags(l) \cup (IF e.type.def = "struct" THEN {e.type.id} ELSE {})
<1>1. DOMAIN Append(l, e) = DOMAIN l \cup {Len(l) + 1} /\ DOMAIN l = 1 .. Len(l) /\ Len(l) \in Nat
      /\ (\A i \in 1 .. Len(l) : Append(l, e)[i] = l[i]) /\ Append(l, e)[Len(l) + 1] = e
  OBVIOUS
<1> QED
  BY <1>1 DEF Tags

LEMMA TagsConcat ==
  ASSUME NEW l \in Seq(Typedefs), NEW m \in Seq(Typedefs)
  PROVE  Tags(l \o m) = Tags(l) \cup Tags(m)
<1> DEFINE named(S) == {d.type.id : d \in {c \in S : c.type.def = "struct"}}
<1>1. \A s \in Seq(Typedefs) : Tags(s) = named(Range(s))
  BY DEF Tags, Range
<1>2. l \o m \in Seq(Typedefs) /\ Range(l \o m) = Range(l) \cup Range(m)
  BY ConcatProperties, RangeConcatenation
<1>3. /\ Tags(l) = named(Range(l)) /\ Tags(m) = named(Range(m))
      /\ Tags(l \o m) = named(Range(l) \cup Range(m))
  <2> HIDE DEF named
  <2> QED BY <1>1, <1>2
<1>4. named(Range(l) \cup Range(m)) = named(Range(l)) \cup named(Range(m))
  OBVIOUS
<1> QED
  BY <1>3, <1>4

LEMMA ListedSomewhere ==
  ASSUME DescInv, TypesListed, file' = file, at' = at, types' = types
  PROVE  DOMAIN types' # {} => \E i \in 1 .. at' : KindOf(file'[i]) = "typedef"
BY DEF TypesListed

LEMMA ListedAfter ==
  ASSUME DescInv, TypesListed, file' = file, at' = at + 1, types' = types
  PROVE  DOMAIN types' # {} => \E i \in 1 .. at' : KindOf(file'[i]) = "typedef"
<1>1. at \in Nat /\ 1 .. at \subseteq 1 .. at + 1
  BY DEF DescInv, ParseTypes
<1> QED
  BY <1>1 DEF TypesListed

\* A declaration of another kind ends the list of the types.
LEMMA OthersListed ==
  ASSUME DescInv, TypesListed, NEW kind \in {"module", "request", "task", "poster"}, Is(kind),
         at' = at + 1, group' = kind, UNCHANGED <<pc, file, typedefs, types>>
  PROVE  TypesListed'
<1>1. ~ InBlock
  BY ParsedDecl, BlockGoesOn DEF Decl, TypedefKinds
<1>2. ~ InBlock'
  BY BlockNext DEF TypedefKinds
<1>3. DOMAIN types' # {} => \E i \in 1 .. at' : KindOf(file'[i]) = "typedef"
  BY ListedAfter
<1>4. Grouped("typedef")' = Grouped("typedef") /\ pc = "parse"
  BY GroupedSame DEF Is
<1>5. Tags(typedefs)' = Tags(typedefs)
  BY DEF Tags
<1> QED
  BY <1>1, <1>2, <1>3, <1>4, <1>5 DEF TypesListed

\* A typedef goes at the end of the list, with the structure it declares if it has one.
LEMMA EntryListed ==
  ASSUME DescInv, TypesListed, NEW kind \in TypedefKinds, Is(kind),
         NEW l, l = (IF group = "typedef" THEN list ELSE <<>>), NEW e,
         at' = at + 1, group' = "typedef", UNCHANGED <<pc, file, outer>>,
         list' = Append(l, e), typedefs' = Append(l, e),
         DOMAIN types' = DOMAIN types \cup (IF e.type.def = "struct" THEN {e.type.id} ELSE {})
  PROVE  TypesListed'
<1> DEFINE new == IF e.type.def = "struct" THEN {e.type.id} ELSE {}
<1>1. l \in Seq(Typedefs)
  BY DEF DescInv, ListTypes
<1>2. Tags(Append(l, e)) = Tags(l) \cup new
  BY <1>1, TagsAppend
<1>3. (InBlock' <=> InBlock) /\ pc = "parse" /\ pc' = "parse"
  BY BlockNext DEF Is, TypedefKinds
<1>4. at \in Nat /\ at + 1 \in 1 .. at + 1 /\ KindOf(file[at + 1]) = "typedef"
  BY ParsedDecl DEF DescInv, ParseTypes, KindOf, Decl, TypedefKinds
<1>5. \E i \in 1 .. at' : KindOf(file'[i]) = "typedef"
  BY <1>4
<1>6. Grouped("typedef")' = Grouped("typedef")
  BY GroupedSame
<1>7. /\ Tags(list)' = Tags(l) \cup new /\ Tags(typedefs)' = Tags(l) \cup new
      /\ Tags(outer)' = Tags(outer) /\ DOMAIN types' = DOMAIN types \cup new
  <2> HIDE DEF new
  <2>1. Tags(list)' = Tags(Append(l, e)) /\ Tags(typedefs)' = Tags(Append(l, e))
        /\ Tags(outer)' = Tags(outer)
    BY DEF Tags
  <2> QED BY <1>2, <2>1 DEF new
<1>8. ASSUME Grouped("typedef"), ~ InBlock PROVE DOMAIN types \subseteq Tags(l)
  <2>1. CASE group = "typedef"
    BY <1>3, <1>8, <2>1 DEF TypesListed
  <2>2. CASE group # "typedef"
    BY <1>8, <2>2, NoTypeBefore DEF TypedefKinds
  <2> QED BY <2>1, <2>2
<1>9. ASSUME Grouped("typedef"), InBlock PROVE DOMAIN types \subseteq Tags(outer) \cup Tags(l)
  BY <1>3, <1>9, BlockGroup DEF TypesListed
<1> HIDE DEF new
<1> QED
  BY <1>3, <1>5, <1>6, <1>7, <1>8, <1>9 DEF TypesListed

LEMMA ParseTypedefListed ==
  ASSUME DescInv, TypesListed, ParseTypedef
  PROVE  TypesListed'
<1> DEFINE l == IF group = "typedef" THEN list ELSE <<>>
           e == [name |-> Decl.name, type |-> StructType(Decl.tag), import |-> Decl.import]
<1>1. /\ Is("typedef") /\ at' = at + 1 /\ group' = "typedef" /\ UNCHANGED <<pc, file, outer>>
      /\ list' = Append(l, e) /\ typedefs' = Append(l, e)
      /\ DOMAIN types' = DOMAIN types \cup {Decl.tag}
  BY DEF ParseTypedef, With
<1>2. e.type.def = "struct" /\ e.type.id = Decl.tag
  BY DEF StructType
<1>3. l = IF group = "typedef" THEN list ELSE <<>>
  OBVIOUS
<1> HIDE DEF l, e
<1> QED
  BY <1>1, <1>2, <1>3, EntryListed DEF TypedefKinds

LEMMA ParseAliasListed ==
  ASSUME DescInv, TypesListed, ParseAlias
  PROVE  TypesListed'
<1> DEFINE l == IF group = "typedef" THEN list ELSE <<>>
           e == [name |-> Decl.name, type |-> AliasType(Decl), import |-> Decl.import]
<1>1. /\ Is("alias") /\ at' = at + 1 /\ group' = "typedef" /\ UNCHANGED <<pc, file, outer, types>>
      /\ list' = Append(l, e) /\ typedefs' = Append(l, e)
  BY DEF ParseAlias
<1>2. e.type.def # "struct"
  BY DEF AliasType
<1>3. l = IF group = "typedef" THEN list ELSE <<>>
  OBVIOUS
<1> HIDE DEF l, e
<1> QED
  BY <1>1, <1>2, <1>3, EntryListed DEF TypedefKinds

LEMMA OpenImportListed ==
  ASSUME DescInv, TypesListed, OpenImport
  PROVE  TypesListed'
<1>1. /\ Is("import") /\ at' = at + 1 /\ file' = file /\ pc' = pc /\ types' = types
      /\ outer' = IF group = "typedef" THEN list ELSE <<>>
  BY DEF OpenImport
<1>2. ~ InBlock
  BY <1>1, ParsedDecl, BlockGoesOn DEF Decl, TypedefKinds
<1>3. InBlock' /\ pc = "parse"
  BY <1>1, BlockNext DEF Is
<1>4. DOMAIN types' # {} => \E i \in 1 .. at' : KindOf(file'[i]) = "typedef"
  BY <1>1, ListedAfter
<1>5. ASSUME Grouped("typedef") PROVE DOMAIN types \subseteq Tags(outer')
  <2>1. CASE group = "typedef"
    BY <1>1, <1>2, <1>3, <1>5, <2>1 DEF TypesListed
  <2>2. CASE group # "typedef"
    BY <1>1, <1>5, <2>2, NoTypeBefore
  <2> QED BY <2>1, <2>2
<1>6. Grouped("typedef")' = Grouped("typedef")
  BY <1>1, GroupedSame
<1>7. Tags(outer)' = Tags(outer')
  BY DEF Tags
<1> QED
  BY <1>1, <1>3, <1>4, <1>5, <1>6, <1>7 DEF TypesListed

LEMMA CloseImportListed ==
  ASSUME DescInv, TypesListed, CloseImport
  PROVE  TypesListed'
<1> DEFINE l == outer \o list
<1>1. /\ Is("close") /\ at' = at + 1 /\ file' = file /\ pc' = pc /\ types' = types
      /\ list' = l /\ typedefs' = l /\ group' = group
  BY DEF CloseImport
<1>2. group = "typedef" /\ pc = "parse"
  BY <1>1, ClosedIsTypedef DEF Is
<1>3. InBlock
  <2>1. at + 1 \in 1 .. Len(file) /\ file \in Files /\ Decl.kind = "close" /\ at \in Nat
    BY <1>1, ParsedDecl DEF DescInv, ParseTypes
  <2>2. at + 1 \in DOMAIN file /\ file[at + 1].kind = "close" /\ (at + 1) - 1 = at
    BY <2>1, FilesAssumption DEF Decl
  <2> QED BY <2>1, <2>2, FilesAssumption DEF InBlock
<1>4. ~ InBlock'
  BY <1>1, BlockNext DEF TypedefKinds
<1>5. DOMAIN types' # {} => \E i \in 1 .. at' : KindOf(file'[i]) = "typedef"
  BY <1>1, ListedAfter
<1>6. Tags(l) = Tags(outer) \cup Tags(list)
  BY <1>2, TagsConcat DEF DescInv, ListTypes
<1>7. Grouped("typedef")' = Grouped("typedef")
  BY <1>1, GroupedSame
<1>8. Tags(typedefs)' = Tags(l)
  <2> HIDE DEF l
  <2> QED BY <1>1 DEF Tags
<1> HIDE DEF l
<1> QED
  BY <1>1, <1>2, <1>3, <1>4, <1>5, <1>6, <1>7, <1>8 DEF TypesListed

LEMMA TypesListedSame ==
  ASSUME DescInv, TypesListed, UNCHANGED <<file, at, outer, list, group, types, typedefs>>,
         pc' = pc \/ pc' = "exit" \/ (pc' # "parse" /\ ~ (pc = "parse" /\ InBlock)),
         pc = "exit" => pc' = "exit"
  PROVE  TypesListed'
<1>1. DOMAIN types' # {} => \E i \in 1 .. at' : KindOf(file'[i]) = "typedef"
  BY ListedSomewhere
<1>2. Grouped("typedef")' = Grouped("typedef") /\ InBlock' = InBlock
  BY GroupedSame DEF InBlock, Opens
<1>3. /\ Tags(outer)' = Tags(outer) /\ Tags(list)' = Tags(list) /\ Tags(typedefs)' = Tags(typedefs)
  BY DEF Tags
<1> QED
  BY <1>1, <1>2, <1>3 DEF TypesListed

LEMMA ParseListed ==
  ASSUME DescInv, TypesListed, Parse
  PROVE  TypesListed'
<1>0. pc = "parse"
  BY DEF Parse, ParseModule, ParseTypedef, ParseAlias, OpenImport, CloseImport, ParseRequest, ParseTask,
     ParsePoster, EndOfFile, Is
<1>1. CASE Stop("exit")
  BY <1>0, <1>1, TypesListedSame DEF Stop, parsing, tables
<1>2. CASE ~ Stop("exit") /\ EndOfFile
  <2>1. at = Len(file) /\ pc' = "requests" /\ UNCHANGED <<file, at, types, typedefs>>
    BY <1>2 DEF EndOfFile
  <2>2. ~ InBlock
    BY <2>1, BlockGoesOn
  <2>3. DOMAIN types' # {} => \E i \in 1 .. at' : KindOf(file'[i]) = "typedef"
    BY <2>1, ListedSomewhere
  <2>4. Grouped("typedef")' = Grouped("typedef") /\ Tags(typedefs)' = Tags(typedefs)
    BY <2>1, GroupedSame DEF Tags
  <2> QED BY <1>0, <2>1, <2>2, <2>3, <2>4 DEF TypesListed
<1>3. CASE ~ Stop("exit") /\ (ParseModule \/ ParseRequest \/ ParseTask \/ ParsePoster)
  <2>1. \E kind \in {"module", "request", "task", "poster"} :
          Is(kind) /\ at' = at + 1 /\ group' = kind /\ UNCHANGED <<pc, file, typedefs, types>>
    BY <1>3 DEF ParseModule, ParseRequest, ParseTask, ParsePoster, Element
  <2> QED BY <2>1, OthersListed
<1> QED
  BY <1>1, <1>2, <1>3, ParseTypedefListed, ParseAliasListed, OpenImportListed,
     CloseImportListed DEF Parse

-----------------------------------------------------------------------------
(* The header genom writes and those it includes *)

\* The types that the generated header declares, and the headers it includes.
TypeSet == {t \in Used : /\ \E d \in Range(typedefs) : d.type = StructType(t)
                        /\ (t = module.internal_data \/ types[t].header = "gen")}
IncludeSet == {types[t].header : t \in DOMAIN types \ {module.internal_data}} \ {"gen"}

MarkedIn(ins, mod, tys, ps, tds, f) ==
  {StructType(mod.internal_data)} \cup Range(ins)
  \cup (UNION {{m.type : m \in Range(tys[t].members)} : t \in DOMAIN tys})
  \cup (UNION {{IF p.data[j].path = <<>> THEN p.members[j].type
                ELSE TrouveOfIn(tds, tys, f, p.members[j].type) : j \in DOMAIN p.data} : p \in Range(ps)})

\* An imported type is declared in the file it is imported from.
ImportsAreHeaders ==
  \A f \in Files : \A i \in DOMAIN f :
    f[i].kind = "typedef" /\ f[i].import # "none" => f[i].header # "gen"

HeadersInv == \A t \in DOMAIN types : types[t].import # "none" => types[t].header # "gen"

TypeInv ==
  /\ pc \in Generating \cup {"refused", "done"} => includes = IncludeSet
  /\ pc \in (Generating \ {"gen"}) \cup {"refused", "done"} => out.type = TypeSet

MarkedRead == Marked = MarkedIn(inputs, module, types, posters, typedefs, file)

LEMMA MarkedReadNow == MarkedRead
<1>1. \A t : TrouveOf(t) = TrouveOfIn(typedefs, types, file, t)
  BY ReadTablesNow DEF ReadTables
<1> DEFINE now(p) == {IF p.data[j].path = <<>> THEN p.members[j].type
                      ELSE TrouveOf(p.members[j].type) : j \in DOMAIN p.data}
           read(p) == {IF p.data[j].path = <<>> THEN p.members[j].type
                       ELSE TrouveOfIn(typedefs, types, file, p.members[j].type) :
                         j \in DOMAIN p.data}
<1>2. ASSUME NEW p PROVE now(p) = read(p)
  BY <1>1
<1>3. (UNION {now(p) : p \in Range(posters)}) = UNION {read(p) : p \in Range(posters)}
  <2> HIDE DEF now, read
  <2> QED BY <1>2
<1> QED
  BY <1>3 DEF MarkedRead, Marked, MarkedIn, SdiType

LEMMA MarkedReadNext == MarkedRead'
BY MarkedReadNow, PTL

LEMMA TypeSetSame ==
  ASSUME UNCHANGED <<inputs, tables, file>>
  PROVE  TypeSet' = TypeSet /\ IncludeSet' = IncludeSet
<1>1. UNCHANGED <<inputs, module, types, posters, typedefs, file>>
  BY DEF tables
<1>2. Marked' = Marked
  BY <1>1, MarkedReadNow, MarkedReadNext DEF MarkedRead
<1>3. Used' = Used
  BY <1>2 DEF Used
<1>4. TypeSet' = TypeSet
  BY <1>1, <1>3 DEF TypeSet, StructType
<1> QED
  BY <1>1, <1>4 DEF IncludeSet

LEMMA TypeOutSame ==
  ASSUME TypeInv, UNCHANGED <<tables, inputs, includes, file>>, out'.type = out.type,
         pc' \in Generating \cup {"refused", "done"} => pc \in Generating \cup {"refused", "done"},
         pc' \in (Generating \ {"gen"}) \cup {"refused", "done"} =>
           pc \in (Generating \ {"gen"}) \cup {"refused", "done"}
  PROVE  TypeInv'
<1>1. TypeSet' = TypeSet /\ IncludeSet' = IncludeSet
  BY TypeSetSame
<1>2. Generating' = Generating
  BY DEF Generating
<1> QED
  BY <1>1, <1>2 DEF TypeInv

\* The generator of the file f, at the step s, is the only one that writes it.
Writers == {<<"type", "gen">>, <<"error", "error">>, <<"poster", "posterLib">>, <<"msg", "msg">>,
           <<"cntrl", "cntrl">>, <<"exec", "exec">>, <<"init", "init">>, <<"test", "test">>,
           <<"tcl", "tcl">>, <<"module", "module">>, <<"atoms", "prs">>}
OutKept == \A w \in Writers : pc # w[2] => out'[w[1]] = out[w[1]]

LEMMA TwoFields ==
  ASSUME OutShape, NEW f \in OutFields, NEW o, DOMAIN o = OutFields,
         \A g \in OutFields \ {f, "calls", "conv"} : o[g] = out[g], out' = o,
         \A w \in Writers : f = w[1] => pc = w[2]
  PROVE  DOMAIN out' = OutFields /\ OutKept
<1>1. \A w \in Writers : w[1] \in OutFields \ {"calls", "conv"}
  BY DEF Writers, OutFields
<1> QED
  BY <1>1 DEF OutKept

LEMMA GenerateWrites ==
  ASSUME OutShape, Generate
  PROVE  DOMAIN out' = OutFields /\ OutKept
<1>1. CASE EndianGen \/ PrintGen \/ PrintXMLGen \/ ScanGen
  <2>1. pc \in {"endian", "print", "xml", "scan"}
        /\ \E kind \in Kinds : \E x, c : out' = [out EXCEPT !.conv[kind] = x, !.calls = c]
    BY <1>1 DEF EndianGen, PrintGen, PrintXMLGen, ScanGen, ConvGen, Kinds
  <2>2. \A w \in Writers : "calls" = w[1] => pc = w[2]
    BY DEF Writers
  <2>3. "calls" \in OutFields /\ DOMAIN out' = OutFields
        /\ \A g \in OutFields \ {"calls", "conv"} : out'[g] = out[g]
    BY <2>1 DEF OutShape, OutFields
  <2> QED BY <2>2, <2>3, TwoFields
<1>2. CASE TypeGen
  <2>1. pc = "gen" /\ (\E x : out' = [out EXCEPT !["type"] = x])
    BY <1>2 DEF TypeGen, Write
  <2> QED BY <2>1 DEF OutShape, OutFields, OutKept, Writers
<1>3. CASE ErrorGen
  <2>1. pc = "error" /\ (\E x : out' = [out EXCEPT !["error"] = x])
    BY <1>3 DEF ErrorGen, Write
  <2> QED BY <2>1 DEF OutShape, OutFields, OutKept, Writers
<1>4. CASE MsgLibGen
  <2>1. pc = "msg" /\ (\E x : out' = [out EXCEPT !["msg"] = x])
    BY <1>4 DEF MsgLibGen, Write
  <2> QED BY <2>1 DEF OutShape, OutFields, OutKept, Writers
<1>5. CASE ExecTaskGen
  <2>1. pc = "exec" /\ (\E x : out' = [out EXCEPT !["exec"] = x])
    BY <1>5 DEF ExecTaskGen, Write
  <2> QED BY <2>1 DEF OutShape, OutFields, OutKept, Writers
<1>6. CASE ModuleInitGen
  <2>1. pc = "module" /\ (\E x : out' = [out EXCEPT !["module"] = x])
    BY <1>6 DEF ModuleInitGen, Write
  <2> QED BY <2>1 DEF OutShape, OutFields, OutKept, Writers
<1>7. CASE CntrlTaskGen
  <2>1. pc = "cntrl" /\ (out' = out \/ \E x : out' = [out EXCEPT !["cntrl"] = x])
    BY <1>7 DEF CntrlTaskGen
  <2> QED BY <2>1 DEF OutShape, OutFields, OutKept, Writers
<1>8. CASE TclGen
  <2>1. pc = "tcl" /\ (out' = out \/ \E x : out' = [out EXCEPT !["tcl"] = x])
    BY <1>8 DEF TclGen
  <2> QED BY <2>1 DEF OutShape, OutFields, OutKept, Writers
<1>9. CASE PosterLibGen
  <2>1. pc = "posterLib" /\ \E x, c : out' = [out EXCEPT !["poster"] = x, !.calls = c]
    BY <1>9 DEF PosterLibGen
  <2>2. \A w \in Writers : "poster" = w[1] => pc = w[2]
    <3>1. pc = "posterLib"
      BY <2>1
    <3> QED BY <3>1 DEF Writers
  <2>3. "poster" \in OutFields /\ DOMAIN out' = OutFields
        /\ \A g \in OutFields \ {"poster", "calls", "conv"} : out'[g] = out[g]
    BY <2>1 DEF OutShape, OutFields
  <2> QED BY <2>2, <2>3, TwoFields
<1>10. CASE TestGen
  <2>1. pc = "test" /\ \E x, c : out' = [out EXCEPT !["test"] = x, !.calls = c]
    BY <1>10 DEF TestGen
  <2>2. \A w \in Writers : "test" = w[1] => pc = w[2]
    <3>1. pc = "test"
      BY <2>1
    <3> QED BY <3>1 DEF Writers
  <2>3. "test" \in OutFields /\ DOMAIN out' = OutFields
        /\ \A g \in OutFields \ {"test", "calls", "conv"} : out'[g] = out[g]
    BY <2>1 DEF OutShape, OutFields
  <2> QED BY <2>2, <2>3, TwoFields
<1>11. CASE InitGen
  <2>1. pc = "init" /\ \E x, c : out' = [out EXCEPT !["init"] = x, !.calls = c]
    BY <1>11 DEF InitGen
  <2>2. \A w \in Writers : "init" = w[1] => pc = w[2]
    <3>1. pc = "init"
      BY <2>1
    <3> QED BY <3>1 DEF Writers
  <2>3. "init" \in OutFields /\ DOMAIN out' = OutFields
        /\ \A g \in OutFields \ {"init", "calls", "conv"} : out'[g] = out[g]
    BY <2>1 DEF OutShape, OutFields
  <2> QED BY <2>2, <2>3, TwoFields
<1>12. CASE OpenprsGen
  <2>1. pc = "prs" /\ \E x, y, c : out' = [out EXCEPT !.conv["prs"] = x, !.atoms = y, !.calls = c]
    BY <1>12 DEF OpenprsGen
  <2>2. \A w \in Writers : "atoms" = w[1] => pc = w[2]
    <3>1. pc = "prs"
      BY <2>1
    <3> QED BY <3>1 DEF Writers
  <2>3. "atoms" \in OutFields /\ DOMAIN out' = OutFields
        /\ \A g \in OutFields \ {"atoms", "calls", "conv"} : out'[g] = out[g]
    BY <2>1 DEF OutShape, OutFields
  <2> QED BY <2>2, <2>3, TwoFields
<1>13. CASE TypeGenFreed \/ MsgLibGenEndless \/ TestGenCrash \/ SkipBinding \/ Finish
  BY <1>13 DEF OutShape, TypeGenFreed, MsgLibGenEndless, TestGenCrash, SkipBinding, Finish, OutKept, Writers
<1> QED
  BY <1>1, <1>2, <1>3, <1>4, <1>5, <1>6, <1>7, <1>8, <1>9, <1>10, <1>11, <1>12, <1>13 DEF Generate

LEMMA TypeKept ==
  ASSUME DescInv, RefsInv, OutShape, TypeInv, [Next]_cvars
  PROVE  TypeInv'
<1>0. Generating' = Generating
  BY DEF Generating
<1>1. CASE TypeGen
  <2>1. pc = "gen" /\ pc' = "error" /\ UNCHANGED <<tables, inputs, includes, file>>
        /\ out' = [out EXCEPT !["type"] = TypeSet]
    BY <1>1 DEF TypeGen, Write, TypeSet, resolved, parsing
  <2>2. out'.type = TypeSet
    BY <2>1 DEF OutShape, OutFields
  <2>3. TypeSet' = TypeSet /\ IncludeSet' = IncludeSet
    BY <2>1, TypeSetSame
  <2>4. includes = IncludeSet
    BY <2>1 DEF TypeInv, Generating
  <2> QED BY <1>0, <2>1, <2>2, <2>3, <2>4 DEF TypeInv
<1>2. CASE Generate /\ ~ TypeGen
  <2>1. out'.type = out.type
    <3>1. CASE pc # "gen"
      <4>1. <<"type", "gen">> \in Writers
        BY DEF Writers
      <4>2. OutKept
        BY <1>2, GenerateWrites
      <4> QED BY <3>1, <4>1, <4>2 DEF OutKept
    <3>2. CASE pc = "gen"
      BY <1>2, <3>2 DEF Generate, TypeGenFreed, ErrorGen, EndianGen, PrintGen, PrintXMLGen,
         ScanGen, ConvGen, Write, PosterLibGen, MsgLibGen, MsgLibGenEndless, CntrlTaskGen,
         ExecTaskGen, ModuleInitGen, TestGen, TestGenCrash, InitGen, OpenprsGen, TclGen,
         SkipBinding, Finish
    <3> QED BY <3>1, <3>2
  <2>2. UNCHANGED <<tables, inputs, includes, file>> /\ pc \in Generating
    BY <1>2, GenerateIs DEF resolved, parsing
  <2>3. pc = "gen" => pc' = "undefined"
    BY <1>2 DEF Generate, TypeGenFreed, ErrorGen, EndianGen, PrintGen, PrintXMLGen,
       ScanGen, ConvGen, Write, PosterLibGen, MsgLibGen, MsgLibGenEndless, CntrlTaskGen,
       ExecTaskGen, ModuleInitGen, TestGen, TestGenCrash, InitGen, OpenprsGen, TclGen,
       SkipBinding, Finish, Stop
  <2> QED BY <2>1, <2>2, <2>3, TypeOutSame DEF Generating
<1>3. CASE UNCHANGED cvars
  <2>1. UNCHANGED <<tables, inputs, includes, file, pc, out>>
    BY <1>3 DEF cvars, gvars, resolved, parsing
  <2> QED BY <2>1, TypeOutSame
<1>4. CASE ConstruitIncludeList /\ UNCHANGED <<options, out, fatal>>
  <2>1. pc' = "gen" /\ includes' = IncludeSet /\ UNCHANGED <<tables, inputs, file>>
    BY <1>4 DEF ConstruitIncludeList, IncludeSet, Go, parsing
  <2>2. IncludeSet' = IncludeSet
    BY <2>1, TypeSetSame
  <2> QED BY <1>0, <2>1, <2>2 DEF TypeInv
<1>5. CASE (Parse \/ Resolve) /\ ~ ConstruitIncludeList
  <2>1. pc' \notin Generating \cup {"refused", "done"}
    <3>1. CASE Parse
      BY <3>1 DEF Parse, ParseModule, ParseTypedef, ParseAlias, OpenImport, CloseImport, ParseRequest,
         ParseTask, ParsePoster, EndOfFile, Element, Is, Stop, Generating
    <3>2. CASE ResolvePoster
      <4>1. \/ Stop("exit") \/ Stop("undefined")
            \/ UNCHANGED pc
        BY <3>2, ResolvePosterCases DEF Next1
      <4>2. pc = "posters"
        BY <3>2 DEF ResolvePoster
      <4> QED BY <4>1, <4>2 DEF Stop, Generating
    <3>3. CASE Resolve /\ ~ ResolvePoster
      BY <1>5, <3>3 DEF Resolve, ResolveRequests, ResolveSdi, ResolveUse, RegisterInput, Next1,
         UsesResolved, PostersResolved, ResolveTaskInput, AddArrays, ResolveTasks,
         Go, Stop, Generating
    <3> QED BY <1>5, <3>1, <3>2, <3>3
  <2> QED BY <1>0, <2>1 DEF TypeInv
<1> QED
  BY <1>1, <1>2, <1>3, <1>4, <1>5 DEF Next

LEMMA ListedKept ==
  ASSUME DescInv, RefsInv, TypesListed, [Next]_cvars
  PROVE  TypesListed'
<1>1. CASE Parse
  BY <1>1, ParseListed
<1>2. CASE Resolve \/ Generate \/ UNCHANGED cvars
  <2>1. UNCHANGED <<file, at, outer, list, group, types, typedefs>>
    BY <1>2, GenerateIs DEF Resolve, ResolveRequests, ResolveSdi, ResolveUse,
       UsesResolved, ResolvePoster, PostersResolved, ResolveTaskInput, AddArrays, ResolveTasks,
       ConstruitIncludeList, Stop, parsing, tables, cvars, gvars
  <2>2. UNCHANGED pc \/ (pc # "parse" /\ pc # "exit" /\ pc' # "parse")
    <3>1. CASE Generate
      BY <3>1, GenerateIs DEF Generating
    <3>2. CASE ResolvePoster
      <4>1. \/ Stop("exit") \/ Stop("undefined")
            \/ UNCHANGED pc
        BY <3>2, ResolvePosterCases DEF Next1
      <4>2. pc = "posters"
        BY <3>2 DEF ResolvePoster
      <4> QED BY <4>1, <4>2 DEF Stop
    <3>3. CASE Resolve /\ ~ ResolvePoster
      BY <3>3 DEF Resolve, ResolveRequests, ResolveSdi, ResolveUse, RegisterInput, Next1,
         UsesResolved, PostersResolved, ResolveTaskInput, AddArrays, ResolveTasks,
         ConstruitIncludeList, Go, Stop
    <3>4. CASE UNCHANGED cvars
      BY <3>4 DEF cvars, gvars
    <3> QED BY <1>2, <3>1, <3>2, <3>3, <3>4
  <2> QED BY <2>1, <2>2, TypesListedSame
<1> QED
  BY <1>1, <1>2 DEF Next

LEMMA HeadersKept ==
  ASSUME ImportsAreHeaders, DescInv, HeadersInv, [Next]_cvars
  PROVE  HeadersInv'
<1>1. CASE ParseTypedef
  <2>1. at + 1 \in 1 .. Len(file) /\ file \in Files /\ Decl.kind = "typedef"
    BY <1>1, ParsedDecl DEF ParseTypedef
  <2>2. Decl.import # "none" => Decl.header # "gen"
    <3>1. at + 1 \in DOMAIN file
      BY <2>1, FilesAssumption
    <3> QED BY <2>1, <3>1 DEF ImportsAreHeaders, Decl
  <2>3. types' = With(Decl.tag, Struct(Decl))
    BY <1>1 DEF ParseTypedef
  <2>4. Struct(Decl).import = Decl.import /\ Struct(Decl).header = Decl.header
    BY DEF Struct
  <2> QED BY <2>2, <2>3, <2>4 DEF With, HeadersInv
<1>2. CASE ~ ParseTypedef
  <2>1. types' = types
    BY <1>2, GenerateIs DEF Next, Parse, ParseModule, ParseAlias, OpenImport, CloseImport, ParseRequest,
       ParseTask, ParsePoster, EndOfFile, Element, Resolve, ResolveRequests, ResolveSdi,
       ResolveUse, UsesResolved, ResolvePoster, PostersResolved, ResolveTaskInput, AddArrays,
       ResolveTasks, ConstruitIncludeList, Stop, tables, cvars, gvars
  <2> QED BY <2>1 DEF HeadersInv
<1> QED
  BY <1>1, <1>2

LEMMA DeclaredTypes ==
  ASSUME DescInv, RefsInv, TypeInv, TypesListed, HeadersInv
  PROVE  TypesDeclared
<1> SUFFICES ASSUME Done, Unused = {}, NEW t \in DOMAIN types
             PROVE  /\ t \in out.type \/ types[t].header \in includes \/ ~ Grouped("typedef")
                    /\ ~ (t \in out.type /\ types[t].header \in includes
                          /\ t # module.internal_data)
  BY DEF TypesDeclared
<1>1. out.type = TypeSet /\ includes = IncludeSet
  BY DEF TypeInv, Done
<1>2. ASSUME Grouped("typedef") PROVE t \in out.type \/ types[t].header \in includes
  <2>1. t \in Tags(typedefs)
    BY <1>2 DEF TypesListed, Done
  <2>2. PICK d \in Range(typedefs) : d.type = StructType(t)
    <3>1. PICK i \in DOMAIN typedefs : typedefs[i].type.def = "struct" /\ typedefs[i].type.id = t
      BY <2>1 DEF Tags
    <3>2. typedefs[i] \in Typedefs /\ typedefs[i] \in Range(typedefs)
      BY DEF DescInv, TableTypes, Range
    <3>3. typedefs[i].type = StructType(t)
      BY <3>1, <3>2 DEF Typedefs, TypeObjects, StructType
    <3> QED BY <3>2, <3>3
  <2>3. CASE t = module.internal_data
    <3>1. t \in Used
      <4>1. SdiType \in Marked /\ SdiType.def = "struct" /\ SdiType.id = t
        BY <2>3 DEF Marked, SdiType, StructType
      <4> QED BY <4>1 DEF Used
    <3> QED BY <1>1, <2>2, <2>3, <3>1 DEF TypeSet
  <2>4. CASE t # module.internal_data /\ types[t].header # "gen"
    BY <1>1, <2>4 DEF IncludeSet
  <2>5. CASE t # module.internal_data /\ types[t].header = "gen"
    <3>1. types[t].import = "none"
      BY <2>5 DEF HeadersInv
    <3>2. t \in Used
      BY <3>1 DEF Unused
    <3> QED BY <1>1, <2>2, <2>5, <3>2 DEF TypeSet
  <2> QED BY <2>3, <2>4, <2>5
<1>3. ASSUME t \in out.type, t # module.internal_data PROVE types[t].header \notin includes
  BY <1>1, <1>3 DEF TypeSet, IncludeSet
<1> QED
  BY <1>2, <1>3

\* If an imported type is declared in a header, and the types of the file follow each
\* other, then unless genom warned of an unused type each structure is declared in the
\* header genom writes or in one it includes, and in one of them only, but for the SDI:
\* the two lists are made apart, by the type generator and by the list of the includes
\* (typeGen.c, construitIncludeList in genom.c).
THEOREM TypesDeclaredHolds == ImportsAreHeaders => (Spec => []TypesDeclared)
<1> SUFFICES ASSUME ImportsAreHeaders PROVE Spec => []TypesDeclared
  OBVIOUS
<1> DEFINE I == DescInv /\ RefsInv /\ UsesLead /\ CallsInv /\ TypeInv /\ TypesListed /\ HeadersInv
<1>1. Init => I
  <2> SUFFICES ASSUME Init PROVE I
    OBVIOUS
  <2>1. pc = "parse" /\ types = <<>> /\ typedefs = <<>> /\ at = 0 /\ group = None
    BY DEF Init, GInit
  <2>2. DOMAIN types = {}
    BY <2>1
  <2>3. TypesListed
    BY <2>1, <2>2 DEF TypesListed, None
  <2>4. HeadersInv
    BY <2>2 DEF HeadersInv
  <2>5. TypeInv /\ UsesLead
    BY <2>1 DEF TypeInv, Generating, UsesLead, Early
  <2> QED BY <2>3, <2>4, <2>5, InitKeeps, CallsInit
<1>2. I /\ [Next]_cvars => I'
  <2> SUFFICES ASSUME I, [Next]_cvars PROVE I'
    OBVIOUS
  <2>1. OutShape
    BY DEF CallsInv
  <2> QED BY <2>1, NextKeeps, UsesLeadKept, CallsKept, TypeKept, ListedKept, HeadersKept
<1>3. I => TypesDeclared
  BY DeclaredTypes
<1> QED
  BY <1>1, <1>2, <1>3, PTL DEF Spec

-----------------------------------------------------------------------------
(* The tables once they are resolved *)

Given(r, d) == IF d = "Input" THEN r.str.input ELSE r.str.output
Zones(i, d) == {j \in DOMAIN zones : zones[j] = [rqst |-> requetes[i].num, dir |-> d]}

\* The number of a request is its place.
Numbered == \A i \in DOMAIN requetes : requetes[i].num = i - 1

Zoned == \A i \in DOMAIN requetes : \A d \in {"Input", "Output"} : requetes[i].str.type = "EXEC" =>
  Cardinality(Zones(i, d)) =
    IF Reentrant(requetes[i]) /\ Given(requetes[i], d) # <<>> THEN 1 ELSE 0

TasksKnown == \A i \in DOMAIN requetes :
  requetes[i].str.exec_task # None => Task(requetes[i].str.exec_task)

\* The steps at which nothing changes the tables any more.
Settled == Generating \cup {"refused", "done"}

ResolvedInv ==
  /\ pc \notin {"parse", "requests", "exit"} => Numbered
  /\ pc \in {"tasks", "includes"} \cup Settled => Zoned
  /\ pc \in {"includes"} \cup Settled => TasksKnown

LEMMA ZonesSame ==
  ASSUME UNCHANGED <<requetes, zones>>
  PROVE  (Numbered => Numbered') /\ (Zoned => Zoned')
<1>1. \A i, d : Zones(i, d)' = Zones(i, d)
  BY DEF Zones
<1>2. \A i, d : /\ (Reentrant(requetes[i]))' = Reentrant(requetes[i])
               /\ (Given(requetes[i], d))' = Given(requetes[i], d)
  BY DEF Reentrant, Given
<1>3. Zoned => Zoned'
  BY <1>1, <1>2 DEF Zoned
<1> QED
  BY <1>3 DEF Numbered

LEMMA ResolvedSame ==
  ASSUME UNCHANGED <<requetes, taches, zones>>
  PROVE  (Numbered => Numbered') /\ (Zoned => Zoned') /\ (TasksKnown => TasksKnown')
BY ZonesSame DEF TasksKnown, Task, None

LEMMA AddArraysZones ==
  ASSUME TableTypes, Numbered, AddArrays
  PROVE  Zoned'
<1> DEFINE of(r, d, p) == IF p = <<>> THEN <<>> ELSE << [rqst |-> r.num, dir |-> d] >>
           both(r) == of(r, "Input", r.str.input) \o of(r, "Output", r.str.output)
           g(i) == IF requetes[i].str.type = "EXEC" /\ Reentrant(requetes[i])
                   THEN both(requetes[i]) ELSE <<>>
           ss == [i \in DOMAIN requetes |-> g(i)]
           Z == [rqst : Nat, dir : {"Input", "Output"}]
           entry(i, d) == [rqst |-> requetes[i].num, dir |-> d]
           wanted(i, d) == /\ requetes[i].str.type = "EXEC" /\ Reentrant(requetes[i])
                           /\ Given(requetes[i], d) # <<>>
<1>1. zones' = FlattenSeq(ss) /\ requetes' = requetes
  BY DEF AddArrays, tables
<1>2. DOMAIN requetes = 1 .. Len(requetes) /\ Len(requetes) \in Nat
  BY DEF TableTypes
<1>3. ASSUME NEW i \in DOMAIN requetes, NEW d \in {"Input", "Output"}, NEW p
      PROVE  /\ of(requetes[i], d, p) \in Seq(Z) /\ Once(of(requetes[i], d, p))
             /\ Range(of(requetes[i], d, p)) = IF p = <<>> THEN {} ELSE {entry(i, d)}
  <2>1. entry(i, d) \in Z
    BY <1>2 DEF Numbered
  <2>2. CASE p = <<>>
    <3>1. <<>> \in Seq(Z) /\ DOMAIN <<>> = {}
      OBVIOUS
    <3> QED BY <2>2, <3>1 DEF Once, Range
  <2>3. CASE p # <<>>
    <3> DEFINE e == entry(i, d)
    <3>1. of(requetes[i], d, p) = <<e>>
      BY <2>3
    <3>2. e \in Z
      BY <2>1
    <3> HIDE DEF e, Z, of
    <3>3. <<e>> \in Seq(Z) /\ DOMAIN <<e>> = {1} /\ <<e>>[1] = e
      BY <3>2
    <3>4. Range(<<e>>) = {e} /\ Once(<<e>>)
      BY <3>3 DEF Once, Range
    <3> QED BY <2>3, <3>1, <3>3, <3>4 DEF e
  <2> QED BY <2>2, <2>3
<1>4. ASSUME NEW i \in DOMAIN requetes
      PROVE  /\ g(i) \in Seq(Z) /\ Once(g(i))
             /\ Range(g(i)) = {entry(i, d) : d \in {e \in {"Input", "Output"} : wanted(i, e)}}
  <2> DEFINE r == requetes[i]
             a == of(r, "Input", r.str.input)
             b == of(r, "Output", r.str.output)
  <2>1. /\ a \in Seq(Z) /\ Once(a) /\ Range(a) = IF r.str.input = <<>> THEN {} ELSE {entry(i, "Input")}
        /\ b \in Seq(Z) /\ Once(b) /\ Range(b) = IF r.str.output = <<>> THEN {} ELSE {entry(i, "Output")}
    BY <1>3
  <2>2. entry(i, "Input") # entry(i, "Output")
    OBVIOUS
  <2>3. Range(a) \cap Range(b) = {}
    BY <2>1, <2>2
  <2>4. g(i) = IF r.str.type = "EXEC" /\ Reentrant(r) THEN a \o b ELSE <<>>
    OBVIOUS
  <2>5. CASE r.str.type = "EXEC" /\ Reentrant(r)
    <3> HIDE DEF a, b, Z, g
    <3>1. a \o b \in Seq(Z)
      BY <2>1
    <3>2. Once(a \o b) /\ Range(a \o b) = Range(a) \cup Range(b)
      BY <2>1, <2>3, OnceConcat, RangeConcatenation
    <3>3. Range(a) \cup Range(b) = {entry(i, d) : d \in {e \in {"Input", "Output"} : wanted(i, e)}}
      BY <2>1, <2>5 DEF Given
    <3> QED BY <2>4, <2>5, <3>1, <3>2, <3>3
  <2>6. CASE ~ (r.str.type = "EXEC" /\ Reentrant(r))
    <3>1. <<>> \in Seq(Z) /\ DOMAIN <<>> = {}
      OBVIOUS
    <3>2. g(i) = <<>> /\ {e \in {"Input", "Output"} : wanted(i, e)} = {}
      BY <2>4, <2>6
    <3> QED BY <3>1, <3>2 DEF Once, Range
  <2> QED BY <2>5, <2>6
<1> HIDE DEF g, Z
<1>5. ss \in Seq(Seq(Z)) /\ DOMAIN ss = DOMAIN requetes /\ \A i \in DOMAIN requetes : ss[i] = g(i)
  BY <1>2, <1>4
<1>6. ASSUME NEW i \in DOMAIN ss, NEW j \in DOMAIN ss, i # j
      PROVE  Range(ss[i]) \cap Range(ss[j]) = {}
  <2>1. requetes[i].num # requetes[j].num
    BY <1>2, <1>5, <1>6 DEF Numbered
  <2>2. \A z \in Range(ss[i]) : z.rqst = requetes[i].num
    BY <1>4, <1>5
  <2>3. \A z \in Range(ss[j]) : z.rqst = requetes[j].num
    BY <1>4, <1>5
  <2> QED BY <2>1, <2>2, <2>3
<1>7. Once(zones') /\ Range(zones') = UNION {Range(ss[i]) : i \in DOMAIN ss}
  <2>1. \A i \in DOMAIN ss : Once(ss[i])
    BY <1>4, <1>5
  <2> HIDE DEF ss
  <2> QED BY <1>1, <1>5, <1>6, <2>1, FlattenedOnce, Flattened
<1> HIDE DEF ss
<1> SUFFICES ASSUME NEW i \in DOMAIN requetes, NEW d \in {"Input", "Output"},
                    requetes[i].str.type = "EXEC"
             PROVE  Cardinality({j \in DOMAIN zones' : zones'[j] = entry(i, d)}) =
                      IF Reentrant(requetes[i]) /\ Given(requetes[i], d) # <<>> THEN 1 ELSE 0
  <2>1. \A i, d : Zones(i, d)' = {j \in DOMAIN zones' : zones'[j] = entry(i, d)}
    BY <1>1 DEF Zones
  <2>2. \A i, d : /\ (Reentrant(requetes[i]))' = Reentrant(requetes[i])
                 /\ (Given(requetes[i], d))' = Given(requetes[i], d)
    BY <1>1 DEF Reentrant, Given
  <2> HIDE DEF entry
  <2> QED BY <1>1, <2>1, <2>2 DEF Zoned
<1> DEFINE J == {j \in DOMAIN zones' : zones'[j] = entry(i, d)}
<1>8. entry(i, d) \in Range(zones') <=> wanted(i, d)
  <2>1. wanted(i, d) => entry(i, d) \in Range(ss[i])
    BY <1>4, <1>5
  <2>2. ASSUME NEW l \in DOMAIN ss, entry(i, d) \in Range(ss[l]) PROVE wanted(i, d)
    <3>1. PICK e \in {"Input", "Output"} : entry(i, d) = entry(l, e) /\ wanted(l, e)
      BY <1>4, <1>5, <2>2
    <3>2. entry(i, d).rqst = entry(l, e).rqst /\ entry(i, d).dir = entry(l, e).dir
      BY <3>1
    <3>3. requetes[i].num = requetes[l].num /\ d = e
      BY <3>2
    <3>4. i = l
      BY <1>2, <1>5, <3>3 DEF Numbered
    <3> QED BY <3>1, <3>3, <3>4
  <2> QED BY <1>5, <1>7, <2>1, <2>2
<1>9. CASE wanted(i, d)
  <2>1. PICK j \in DOMAIN zones' : zones'[j] = entry(i, d)
    BY <1>8, <1>9 DEF Range
  <2>2. J = {j}
    BY <1>7, <2>1 DEF Once
  <2> QED BY <1>9, <2>2, FS_Singleton
<1>10. CASE ~ wanted(i, d)
  <2>1. J = {}
    BY <1>8, <1>10 DEF Range
  <2> QED BY <1>10, <2>1, FS_EmptySet
<1> QED
  BY <1>9, <1>10

LEMMA MiddleIs ==
  ASSUME DescInv, RefsInv,
         \/ ResolveSdi \/ ResolveUse \/ UsesResolved \/ ResolvePoster \/ PostersResolved
         \/ ResolveTaskInput
  PROVE  /\ UNCHANGED requetes /\ pc \in {"sdi", "uses", "posters", "inputs"}
         /\ pc' \in {"exit", "undefined", "crash", "uses", "posters", "inputs"}
<1>1. CASE ResolvePoster
  <2>1. pc = "posters" /\ (Stop("exit") \/ Stop("undefined") \/ (UNCHANGED <<pc, requetes>>))
    BY <1>1, ResolvePosterCases DEF ResolvePoster, Next1
  <2> QED BY <2>1 DEF Stop, tables
<1>2. CASE ResolveSdi \/ ResolveUse \/ UsesResolved \/ PostersResolved \/ ResolveTaskInput
  BY <1>2 DEF ResolveSdi, ResolveUse, RegisterInput, Next1, UsesResolved, PostersResolved,
     ResolveTaskInput, Go, Stop, tables
<1> QED
  BY <1>1, <1>2

LEMMA ResolvedKept ==
  ASSUME DescInv, RefsInv, ResolvedInv, [Next]_cvars
  PROVE  ResolvedInv'
<1>0. Settled' = Settled
  BY DEF Settled, Generating
<1>1. CASE Parse
  <2>1. pc' \in {"parse", "requests", "exit"}
    BY <1>1 DEF Parse, ParseModule, ParseTypedef, ParseAlias, OpenImport, CloseImport, ParseRequest,
         ParseTask, ParsePoster, EndOfFile, Element, Is, Stop
  <2> QED BY <1>0, <2>1 DEF ResolvedInv, Settled, Generating
<1>2. CASE ResolveRequests
  <2>1. pc' = "sdi" /\ Numbered'
    <3>1. requetes \in Seq(Requests)
      BY DEF DescInv, TableTypes
    <3>2. /\ requetes' = [i \in DOMAIN requetes |->
                            [requetes[i] EXCEPT !.num = i - 1,
                                                !.incompatible = Incompatible(requetes[i])]]
          /\ pc' = "sdi"
      BY <1>2 DEF ResolveRequests, Go
    <3>3. ASSUME NEW i \in DOMAIN requetes PROVE requetes'[i].num = i - 1
      <4>1. requetes[i] \in Requests
        BY <3>1
      <4> QED BY <3>2, <4>1 DEF Requests
    <3> QED BY <3>2, <3>3 DEF Numbered
  <2> QED BY <1>0, <2>1 DEF ResolvedInv, Settled, Generating
<1>3. CASE \/ ResolveSdi \/ ResolveUse \/ UsesResolved \/ ResolvePoster \/ PostersResolved
           \/ ResolveTaskInput
  <2>1. /\ UNCHANGED requetes /\ pc \in {"sdi", "uses", "posters", "inputs"}
        /\ pc' \in {"exit", "undefined", "crash", "uses", "posters", "inputs"}
    BY <1>3, MiddleIs
  <2>2. Numbered => Numbered'
    BY <2>1 DEF Numbered
  <2> QED BY <1>0, <2>1, <2>2 DEF ResolvedInv, Settled, Generating
<1>4. CASE AddArrays
  <2>1. pc = "inputs" /\ pc' = "tasks" /\ UNCHANGED requetes
    BY <1>4 DEF AddArrays, Go, tables
  <2>2. Numbered
    BY <2>1 DEF ResolvedInv
  <2>3. Numbered'
    BY <2>1, <2>2 DEF Numbered
  <2>4. Zoned'
    BY <1>4, <2>2, AddArraysZones DEF DescInv
  <2> QED BY <1>0, <2>1, <2>3, <2>4 DEF ResolvedInv, Settled, Generating
<1>5. CASE ResolveTasks
  <2>1. CASE Stop("exit")
    BY <1>0, <2>1 DEF Stop, ResolvedInv, Settled, Generating
  <2>2. CASE ~ Stop("exit")
    <3>1. /\ pc = "tasks" /\ pc' = "includes" /\ UNCHANGED <<requetes, zones>> /\ TasksKnown
          /\ taches' = [i \in DOMAIN taches |-> [taches[i] EXCEPT !.num = i - 1]]
      BY <1>5, <2>2 DEF ResolveTasks, Go, TasksKnown, resolved
    <3>2. \A n : Task(n) => Task(n)'
      <4>1. taches \in Seq(ExecTasks)
        BY DEF DescInv, TableTypes
      <4>2. \A i \in DOMAIN taches : taches'[i].name = taches[i].name /\ i \in DOMAIN taches'
        <5> TAKE i \in DOMAIN taches
        <5>1. taches[i] \in ExecTasks
          BY <4>1
        <5> QED BY <3>1, <5>1 DEF ExecTasks
      <4> QED BY <4>2 DEF Task
    <3>3. TasksKnown'
      BY <3>1, <3>2 DEF TasksKnown, None
    <3>4. (Numbered => Numbered') /\ (Zoned => Zoned')
      BY <3>1, ZonesSame
    <3> QED BY <1>0, <3>1, <3>3, <3>4 DEF ResolvedInv, Settled, Generating
  <2> QED BY <2>1, <2>2
<1>6. CASE Generate \/ ConstruitIncludeList \/ UNCHANGED cvars
  <2>1. UNCHANGED <<requetes, taches, zones>>
    BY <1>6, GenerateIs DEF ConstruitIncludeList, tables, resolved, cvars, gvars
  <2>2. UNCHANGED pc \/ (pc \in {"includes"} \cup Generating)
    BY <1>6, GenerateIs DEF ConstruitIncludeList, cvars, gvars
  <2>3. (Numbered => Numbered') /\ (Zoned => Zoned') /\ (TasksKnown => TasksKnown')
    BY <2>1, ResolvedSame
  <2> QED BY <1>0, <2>2, <2>3 DEF ResolvedInv, Settled, Generating
<1> QED
  BY <1>1, <1>2, <1>3, <1>4, <1>5, <1>6 DEF Next, Resolve

-----------------------------------------------------------------------------
(* What the generators write in the tables of the module and of its clients *)

RqstNums == [i \in DOMAIN requetes |-> requetes[i].num]
TaskNames == [i \in DOMAIN taches |-> taches[i].name]
FirstInitRqst == requetes[Min(InitRequests)]

ErrorOut == ReportAtoms \subseteq Range(out.error) /\ Once(out.error)

PosterOut ==
  /\ out.poster.tasks = TaskNames
  /\ \A rqst \in Range(out.poster.rqsts) : \E i \in DOMAIN requetes :
       rqst.name = requetes[i].name /\ rqst.num = requetes[i].num

MsgOut == out.msg.nums = RqstNums /\ out.msg.abort = AbortNum

SentTo(r, h) == h.task + 1 \in DOMAIN taches /\ taches[h.task + 1].name = r.str.exec_task
CntrlOut ==
  /\ out.cntrl.nums = RqstNums /\ out.cntrl.abort = AbortNum /\ out.cntrl.tasks = TaskNames
  /\ out.cntrl.init = IF InitRequests = {} THEN -1 ELSE FirstInitRqst.num
  /\ \A i \in DOMAIN requetes :
       /\ out.cntrl.handlers[i].reentrant = Reentrant(requetes[i])
       /\ requetes[i].str.type # "CONTROL" => SentTo(requetes[i], out.cntrl.handlers[i])

ExecOut ==
  /\ DOMAIN out.exec = DOMAIN taches
  /\ \A t \in DOMAIN taches : \A i \in DOMAIN requetes :
       out.exec[t].codels[i] = Codel(taches[t], requetes[i])

ModuleOut == \A t \in DOMAIN taches : out.module.tasks[t].name = taches[t].name

Offers(r, s) == s[1] = "request" =>
  \E q \in Range(requetes) : q.name = s[2] /\ q.str.output = r.str.input
TestOut == \A i \in DOMAIN requetes :
  /\ out.test[i].num = requetes[i].num
  /\ \A j \in DOMAIN out.test[i].menu : Offers(requetes[i], out.test[i].menu[j])

InitOut ==
  /\ out.init.flag <=> InitRequests # {}
  /\ InitRequests # {} => /\ out.init.num = FirstInitRqst.num
                          /\ out.init.params = TclWords(FirstInitRqst)

AtomsOut == out.atoms \subseteq ReportAtoms
TclOut == out.tcl # <<>> => \A i \in DOMAIN requetes : out.tcl.args[i] = TclArgNumber(requetes[i])

AbortIn(rs) ==
  CHOOSE n \in 0 .. Len(rs) : /\ \A i \in DOMAIN rs : rs[i].num # n
                              /\ \A m \in 0 .. n - 1 : \E i \in DOMAIN rs : rs[i].num = m
AbortRead == AbortNum = AbortIn(requetes)

LEMMA AbortReadNow == AbortRead
BY DEF AbortRead, AbortNum, AbortIn

LEMMA AbortReadNext == AbortRead'
BY AbortReadNow, PTL

LEMMA TablesSame ==
  ASSUME UNCHANGED tables
  PROVE  /\ RqstNums' = RqstNums /\ TaskNames' = TaskNames /\ AbortNum' = AbortNum
         /\ InitRequests' = InitRequests /\ FirstInitRqst' = FirstInitRqst
         /\ ReportAtoms' = ReportAtoms
         /\ \A r : TclWords(r)' = TclWords(r)
<1>1. UNCHANGED <<typedefs, types, requetes, taches, posters, module>>
  BY DEF tables
<1>2. RqstNums' = RqstNums /\ TaskNames' = TaskNames /\ ReportAtoms' = ReportAtoms
  BY <1>1 DEF RqstNums, TaskNames, ReportAtoms, Range
<1>3. InitRequests' = InitRequests
  BY <1>1 DEF InitRequests
<1>4. FirstInitRqst' = FirstInitRqst
  BY <1>1, <1>3 DEF FirstInitRqst
<1>5. AbortNum' = AbortNum
  BY <1>1, AbortReadNow, AbortReadNext DEF AbortRead
<1>6. \A p : TypeAt(p)' = TypeAt(p)
  <2>1. SdiType' = SdiType
    BY <1>1 DEF SdiType, StructType
  <2>2. \A m : Member(m)' = Member(m)
    BY <1>1 DEF Member
  <2>3. \A p : SdiRef(p)' = SdiRef(p)
    BY <1>1, WalkSame
  <2>4. \A p : TypeAt(p)' = IF p = ALL THEN SdiType' ELSE Member(SdiRef(p)').type
    BY <1>1 DEF TypeAt, Member, ALL
  <2> QED BY <2>1, <2>2, <2>3, <2>4 DEF TypeAt, Member
<1>7. \A t : Leaves(t)' = Leaves(t)
  BY <1>1, ReadTablesNow, ReadTablesNext DEF ReadTables
<1>8. \A r : TclWords(r)' = TclWords(r)
  <2>1. \A r : TclWords(r)' = IF r.str.input = <<>> THEN <<>> ELSE (Leaves(TypeAt(r.str.input)))'
    BY DEF TclWords
  <2>2. \A r : TclWords(r) = IF r.str.input = <<>> THEN <<>> ELSE Leaves(TypeAt(r.str.input))
    BY DEF TclWords
  <2>3. \A p : (Leaves(TypeAt(p)))' = Leaves(TypeAt(p))
    <3>1. \A t : Leaves(t) = LeavesIn(types, t)
      BY ReadTablesNow DEF ReadTables
    <3>2. \A p : (Leaves(TypeAt(p)))' = LeavesIn(types', TypeAt(p)')
      BY ReadTablesNext DEF ReadTables
    <3> QED BY <1>1, <1>6, <3>1, <3>2
  <2> QED BY <2>1, <2>2, <2>3
<1> QED
  BY <1>2, <1>3, <1>4, <1>5, <1>8

LEMMA OutSame ==
  ASSUME UNCHANGED tables
  PROVE  /\ out'.error = out.error /\ ErrorOut => ErrorOut'
         /\ out'.poster = out.poster /\ PosterOut => PosterOut'
         /\ out'.msg = out.msg /\ MsgOut => MsgOut'
         /\ out'.cntrl = out.cntrl /\ CntrlOut => CntrlOut'
         /\ out'.exec = out.exec /\ ExecOut => ExecOut'
         /\ out'.module = out.module /\ ModuleOut => ModuleOut'
         /\ out'.test = out.test /\ TestOut => TestOut'
         /\ out'.init = out.init /\ InitOut => InitOut'
         /\ out'.atoms = out.atoms /\ AtomsOut => AtomsOut'
         /\ out'.tcl = out.tcl /\ TclOut => TclOut'
<1>1. UNCHANGED <<requetes, taches>>
  BY DEF tables
<1>2. out'.error = out.error /\ ErrorOut => ErrorOut'
  BY TablesSame DEF ErrorOut, Once, Range
<1>3. out'.poster = out.poster /\ PosterOut => PosterOut'
  BY <1>1, TablesSame DEF PosterOut
<1>4. out'.msg = out.msg /\ MsgOut => MsgOut'
  BY TablesSame DEF MsgOut
<1>5. out'.cntrl = out.cntrl /\ CntrlOut => CntrlOut'
  BY <1>1, TablesSame DEF CntrlOut, SentTo, Reentrant
<1>6. out'.exec = out.exec /\ ExecOut => ExecOut'
  BY <1>1 DEF ExecOut
<1>7. out'.module = out.module /\ ModuleOut => ModuleOut'
  BY <1>1 DEF ModuleOut
<1>8. out'.test = out.test /\ TestOut => TestOut'
  BY <1>1 DEF TestOut, Offers
<1>9. out'.init = out.init /\ InitOut => InitOut'
  <2>1. TclWords(FirstInitRqst)' = TclWords(FirstInitRqst)
    BY TablesSame
  <2> QED BY <2>1, TablesSame DEF InitOut
<1>10. out'.atoms = out.atoms /\ AtomsOut => AtomsOut'
  BY TablesSame DEF AtomsOut
<1>11. out'.tcl = out.tcl /\ TclOut => TclOut'
  <2>1. \A i : TclArgNumber(requetes[i])' = TclArgNumber(requetes[i])
    BY <1>1, TablesSame DEF TclArgNumber
  <2> QED BY <1>1, <2>1 DEF TclOut
<1> QED
  BY <1>2, <1>3, <1>4, <1>5, <1>6, <1>7, <1>8, <1>9, <1>10, <1>11

\* The generator that comes before each step, and what becomes of fatalError.
LEMMA GenerateOrder ==
  ASSUME Generate
  PROVE  /\ pc' = "endian" => ErrorGen
         /\ pc' = "print" => pc = "endian"
         /\ pc' = "xml" => pc = "print"
         /\ pc' = "scan" => pc = "xml"
         /\ pc' = "posterLib" => pc = "scan"
         /\ pc' = "msg" => PosterLibGen
         /\ pc' = "cntrl" => MsgLibGen
         /\ pc' = "exec" => CntrlTaskGen
         /\ pc' = "module" => ExecTaskGen
         /\ pc' = "test" => ModuleInitGen
         /\ pc' = "init" => TestGen
         /\ pc' = "prs" => InitGen \/ (MsgLibGen /\ "server" \notin options)
         /\ pc' = "tcl" => pc = "prs"
         /\ pc' = "end" => pc = "tcl"
         /\ pc' \in {"refused", "done"} => pc = "end"
         /\ pc' = "done" => ~ fatal'
         /\ fatal => fatal'
<1>1. CASE TypeGen \/ TypeGenFreed \/ EndianGen \/ PrintGen \/ PrintXMLGen \/ ScanGen
  BY <1>1 DEF TypeGen, TypeGenFreed, EndianGen, PrintGen, PrintXMLGen, ScanGen, ConvGen, Write, Stop
<1>2. CASE ErrorGen
  <2>1. pc' = "endian" /\ fatal' = fatal
    BY <1>2 DEF ErrorGen, Write
  <2> QED BY <1>2, <2>1
<1>3. CASE PosterLibGen
  <2>1. pc' = "msg" /\ fatal' = fatal
    BY <1>3 DEF PosterLibGen
  <2> QED BY <1>3, <2>1
<1>4. CASE MsgLibGen
  <2>1. pc' = (IF "server" \in options THEN "cntrl" ELSE "prs") /\ fatal' = fatal
    BY <1>4 DEF MsgLibGen, Write, AfterMsg
  <2> QED BY <1>4, <2>1
<1>5. CASE CntrlTaskGen
  <2>1. pc' = "exec" /\ (fatal => fatal')
    BY <1>5 DEF CntrlTaskGen
  <2> QED BY <1>5, <2>1
<1>6. CASE ExecTaskGen
  <2>1. pc' = "module" /\ fatal' = fatal
    BY <1>6 DEF ExecTaskGen, Write
  <2> QED BY <1>6, <2>1
<1>7. CASE ModuleInitGen
  <2>1. pc' = "test" /\ fatal' = fatal
    BY <1>7 DEF ModuleInitGen, Write
  <2> QED BY <1>7, <2>1
<1>8. CASE TestGen
  <2>1. pc' = "init" /\ fatal' = fatal
    BY <1>8 DEF TestGen
  <2> QED BY <1>8, <2>1
<1>9. CASE InitGen
  <2>1. pc' = "prs" /\ (fatal => fatal')
    BY <1>9 DEF InitGen
  <2> QED BY <1>9, <2>1
<1>10. CASE OpenprsGen
  <2>1. pc = "prs" /\ pc' = "tcl" /\ fatal' = fatal
    BY <1>10 DEF OpenprsGen
  <2> QED BY <2>1
<1>11. CASE TclGen
  <2>1. pc = "tcl" /\ pc' = "end" /\ (fatal => fatal')
    BY <1>11 DEF TclGen
  <2> QED BY <2>1
<1>12. CASE SkipBinding
  <2>1. fatal' = fatal /\ ((pc = "prs" /\ pc' = "tcl") \/ (pc = "tcl" /\ pc' = "end"))
    BY <1>12 DEF SkipBinding
  <2> QED BY <2>1
<1>13. CASE MsgLibGenEndless \/ TestGenCrash
  <2>1. pc' \in {"undefined", "crash"} /\ fatal' = fatal
    BY <1>13 DEF MsgLibGenEndless, TestGenCrash, Stop
  <2> QED BY <2>1
<1>14. CASE Finish
  <2>1. pc = "end" /\ pc' = (IF fatal THEN "refused" ELSE "done") /\ fatal' = fatal
    BY <1>14 DEF Finish, Stop
  <2> QED BY <2>1
<1> QED
  BY <1>1, <1>2, <1>3, <1>4, <1>5, <1>6, <1>7, <1>8, <1>9, <1>10, <1>11, <1>12, <1>13, <1>14
     DEF Generate

LEMMA SetSequence ==
  ASSUME NEW S, IsFiniteSet(S)
  PROVE  SetToSeq(S) \in Seq(S) /\ Once(SetToSeq(S)) /\ Range(SetToSeq(S)) = S
<1> DEFINE n == Cardinality(S)
           f == SetToSeq(S)
<1>1. n \in Nat /\ \E b : b \in Bijection(1 .. n, S)
  BY FS_CardinalityType DEF ExistsBijection
<1>2. \E b \in [1 .. n -> S] : IsInjective(b)
  BY <1>1 DEF Bijection, Injection
<1>3. f \in [1 .. n -> S] /\ IsInjective(f)
  BY <1>2 DEF SetToSeq
<1> HIDE DEF f, n
<1>4. f \in Bijection(1 .. n, Range(f))
  BY <1>3 DEF Bijection, Injection, Surjection, Range
<1>5. Cardinality(Range(f)) = n
  <2>1. ExistsBijection(1 .. n, Range(f))
    BY <1>4 DEF ExistsBijection
  <2> QED BY <1>1, <2>1, FS_CountingElements
<1>6. Range(f) \in SUBSET S
  BY <1>3 DEF Range
<1>7. Range(f) = S
  BY <1>5, <1>6, FS_Subset DEF n
<1>8. f \in Seq(S) /\ Once(f)
  BY <1>1, <1>3 DEF IsInjective, Once
<1> QED
  BY <1>7, <1>8 DEF f

LEMMA FiniteUnion ==
  ASSUME NEW I, IsFiniteSet(I), NEW f, DOMAIN f = I, \A i \in I : IsFiniteSet(f[i])
  PROVE  IsFiniteSet(UNION {f[i] : i \in I})
<1> DEFINE T == {f[i] : i \in I}
           g == [i \in I |-> f[i]]
<1>1. g \in Surjection(I, T)
  BY DEF Surjection
<1>2. IsFiniteSet(T)
  <2> HIDE DEF g, T
  <2> QED BY <1>1, FS_Surjection
<1>3. \A t \in T : IsFiniteSet(t)
  OBVIOUS
<1> HIDE DEF T
<1>4. IsFiniteSet(UNION T)
  BY <1>2, <1>3, FS_UNION
<1> QED
  BY <1>4 DEF T

LEMMA ErrorGenWrites ==
  ASSUME DescInv, OutShape, ErrorGen
  PROVE  ErrorOut'
<1> DEFINE cntrl == {i \in DOMAIN requetes : requetes[i].str.type = "CONTROL"}
           reports(I) == UNION {requetes[i].str.fail_reports : i \in I}
           exec == UNION {taches[i].str.fail_reports : i \in DOMAIN taches}
           A == reports(cntrl) \ exec
           B == (exec \cup reports(DOMAIN requetes)) \ (reports(cntrl) \ exec)
           e == SetToSeq(A) \o SetToSeq(B)
<1>1. out' = [out EXCEPT !.error = e] /\ UNCHANGED tables
  BY DEF ErrorGen, Write
<1>2. /\ requetes \in Seq(Requests) /\ taches \in Seq(ExecTasks)
      /\ IsFiniteSet(DOMAIN requetes) /\ IsFiniteSet(DOMAIN taches)
  <2>1. requetes \in Seq(Requests) /\ taches \in Seq(ExecTasks)
    BY DEF DescInv, TableTypes
  <2>2. DOMAIN requetes = 1 .. Len(requetes) /\ DOMAIN taches = 1 .. Len(taches)
        /\ Len(requetes) \in Nat /\ Len(taches) \in Nat
    BY <2>1
  <2> QED BY <2>1, <2>2, FS_Interval
<1>3. ASSUME NEW I \in SUBSET DOMAIN requetes
      PROVE  IsFiniteSet(reports(I)) /\ reports(I) \subseteq Words
  <2> DEFINE f == [i \in I |-> requetes[i].str.fail_reports]
  <2>1. \A i \in I : f[i] \in ReportSets
    <3> TAKE i \in I
    <3>1. requetes[i] \in Requests
      BY <1>2
    <3>2. requetes[i].str \in RqstStr
      BY <3>1 DEF Requests
    <3> QED BY <3>2 DEF RqstStr
  <2>2. reports(I) = UNION {f[i] : i \in I} /\ DOMAIN f = I
    OBVIOUS
  <2>3. IsFiniteSet(I)
    BY <1>2, FS_Subset
  <2> HIDE DEF f, reports
  <2>4. \A i \in I : IsFiniteSet(f[i]) /\ f[i] \subseteq Words
    BY <2>1 DEF ReportSets
  <2> QED BY <2>2, <2>3, <2>4, FiniteUnion
<1>4. IsFiniteSet(exec) /\ exec \subseteq Words
  <2> DEFINE f == [i \in DOMAIN taches |-> taches[i].str.fail_reports]
  <2>1. \A i \in DOMAIN taches : f[i] \in ReportSets
    <3> TAKE i \in DOMAIN taches
    <3>1. taches[i] \in ExecTasks
      BY <1>2
    <3>2. taches[i].str \in TaskStr
      BY <3>1 DEF ExecTasks
    <3> QED BY <3>2 DEF TaskStr
  <2>2. exec = UNION {f[i] : i \in DOMAIN taches} /\ DOMAIN f = DOMAIN taches
    OBVIOUS
  <2> HIDE DEF f, exec
  <2>3. \A i \in DOMAIN taches : IsFiniteSet(f[i]) /\ f[i] \subseteq Words
    BY <2>1 DEF ReportSets
  <2> QED BY <1>2, <2>2, <2>3, FiniteUnion
<1>5. cntrl \in SUBSET DOMAIN requetes /\ DOMAIN requetes \in SUBSET DOMAIN requetes
  OBVIOUS
<1>6. ReportAtoms = reports(DOMAIN requetes)
  BY DEF ReportAtoms, Range
<1>7. reports(cntrl) \subseteq reports(DOMAIN requetes)
  OBVIOUS
<1> HIDE DEF cntrl, reports, exec
<1>8. /\ IsFiniteSet(reports(cntrl)) /\ IsFiniteSet(reports(DOMAIN requetes))
      /\ reports(cntrl) \subseteq Words /\ reports(DOMAIN requetes) \subseteq Words
  BY <1>3, <1>5
<1>9. IsFiniteSet(A) /\ IsFiniteSet(B) /\ A \subseteq Words /\ B \subseteq Words
  <2>1. IsFiniteSet(exec \cup reports(DOMAIN requetes))
    BY <1>4, <1>8, FS_Union
  <2>2. A \in SUBSET reports(cntrl) /\ B \in SUBSET (exec \cup reports(DOMAIN requetes))
    OBVIOUS
  <2>3. A \subseteq Words /\ B \subseteq Words
    BY <1>4, <1>8
  <2> HIDE DEF A, B
  <2> QED BY <1>8, <2>1, <2>2, <2>3, FS_Subset
<1>10. A \cap B = {} /\ ReportAtoms \subseteq A \cup B
  BY <1>6, <1>7
<1> HIDE DEF A, B
<1>11. /\ SetToSeq(A) \in Seq(A) /\ Once(SetToSeq(A)) /\ Range(SetToSeq(A)) = A
       /\ SetToSeq(B) \in Seq(B) /\ Once(SetToSeq(B)) /\ Range(SetToSeq(B)) = B
  BY <1>9, SetSequence
<1>12. SetToSeq(A) \in Seq(Words) /\ SetToSeq(B) \in Seq(Words)
  <2> DEFINE a == SetToSeq(A)
             b == SetToSeq(B)
  <2>1. a \in Seq(A) /\ b \in Seq(B)
    BY <1>11
  <2> HIDE DEF a, b
  <2>2. a \in Seq(Words) /\ b \in Seq(Words)
    BY <1>9, <2>1
  <2> QED BY <2>2 DEF a, b
<1>13. Once(e) /\ Range(e) = A \cup B
  BY <1>10, <1>11, <1>12, OnceConcat, RangeConcatenation
<1> HIDE DEF e
<1>14. out'.error = e
  BY <1>1 DEF OutShape, OutFields
<1>15. ReportAtoms' = ReportAtoms
  BY <1>1, TablesSame
<1> QED
  BY <1>10, <1>13, <1>14, <1>15 DEF ErrorOut

LEMMA PosterLibGenWrites ==
  ASSUME DescInv, OutShape, PosterLibGen
  PROVE  PosterOut'
<1> DEFINE N == [name : Words, num : Nat]
           of(r) == IF r.str.type \in {"EXEC", "INIT"}
                    THEN << [name |-> r.name, num |-> r.num] >> ELSE <<>>
           e(i) == of(requetes[i])
           ss == [i \in DOMAIN requetes |-> e(i)]
           p == [tasks |-> posterExecTaskNameTab, rqsts |-> posterRequestNameTab]
           C == Calls({"endian", "print", "xml"}, ReadTypes)
<1>1. out' = [out EXCEPT !.poster = p, !.calls = @ \cup C] /\ UNCHANGED tables
  BY DEF PosterLibGen
<1>2. requetes \in Seq(Requests)
  BY DEF DescInv, TableTypes
<1>3. ASSUME NEW i \in DOMAIN requetes
      PROVE  e(i) \in Seq(N) /\ Range(e(i)) \subseteq {[name |-> requetes[i].name, num |-> requetes[i].num]}
  <2> DEFINE x == [name |-> requetes[i].name, num |-> requetes[i].num]
  <2>1. requetes[i] \in Requests
    BY <1>2
  <2>2. x \in N
    BY <2>1 DEF Requests
  <2>3. e(i) = <<x>> \/ e(i) = <<>>
    OBVIOUS
  <2> HIDE DEF N, x, e
  <2>4. <<x>> \in Seq(N) /\ DOMAIN <<x>> = {1} /\ <<x>>[1] = x
    BY <2>2
  <2>5. <<>> \in Seq(N) /\ DOMAIN <<>> = {}
    OBVIOUS
  <2>6. e(i) \in Seq(N) /\ Range(e(i)) \subseteq {x}
    BY <2>3, <2>4, <2>5 DEF Range
  <2> QED BY <2>6 DEF x
<1>4. ss \in Seq(Seq(N)) /\ DOMAIN ss = DOMAIN requetes /\ \A i \in DOMAIN requetes : ss[i] = e(i)
  <2>1. DOMAIN requetes = 1 .. Len(requetes) /\ Len(requetes) \in Nat
    BY <1>2
  <2> HIDE DEF e, N
  <2> QED BY <1>3, <2>1
<1>5. posterRequestNameTab = FlattenSeq(ss)
  BY DEF posterRequestNameTab
<1> HIDE DEF ss, e, N
<1>6. Range(posterRequestNameTab) = UNION {Range(ss[i]) : i \in DOMAIN ss}
  BY <1>4, <1>5, Flattened
<1>7. \A rqst \in Range(posterRequestNameTab) : \E i \in DOMAIN requetes :
        rqst.name = requetes[i].name /\ rqst.num = requetes[i].num
  <2> TAKE rqst \in Range(posterRequestNameTab)
  <2>1. PICK i \in DOMAIN ss : rqst \in Range(ss[i])
    BY <1>6
  <2>2. rqst = [name |-> requetes[i].name, num |-> requetes[i].num] /\ i \in DOMAIN requetes
    BY <1>3, <1>4, <2>1
  <2> QED BY <2>2
<1>8. p.tasks = TaskNames /\ p.rqsts = posterRequestNameTab
  BY DEF posterExecTaskNameTab, TaskNames
<1> HIDE DEF p, C
<1>9. out'.poster = p
  BY <1>1 DEF OutShape, OutFields
<1>10. TaskNames' = TaskNames /\ requetes' = requetes
  BY <1>1, TablesSame DEF tables
<1> QED
  BY <1>7, <1>8, <1>9, <1>10 DEF PosterOut

LEMMA MsgLibGenWrites ==
  ASSUME OutShape, MsgLibGen
  PROVE  MsgOut'
<1>1. /\ \E x, y : out' = [out EXCEPT !["msg"] =
                      [nums |-> RqstNums, abort |-> AbortNum, rqstSize |-> x, replySize |-> y]]
      /\ UNCHANGED tables
  BY DEF MsgLibGen, Write, RqstNums
<1>2. out'.msg.nums = RqstNums /\ out'.msg.abort = AbortNum
  BY <1>1 DEF OutShape, OutFields
<1> QED
  BY <1>1, <1>2, TablesSame DEF MsgOut

LEMMA NumTaskIs ==
  ASSUME TableTypes, NEW n, Task(n)
  PROVE  NumTask(n) + 1 \in DOMAIN taches /\ taches[NumTask(n) + 1].name = n
<1> DEFINE T == {i \in 1 .. Len(taches) : taches[i].name = n}
           first == SelectInSeq(taches, LAMBDA t : t.name = n)
<1>1. DOMAIN taches = 1 .. Len(taches) /\ Len(taches) \in Nat
  BY DEF TableTypes
<1>2. first = IF T # {} THEN Min(T) ELSE 0
  BY DEF SelectInSeq
<1>3. T # {} /\ T \in SUBSET Nat
  BY <1>1 DEF Task
<1>4. Min(T) \in T
  <2> HIDE DEF T
  <2> QED BY <1>3, MinIs
<1>5. first \in T
  BY <1>2, <1>3, <1>4
<1>6. NumTask(n) = first - 1
  BY DEF NumTask
<1>7. first \in 1 .. Len(taches) /\ taches[first].name = n
  BY <1>5
<1> HIDE DEF first
<1>8. (first - 1) + 1 = first
  BY <1>7
<1> QED
  BY <1>1, <1>6, <1>7, <1>8

LEMMA CntrlTaskGenWrites ==
  ASSUME DescInv, OutShape, TasksKnown, CntrlTaskGen
  PROVE  fatal' \/ CntrlOut'
<1> DEFINE alone == \E i \in DOMAIN requetes : /\ requetes[i].str.type # "CONTROL"
                                               /\ requetes[i].str.exec_task = None
           init == IF InitRequests = {} THEN -1 ELSE FirstInitRqst.num
           handlers == [i \in DOMAIN requetes |-> Handler(requetes[i])]
           c == [nums |-> RqstNums, abort |-> AbortNum, init |-> init, tasks |-> TaskNames,
                 handlers |-> handlers]
<1> SUFFICES ASSUME ~ fatal' PROVE CntrlOut'
  OBVIOUS
<1>1. ~ alone
  BY DEF CntrlTaskGen
<1>2. out' = [out EXCEPT !.cntrl = c] /\ UNCHANGED tables
  BY <1>1 DEF CntrlTaskGen, RqstNums, TaskNames, FirstInitRqst
<1>3. \A i \in DOMAIN requetes :
        /\ handlers[i].reentrant = Reentrant(requetes[i])
        /\ requetes[i].str.type # "CONTROL" => SentTo(requetes[i], handlers[i])
  <2> TAKE i \in DOMAIN requetes
  <2> DEFINE r == requetes[i]
  <2>1. handlers[i].reentrant = Reentrant(r) /\ handlers[i].task = NumTask(r.str.exec_task)
    BY DEF Handler, ReentrantFlag, Reentrant
  <2>2. ASSUME r.str.type # "CONTROL" PROVE SentTo(r, handlers[i])
    <3>1. Task(r.str.exec_task)
      BY <1>1, <2>2 DEF TasksKnown
    <3> QED BY <2>1, <3>1, NumTaskIs DEF SentTo, DescInv
  <2> QED BY <2>1, <2>2
<1> HIDE DEF handlers, init, alone
<1>4. c.nums = RqstNums /\ c.abort = AbortNum /\ c.tasks = TaskNames /\ c.init = init
      /\ c.handlers = handlers
  OBVIOUS
<1> HIDE DEF c
<1>5. out'.cntrl = c
  BY <1>2 DEF OutShape, OutFields
<1>6. UNCHANGED <<requetes, taches>>
  BY <1>2 DEF tables
<1>7. \A i : (Reentrant(requetes[i]))' = Reentrant(requetes[i])
  BY <1>6 DEF Reentrant
<1>8. \A i, h : (SentTo(requetes[i], h))' <=> SentTo(requetes[i], h)
  BY <1>6 DEF SentTo
<1>9. /\ RqstNums' = RqstNums /\ AbortNum' = AbortNum /\ TaskNames' = TaskNames
      /\ InitRequests' = InitRequests /\ FirstInitRqst' = FirstInitRqst
  BY <1>2, TablesSame
<1>10. \A i \in DOMAIN requetes' :
         /\ out'.cntrl.handlers[i].reentrant = Reentrant(requetes[i])
         /\ requetes[i].str.type # "CONTROL" => (SentTo(requetes[i], out.cntrl.handlers[i]))'
  BY <1>3, <1>4, <1>5, <1>6 DEF SentTo
<1> QED
  BY <1>4, <1>5, <1>6, <1>7, <1>9, <1>10 DEF CntrlOut, init

LEMMA ExecTaskGenWrites ==
  ASSUME OutShape, ExecTaskGen
  PROVE  ExecOut'
<1> DEFINE mine(t) == SelectSeq(posters, LAMBDA p : p.exec_task = t.name)
           of(t) == [posters |-> IF Len(mine(t)) > MaxPosters THEN MaxPosters + 1 ELSE Len(mine(t)),
                     codels |-> [i \in DOMAIN requetes |-> Codel(t, requetes[i])],
                     update |-> {p.name : p \in {q \in Range(mine(t)) : ~ q.user}}]
           x == [i \in DOMAIN taches |-> of(taches[i])]
<1>1. out' = [out EXCEPT !["exec"] = x] /\ UNCHANGED tables
  BY DEF ExecTaskGen, Write
<1>2. DOMAIN x = DOMAIN taches
      /\ \A t \in DOMAIN taches : \A i \in DOMAIN requetes :
           x[t].codels[i] = Codel(taches[t], requetes[i])
  <2> HIDE DEF mine
  <2> QED OBVIOUS
<1> HIDE DEF x
<1>3. out'.exec = x
  BY <1>1 DEF OutShape, OutFields
<1>4. UNCHANGED <<requetes, taches>>
  BY <1>1 DEF tables
<1> QED
  BY <1>2, <1>3, <1>4 DEF ExecOut

LEMMA ModuleInitGenWrites ==
  ASSUME OutShape, ModuleInitGen
  PROVE  ModuleOut'
<1> DEFINE periodic == \E i \in DOMAIN taches : taches[i].str.period > 0
           ts == [i \in DOMAIN taches |-> [name |-> taches[i].name,
                                           priority |-> taches[i].str.priority]]
           x == [tasks |-> ts, periodic |-> periodic]
<1>1. out' = [out EXCEPT !["module"] = x] /\ UNCHANGED tables
  BY DEF ModuleInitGen, Write
<1>2. \A t \in DOMAIN taches : x.tasks[t].name = taches[t].name
  <2> HIDE DEF periodic
  <2> QED OBVIOUS
<1> HIDE DEF x
<1>3. out'.module = x
  BY <1>1 DEF OutShape, OutFields
<1>4. UNCHANGED taches
  BY <1>1 DEF tables
<1> QED
  BY <1>2, <1>3, <1>4 DEF ModuleOut

\* What the menu of a request offers gives the member that the request takes.
LEMMA SourcesIs ==
  ASSUME TableTypes, NEW r
  PROVE  \A j \in DOMAIN Sources(r) : Offers(r, Sources(r)[j])
<1> DEFINE path == r.str.input
           E == {"request", "poster"} \X Words
           rq(q) == IF q.name # r.name /\ q.str.output = path THEN << <<"request", q.name>> >>
                    ELSE <<>>
           of(p, d) == IF d.path = path THEN << <<"poster", p.name>> >> ELSE <<>>
           dt(p, j) == of(p, p.data[j])
           ps(p) == FlattenSeq([j \in DOMAIN p.data |-> dt(p, j)])
           a(i) == rq(requetes[i])
           b(i) == ps(posters[i])
           sa == [i \in DOMAIN requetes |-> a(i)]
           sb == [i \in DOMAIN posters |-> b(i)]
           ok(S) == \A s \in S : Offers(r, s)
<1>1. Sources(r) = FlattenSeq(sa) \o FlattenSeq(sb)
  BY DEF Sources
<1>2. requetes \in Seq(Requests) /\ posters \in Seq(Posters)
  BY DEF TableTypes
<1>3. ASSUME NEW x \in E PROVE <<x>> \in Seq(E) /\ Range(<<x>>) = {x}
  <2> HIDE DEF E
  <2>1. <<x>> \in Seq(E) /\ DOMAIN <<x>> = {1} /\ <<x>>[1] = x
    OBVIOUS
  <2> QED BY <2>1 DEF Range
<1>4. <<>> \in Seq(E) /\ Range(<<>>) = {}
  <2>1. DOMAIN <<>> = {}
    OBVIOUS
  <2> QED BY <2>1 DEF Range
<1>5. ASSUME NEW i \in DOMAIN requetes PROVE a(i) \in Seq(E) /\ ok(Range(a(i)))
  <2> DEFINE q == requetes[i]
             x == <<"request", q.name>>
  <2>1. q \in Requests /\ q \in Range(requetes)
    BY <1>2 DEF Range
  <2>2. x \in E
    BY <2>1 DEF Requests
  <2>3. CASE q.name # r.name /\ q.str.output = path
    <3>1. Offers(r, x)
      BY <2>1, <2>3 DEF Offers
    <3>2. a(i) = <<x>>
      BY <2>3
    <3> HIDE DEF x, E, a
    <3> QED BY <1>3, <2>2, <3>1, <3>2
  <2>4. CASE ~ (q.name # r.name /\ q.str.output = path)
    <3>1. a(i) = <<>>
      BY <2>4
    <3> HIDE DEF a, E
    <3> QED BY <1>4, <3>1
  <2> QED BY <2>3, <2>4
<1>6. ASSUME NEW i \in DOMAIN posters PROVE b(i) \in Seq(E) /\ ok(Range(b(i)))
  <2> DEFINE p == posters[i]
             x == <<"poster", p.name>>
             ss == [j \in DOMAIN p.data |-> dt(p, j)]
  <2>0. p \in Posters
    BY <1>2
  <2>1. p.data \in Seq(PosterData) /\ p.name \in Words
    BY <2>0 DEF Posters
  <2>2. x \in E /\ Offers(r, x)
    BY <2>1 DEF Offers
  <2>3. ASSUME NEW j \in DOMAIN p.data PROVE dt(p, j) \in Seq(E) /\ ok(Range(dt(p, j)))
    <3>1. dt(p, j) = <<x>> \/ dt(p, j) = <<>>
      OBVIOUS
    <3> HIDE DEF dt, x, E
    <3> QED BY <1>3, <1>4, <2>2, <3>1
  <2>4. ss \in Seq(Seq(E)) /\ \A j \in DOMAIN ss : ok(Range(ss[j]))
    <3>1. DOMAIN p.data = 1 .. Len(p.data) /\ Len(p.data) \in Nat
      BY <2>1
    <3> HIDE DEF dt, E, ok, p
    <3>2. DOMAIN ss = 1 .. Len(p.data) /\ \A j \in 1 .. Len(p.data) : ss[j] = dt(p, j)
      BY <3>1
    <3>3. ss \in Seq(Seq(E))
      BY <2>3, <3>1
    <3> QED BY <2>3, <3>1, <3>2, <3>3
  <2>5. b(i) = FlattenSeq(ss)
    OBVIOUS
  <2> HIDE DEF b, ss, E
  <2> QED BY <2>4, <2>5, Flattened
<1> HIDE DEF a, b, E
<1>7. sa \in Seq(Seq(E)) /\ \A i \in DOMAIN sa : ok(Range(sa[i]))
  <2>1. DOMAIN requetes = 1 .. Len(requetes) /\ Len(requetes) \in Nat
    BY <1>2
  <2> HIDE DEF ok
  <2> QED BY <1>5, <2>1
<1>8. sb \in Seq(Seq(E)) /\ \A i \in DOMAIN sb : ok(Range(sb[i]))
  <2>1. DOMAIN posters = 1 .. Len(posters) /\ Len(posters) \in Nat
    BY <1>2
  <2> HIDE DEF ok
  <2> QED BY <1>6, <2>1
<1> HIDE DEF sa, sb
<1>9. FlattenSeq(sa) \in Seq(E) /\ ok(Range(FlattenSeq(sa)))
  BY <1>7, Flattened
<1>10. FlattenSeq(sb) \in Seq(E) /\ ok(Range(FlattenSeq(sb)))
  BY <1>8, Flattened
<1>11. Range(Sources(r)) = Range(FlattenSeq(sa)) \cup Range(FlattenSeq(sb))
  BY <1>1, <1>9, <1>10, RangeConcatenation
<1> QED
  BY <1>9, <1>10, <1>11 DEF Range

LEMMA TestGenWrites ==
  ASSUME DescInv, OutShape, TestGen
  PROVE  TestOut'
<1> DEFINE e(i) == TestEntry(requetes[i])
           x == [i \in DOMAIN requetes |-> e(i)]
           C == TestCalls
<1>1. out' = [out EXCEPT !.test = x, !.calls = @ \cup C] /\ UNCHANGED tables
  BY DEF TestGen
<1>2. ASSUME NEW i \in DOMAIN requetes
      PROVE  /\ e(i).num = requetes[i].num
             /\ \A j \in DOMAIN e(i).menu : Offers(requetes[i], e(i).menu[j])
  <2> DEFINE r == requetes[i]
  <2>1. e(i).num = r.num /\ e(i).menu = IF r.str.input = <<>> THEN <<>> ELSE Sources(r)
    BY DEF TestEntry
  <2>2. DOMAIN <<>> = {}
    OBVIOUS
  <2>3. \A j \in DOMAIN Sources(r) : Offers(r, Sources(r)[j])
    BY SourcesIs DEF DescInv
  <2> HIDE DEF e
  <2> QED BY <2>1, <2>2, <2>3
<1> HIDE DEF e
<1>3. \A i \in DOMAIN requetes :
        /\ x[i].num = requetes[i].num
        /\ \A j \in DOMAIN x[i].menu : Offers(requetes[i], x[i].menu[j])
  BY <1>2
<1> HIDE DEF x, C
<1>4. out'.test = x
  BY <1>1 DEF OutShape, OutFields
<1>5. UNCHANGED requetes
  BY <1>1 DEF tables
<1>6. \A r, s : Offers(r, s)' <=> Offers(r, s)
  BY <1>5 DEF Offers
<1> QED
  BY <1>3, <1>4, <1>5 DEF TestOut, Offers

LEMMA InitGenWrites ==
  ASSUME OutShape, InitGen
  PROVE  InitOut'
<1> DEFINE r == FirstInitRqst
           params == IF InitRequests = {} \/ r.str.input = <<>> THEN <<>>
                     ELSE Leaves(TypeAt(r.str.input))
           num == IF InitRequests = {} THEN 0 ELSE r.num
           flag == InitRequests # {}
           x == [flag |-> flag, num |-> num, params |-> params]
           C == Calls({"print"}, {TypeAt(r.str.input)})
<1>1. out' = [out EXCEPT !.init = x, !.calls = IF params = <<>> THEN @ ELSE @ \cup C]
      /\ UNCHANGED tables
  BY DEF InitGen, FirstInitRqst
<1>2. /\ x.flag <=> InitRequests # {}
      /\ InitRequests # {} => x.num = r.num /\ x.params = TclWords(r)
  <2>1. x.flag = flag /\ x.num = num /\ x.params = params
    <3> HIDE DEF flag, num, params
    <3> QED OBVIOUS
  <2>2. InitRequests # {} => params = TclWords(r)
    BY DEF TclWords
  <2> HIDE DEF x, params
  <2> QED BY <2>1, <2>2
<1> HIDE DEF x, C, params
<1>3. out'.init = x
  BY <1>1 DEF OutShape, OutFields
<1>4. InitRequests' = InitRequests /\ FirstInitRqst' = FirstInitRqst
      /\ (TclWords(FirstInitRqst))' = TclWords(FirstInitRqst)
  <2>1. InitRequests' = InitRequests /\ FirstInitRqst' = FirstInitRqst
        /\ \A q : TclWords(q)' = TclWords(q)
    BY <1>1, TablesSame
  <2> QED BY <2>1
<1> QED
  BY <1>2, <1>3, <1>4 DEF InitOut

LEMMA OpenprsGenWrites ==
  ASSUME OutShape, OpenprsGen
  PROVE  AtomsOut'
<1> DEFINE C == Calls({"prs"}, PrsTerms)
<1>1. out' = [out EXCEPT !.conv["prs"] = PrsFunctions, !.atoms = ReportAtoms, !.calls = @ \cup C]
      /\ UNCHANGED tables
  BY DEF OpenprsGen
<1> HIDE DEF C
<1>2. out'.atoms = ReportAtoms
  BY <1>1 DEF OutShape, OutFields
<1> QED
  BY <1>1, <1>2, TablesSame DEF AtomsOut

LEMMA TclGenWrites ==
  ASSUME OutShape, TclGen, TclOut
  PROVE  TclOut'
<1> DEFINE args == [i \in DOMAIN requetes |-> TclArgNumber(requetes[i])]
           x == [args |-> args, readers |-> TclReaders]
<1>1. out' = out \/ out' = [out EXCEPT !.tcl = x]
  BY DEF TclGen
<1>2. UNCHANGED tables
  BY DEF TclGen
<1>3. x.args = args
  <2> HIDE DEF args
  <2> QED OBVIOUS
<1>4. CASE out' = out
  BY <1>2, <1>4, OutSame
<1> HIDE DEF x
<1>5. out' = [out EXCEPT !.tcl = x] => out'.tcl = x
  BY DEF OutShape, OutFields
<1>6. UNCHANGED requetes /\ \A r : TclArgNumber(r)' = TclArgNumber(r)
  BY <1>2, TablesSame DEF TclArgNumber, tables
<1>7. \A i \in DOMAIN requetes : x.args[i] = TclArgNumber(requetes[i])
  BY <1>3
<1> QED
  BY <1>1, <1>4, <1>5, <1>6, <1>7 DEF TclOut

AfterPoster == AfterScan \ {"posterLib"}
AfterMsgs == AfterPoster \ {"msg"}
AfterCntrl == AfterMsgs \ {"cntrl"}
AfterExec == AfterCntrl \ {"exec"}
AfterModule == AfterExec \ {"module"}
AfterTest == AfterModule \ {"test"}
AfterInit == AfterTest \ {"init"}

\* Each table says, from the step after its generator on, what the description says.
OutInv ==
  /\ pc \in Resolving => out = Blank
  /\ pc \in Settled => AtomsOut /\ TclOut
  /\ pc \in Settled \ {"gen", "error"} => ErrorOut
  /\ pc \in AfterPoster => PosterOut
  /\ pc \in AfterMsgs => MsgOut
  /\ "server" \in options => /\ pc \in AfterCntrl => fatal \/ CntrlOut
                             /\ pc \in AfterExec => ExecOut
                             /\ pc \in AfterModule => ModuleOut
                             /\ pc \in AfterTest => TestOut
                             /\ pc \in AfterInit => InitOut
  /\ pc = "done" => ~ fatal

\* The file f keeps its content but at the step of its generator.
LEMMA FileKept ==
  ASSUME OutShape, Generate
  PROVE  /\ pc # "error" => out'.error = out.error
         /\ pc # "posterLib" => out'.poster = out.poster
         /\ pc # "msg" => out'.msg = out.msg
         /\ pc # "cntrl" => out'.cntrl = out.cntrl
         /\ pc # "exec" => out'.exec = out.exec
         /\ pc # "module" => out'.module = out.module
         /\ pc # "test" => out'.test = out.test
         /\ pc # "init" => out'.init = out.init
         /\ pc # "prs" => out'.atoms = out.atoms
         /\ pc # "tcl" => out'.tcl = out.tcl
<1>1. OutKept
  BY GenerateWrites
<1>2. /\ <<"error", "error">> \in Writers /\ <<"poster", "posterLib">> \in Writers
      /\ <<"msg", "msg">> \in Writers /\ <<"cntrl", "cntrl">> \in Writers
      /\ <<"exec", "exec">> \in Writers /\ <<"module", "module">> \in Writers
      /\ <<"test", "test">> \in Writers /\ <<"init", "init">> \in Writers
      /\ <<"atoms", "prs">> \in Writers /\ <<"tcl", "tcl">> \in Writers
  BY DEF Writers
<1> QED
  BY <1>1, <1>2 DEF OutKept

\* The generators of the bindings, and those that stop, keep the rest.
LEMMA BindingsWrite ==
  ASSUME OutShape, Generate, AtomsOut, TclOut
  PROVE  AtomsOut' /\ TclOut'
<1>1. UNCHANGED tables /\ pc \in Generating
  BY GenerateIs
<1>2. AtomsOut'
  <2>1. CASE OpenprsGen
    BY <2>1, OpenprsGenWrites
  <2>2. CASE ~ OpenprsGen
    <3>1. pc = "prs" => SkipBinding
      BY <2>2 DEF Generate, TypeGen, TypeGenFreed, ErrorGen, EndianGen, PrintGen, PrintXMLGen,
         ScanGen, ConvGen, Write, PosterLibGen, MsgLibGen, MsgLibGenEndless, CntrlTaskGen,
         ExecTaskGen, ModuleInitGen, TestGen, TestGenCrash, InitGen, TclGen, Finish
    <3>2. out'.atoms = out.atoms
      BY <3>1, FileKept DEF SkipBinding
    <3> QED BY <1>1, <3>2, OutSame
  <2> QED BY <2>1, <2>2
<1>3. TclOut'
  <2>1. CASE TclGen
    BY <2>1, TclGenWrites
  <2>2. CASE ~ TclGen
    <3>1. pc = "tcl" => SkipBinding
      BY <2>2 DEF Generate, TypeGen, TypeGenFreed, ErrorGen, EndianGen, PrintGen, PrintXMLGen,
         ScanGen, ConvGen, Write, PosterLibGen, MsgLibGen, MsgLibGenEndless, CntrlTaskGen,
         ExecTaskGen, ModuleInitGen, TestGen, TestGenCrash, InitGen, OpenprsGen, Finish
    <3>2. out'.tcl = out.tcl
      BY <3>1, FileKept DEF SkipBinding
    <3> QED BY <1>1, <3>2, OutSame
  <2> QED BY <2>1, <2>2
<1> QED
  BY <1>2, <1>3

LEMMA GenerateKeepsOut ==
  ASSUME DescInv, OutShape, ResolvedInv, OutInv, Generate
  PROVE  OutInv'
<1>0. UNCHANGED tables /\ options' = options /\ pc \in Generating
      /\ pc' \in Generating \cup {"undefined", "crash", "refused", "done"}
  BY GenerateIs
<1>1. pc' \notin Resolving
  BY <1>0 DEF Generating, Resolving, Early
<1>2. AtomsOut' /\ TclOut'
  BY <1>0, BindingsWrite DEF OutInv, Settled
<1>3. pc' \in Settled \ {"gen", "error"} => ErrorOut'
  <2>1. CASE ErrorGen
    BY <2>1, ErrorGenWrites
  <2>2. CASE ~ ErrorGen /\ pc' \in Settled \ {"gen", "error"}
    <3>1. pc \in Settled \ {"gen", "error"}
      <4>1. pc = "gen" => pc' \in {"error", "undefined"}
        BY <2>2, GenerateOrder DEF Generate, TypeGen, TypeGenFreed, Write, Stop, EndianGen, PrintGen,
           PrintXMLGen, ScanGen, ConvGen, PosterLibGen, MsgLibGen, MsgLibGenEndless, CntrlTaskGen,
           ExecTaskGen, ModuleInitGen, TestGen, TestGenCrash, InitGen, OpenprsGen, TclGen,
           SkipBinding, Finish
      <4>2. pc # "error"
        BY <2>2 DEF Generate, TypeGen, TypeGenFreed, Write, EndianGen, PrintGen,
           PrintXMLGen, ScanGen, ConvGen, PosterLibGen, MsgLibGen, MsgLibGenEndless, CntrlTaskGen,
           ExecTaskGen, ModuleInitGen, TestGen, TestGenCrash, InitGen, OpenprsGen, TclGen,
           SkipBinding, Finish
      <4> QED BY <1>0, <2>2, <4>1, <4>2 DEF Settled, Generating
    <3>2. out'.error = out.error
      BY <3>1, FileKept
    <3> QED BY <1>0, <3>1, <3>2, OutSame DEF OutInv
  <2> QED BY <2>1, <2>2
<1>4. pc' \in AfterPoster => PosterOut'
  <2> SUFFICES ASSUME pc' \in AfterPoster, ~ PosterLibGen PROVE PosterOut'
    BY PosterLibGenWrites
  <2>1. pc \in AfterPoster
    BY GenerateOrder, <1>0 DEF AfterPoster, AfterScan, MsgLibGen, CntrlTaskGen, ExecTaskGen,
       ModuleInitGen, TestGen, InitGen, Write
  <2>2. pc # "posterLib"
    BY <2>1 DEF AfterPoster
  <2> QED BY <1>0, <2>1, <2>2, FileKept, OutSame DEF OutInv
<1>5. pc' \in AfterMsgs => MsgOut'
  <2> SUFFICES ASSUME pc' \in AfterMsgs, ~ MsgLibGen PROVE MsgOut'
    BY MsgLibGenWrites
  <2>1. pc \in AfterMsgs
    BY GenerateOrder, <1>0 DEF AfterMsgs, AfterPoster, AfterScan, CntrlTaskGen, ExecTaskGen,
       ModuleInitGen, TestGen, InitGen, Write
  <2>2. pc # "msg"
    BY <2>1 DEF AfterMsgs
  <2> QED BY <1>0, <2>1, <2>2, FileKept, OutSame DEF OutInv
<1>6. ASSUME "server" \in options, pc' \in AfterCntrl PROVE fatal' \/ CntrlOut'
  <2>1. CASE CntrlTaskGen
    <3>1. TasksKnown
      BY <1>0 DEF ResolvedInv, Settled
    <3> QED BY <2>1, <3>1, CntrlTaskGenWrites
  <2>2. CASE ~ CntrlTaskGen
    <3>1. pc \in AfterCntrl
      BY <1>6, <2>2, GenerateOrder DEF AfterCntrl, AfterMsgs, AfterPoster, AfterScan,
         ExecTaskGen, ModuleInitGen, TestGen, InitGen, Write
    <3>2. pc # "cntrl"
      BY <3>1 DEF AfterCntrl
    <3> QED BY <1>0, <1>6, <3>1, <3>2, FileKept, OutSame, GenerateOrder DEF OutInv
  <2> QED BY <2>1, <2>2
<1>7. ASSUME "server" \in options, pc' \in AfterExec, ~ ExecTaskGen PROVE ExecOut'
  <2>1. pc \in AfterExec
    BY <1>7, GenerateOrder DEF AfterExec, AfterCntrl, AfterMsgs, AfterPoster, AfterScan,
       ModuleInitGen, TestGen, InitGen, Write
  <2>2. pc # "exec"
    BY <2>1 DEF AfterExec
  <2> QED BY <1>0, <1>7, <2>1, <2>2, FileKept, OutSame DEF OutInv
<1>8. ASSUME "server" \in options, pc' \in AfterModule, ~ ModuleInitGen PROVE ModuleOut'
  <2>1. pc \in AfterModule
    BY <1>8, GenerateOrder DEF AfterModule, AfterExec, AfterCntrl, AfterMsgs, AfterPoster,
       AfterScan, TestGen, InitGen, Write
  <2>2. pc # "module"
    BY <2>1 DEF AfterModule
  <2> QED BY <1>0, <1>8, <2>1, <2>2, FileKept, OutSame DEF OutInv
<1>9. ASSUME "server" \in options, pc' \in AfterTest, ~ TestGen PROVE TestOut'
  <2>1. pc \in AfterTest
    BY <1>9, GenerateOrder DEF AfterTest, AfterModule, AfterExec, AfterCntrl, AfterMsgs,
       AfterPoster, AfterScan, InitGen
  <2>2. pc # "test"
    BY <2>1 DEF AfterTest
  <2> QED BY <1>0, <1>9, <2>1, <2>2, FileKept, OutSame DEF OutInv
<1>10. ASSUME "server" \in options, pc' \in AfterInit, ~ InitGen PROVE InitOut'
  <2>1. pc \in AfterInit
    BY <1>10, GenerateOrder DEF AfterInit, AfterTest, AfterModule, AfterExec, AfterCntrl,
       AfterMsgs, AfterPoster, AfterScan
  <2>2. pc # "init"
    BY <2>1 DEF AfterInit
  <2> QED BY <1>0, <1>10, <2>1, <2>2, FileKept, OutSame DEF OutInv
<1>11. /\ ExecTaskGen => ExecOut'
       /\ ModuleInitGen => ModuleOut'
       /\ TestGen => TestOut'
       /\ InitGen => InitOut'
  BY ExecTaskGenWrites, ModuleInitGenWrites, TestGenWrites, InitGenWrites
<1>12. pc' = "done" => ~ fatal'
  BY GenerateOrder
<1>13. Settled' = Settled /\ AfterPoster' = AfterPoster /\ AfterMsgs' = AfterMsgs
       /\ AfterCntrl' = AfterCntrl /\ AfterExec' = AfterExec /\ AfterModule' = AfterModule
       /\ AfterTest' = AfterTest /\ AfterInit' = AfterInit /\ Resolving' = Resolving
  BY DEF Settled, Generating, AfterPoster, AfterMsgs, AfterCntrl, AfterExec, AfterModule,
     AfterTest, AfterInit, AfterScan, Resolving, Early
<1> QED
  BY <1>0, <1>1, <1>2, <1>3, <1>4, <1>5, <1>6, <1>7, <1>8, <1>9, <1>10, <1>11, <1>12, <1>13
     DEF OutInv

LEMMA OutInvKept ==
  ASSUME DescInv, RefsInv, OutShape, ResolvedInv, OutInv, [Next]_cvars
  PROVE  OutInv'
<1>0. Settled' = Settled /\ AfterPoster' = AfterPoster /\ AfterMsgs' = AfterMsgs
      /\ AfterCntrl' = AfterCntrl /\ AfterExec' = AfterExec /\ AfterModule' = AfterModule
      /\ AfterTest' = AfterTest /\ AfterInit' = AfterInit /\ Resolving' = Resolving
  BY DEF Settled, Generating, AfterPoster, AfterMsgs, AfterCntrl, AfterExec, AfterModule,
     AfterTest, AfterInit, AfterScan, Resolving, Early
<1>1. CASE Generate
  BY <1>1, GenerateKeepsOut
<1>2. CASE (Parse \/ Resolve) /\ UNCHANGED <<options, out, fatal>>
  <2>1. pc \in Resolving /\ pc' \in Resolving \cup {"gen", "undefined", "crash"}
    BY <1>2, ResolvingSteps
  <2>2. out' = Blank
    BY <1>2, <2>1 DEF OutInv
  <2>3. out'.atoms = {} /\ out'.tcl = <<>>
    BY <2>2 DEF Blank
  <2>4. AtomsOut' /\ TclOut'
    BY <2>3 DEF AtomsOut, TclOut
  <2>5. pc' \notin AfterPoster
    BY <2>1 DEF AfterPoster, AfterScan, Resolving, Early
  <2>6. pc' \notin Settled \ {"gen", "error"}
    BY <2>1 DEF Settled, Generating, Resolving, Early
  <2>7. AfterMsgs \subseteq AfterPoster /\ AfterCntrl \subseteq AfterPoster
        /\ AfterExec \subseteq AfterPoster /\ AfterModule \subseteq AfterPoster
        /\ AfterTest \subseteq AfterPoster /\ AfterInit \subseteq AfterPoster
        /\ "done" \in AfterPoster /\ Blank' = Blank
    BY DEF AfterInit, AfterTest, AfterModule, AfterExec, AfterCntrl, AfterMsgs, AfterPoster,
       AfterScan, Blank, Kinds
  <2> QED BY <1>0, <2>2, <2>4, <2>5, <2>6, <2>7 DEF OutInv
<1>3. CASE UNCHANGED cvars
  <2>1. UNCHANGED <<tables, pc, options, out, fatal>>
    BY <1>3 DEF cvars, gvars
  <2>2. Blank' = Blank
    BY DEF Blank, Kinds
  <2>3. /\ ErrorOut => ErrorOut'
        /\ PosterOut => PosterOut'
        /\ MsgOut => MsgOut'
        /\ CntrlOut => CntrlOut'
        /\ ExecOut => ExecOut'
        /\ ModuleOut => ModuleOut'
        /\ TestOut => TestOut'
        /\ InitOut => InitOut'
        /\ AtomsOut => AtomsOut'
        /\ TclOut => TclOut'
    BY <2>1, OutSame
  <2> QED BY <1>0, <2>1, <2>2, <2>3 DEF OutInv
<1> QED
  BY <1>1, <1>2, <1>3 DEF Next

\* genom does not check that the requests, or the tasks, have different names.
NamesDiffer ==
  /\ \A i, j \in DOMAIN requetes : requetes[i].name = requetes[j].name => i = j
  /\ \A i, j \in DOMAIN taches : taches[i].name = taches[j].name => i = j

LEMMA AbortIsFree ==
  ASSUME TableTypes, Numbered
  PROVE  AbortNum \notin Range(RqstNums)
<1> DEFINE free(n) == /\ \A i \in DOMAIN requetes : requetes[i].num # n
                      /\ \A m \in 0 .. n - 1 : \E i \in DOMAIN requetes : requetes[i].num = m
           N == Len(requetes)
<1>1. DOMAIN requetes = 1 .. N /\ N \in Nat
  BY DEF TableTypes
<1>2. free(N)
  <2>1. \A i \in 1 .. N : requetes[i].num = i - 1
    BY <1>1 DEF Numbered
  <2> HIDE DEF N
  <2>2. \A m \in 0 .. N - 1 : m + 1 \in 1 .. N /\ (m + 1) - 1 = m
    BY <1>1
  <2>3. \A i \in DOMAIN requetes : requetes[i].num # N
    BY <1>1, <2>1
  <2>4. \A m \in 0 .. N - 1 : \E i \in DOMAIN requetes : requetes[i].num = m
    <3> TAKE m \in 0 .. N - 1
    <3>1. m + 1 \in 1 .. N /\ requetes[m + 1].num = m
      BY <2>1, <2>2
    <3> QED BY <1>1, <3>1
  <2> QED BY <2>3, <2>4
<1>3. \E n \in 0 .. N : free(n)
  <2> HIDE DEF free, N
  <2> QED BY <1>1, <1>2
<1>4. AbortNum = CHOOSE n \in 0 .. N : free(n)
  BY DEF AbortNum
<1>5. free(AbortNum)
  <2> HIDE DEF free, N
  <2> QED BY <1>3, <1>4
<1> QED
  BY <1>5 DEF RqstNums, Range

LEMMA DoneIs ==
  ASSUME ResolvedInv, OutInv, Done
  PROVE  /\ Numbered /\ Zoned /\ AtomsOut /\ TclOut /\ ErrorOut /\ PosterOut /\ MsgOut
         /\ "server" \in options => CntrlOut /\ ExecOut /\ ModuleOut /\ TestOut /\ InitOut
BY DEF Done, ResolvedInv, OutInv, Settled, AfterPoster, AfterMsgs, AfterCntrl, AfterExec,
       AfterModule, AfterTest, AfterInit, AfterScan

LEMMA NumbersDo ==
  ASSUME TableTypes, ResolvedInv, OutInv, NamesDiffer
  PROVE  NumbersAgree
<1> SUFFICES ASSUME Server
             PROVE  /\ \A i \in DOMAIN requetes :
                         /\ out.cntrl.nums[i] = out.msg.nums[i] /\ out.test[i].num = out.msg.nums[i]
                         /\ \A rqst \in Range(out.poster.rqsts) :
                              rqst.num = out.msg.nums[i] <=> rqst.name = requetes[i].name
                    /\ out.cntrl.abort = out.msg.abort /\ out.msg.abort \notin Range(out.msg.nums)
                    /\ out.init.flag => out.init.num = out.cntrl.init
                    /\ out.init.flag <=> out.cntrl.init # -1
                    /\ out.tcl # <<>> /\ out.init.flag =>
                         out.tcl.args[out.cntrl.init + 1] = Len(out.init.params)
  BY DEF NumbersAgree
<1>1. /\ Numbered /\ TclOut /\ PosterOut /\ MsgOut
      /\ CntrlOut /\ TestOut /\ InitOut
  BY DoneIs DEF Server
<1>2. DOMAIN requetes = 1 .. Len(requetes) /\ Len(requetes) \in Nat
  BY DEF TableTypes
<1>3. \A i \in DOMAIN requetes : RqstNums[i] = requetes[i].num /\ requetes[i].num = i - 1
  BY <1>1 DEF RqstNums, Numbered
<1>4. ASSUME NEW i \in DOMAIN requetes
      PROVE  /\ out.cntrl.nums[i] = out.msg.nums[i] /\ out.test[i].num = out.msg.nums[i]
             /\ \A rqst \in Range(out.poster.rqsts) :
                  rqst.num = out.msg.nums[i] <=> rqst.name = requetes[i].name
  <2>1. out.cntrl.nums[i] = RqstNums[i] /\ out.msg.nums[i] = RqstNums[i]
        /\ out.test[i].num = RqstNums[i]
    BY <1>1, <1>3 DEF CntrlOut, MsgOut, TestOut
  <2>2. ASSUME NEW rqst \in Range(out.poster.rqsts)
        PROVE  rqst.num = RqstNums[i] <=> rqst.name = requetes[i].name
    <3>1. PICK q \in DOMAIN requetes : rqst.name = requetes[q].name /\ rqst.num = requetes[q].num
      BY <1>1 DEF PosterOut
    <3>2. rqst.num = RqstNums[i] <=> q = i
      BY <1>2, <1>3, <3>1
    <3>3. rqst.name = requetes[i].name <=> q = i
      BY <3>1 DEF NamesDiffer
    <3> QED BY <3>2, <3>3
  <2> QED BY <2>1, <2>2
<1>5. out.cntrl.abort = out.msg.abort /\ out.msg.abort \notin Range(out.msg.nums)
  BY <1>1, AbortIsFree DEF CntrlOut, MsgOut
<1>6. CASE InitRequests = {}
  <2>1. ~ out.init.flag /\ out.cntrl.init = -1
    BY <1>1, <1>6 DEF InitOut, CntrlOut
  <2> QED BY <1>4, <1>5, <2>1
<1>7. CASE InitRequests # {}
  <2> DEFINE f == Min(InitRequests)
  <2>1. f \in DOMAIN requetes /\ FirstInitRqst = requetes[f]
    BY <1>7, FirstInit DEF FirstInitRqst
  <2> HIDE DEF f
  <2>2. FirstInitRqst.num = f - 1 /\ f - 1 \in Nat /\ (f - 1) + 1 = f
    BY <1>2, <1>3, <2>1
  <2>3. out.init.flag /\ out.init.num = f - 1 /\ out.cntrl.init = f - 1
        /\ out.init.params = TclWords(requetes[f])
    BY <1>1, <1>7, <2>1, <2>2 DEF InitOut, CntrlOut
  <2>4. out.cntrl.init # -1
    BY <2>2, <2>3
  <2>5. ASSUME out.tcl # <<>>
        PROVE  out.tcl.args[out.cntrl.init + 1] = Len(out.init.params)
    <3>1. out.tcl.args[f] = TclArgNumber(requetes[f])
      BY <1>1, <2>1, <2>5 DEF TclOut
    <3> QED BY <2>2, <2>3, <3>1 DEF TclArgNumber
  <2> QED BY <1>4, <1>5, <2>3, <2>4, <2>5
<1> QED
  BY <1>6, <1>7

LEMMA CodelsAre ==
  ASSUME TableTypes, ResolvedInv, OutInv, NamesDiffer
  PROVE  CodelsPlaced
<1> SUFFICES ASSUME Server, NEW i \in DOMAIN requetes, requetes[i].str.type # "CONTROL"
             PROVE  LET t == out.cntrl.handlers[i].task + 1 IN
                    /\ out.cntrl.tasks[t] = requetes[i].str.exec_task
                    /\ out.module.tasks[t].name = out.poster.tasks[t]
                    /\ out.exec[t].codels[out.msg.nums[i] + 1] = requetes[i].str.codel_main
                    /\ \A u \in DOMAIN out.exec \ {t} :
                         out.exec[u].codels[out.msg.nums[i] + 1] = None
  BY DEF CodelsPlaced
<1> DEFINE t == out.cntrl.handlers[i].task + 1
<1>1. Numbered /\ PosterOut /\ MsgOut /\ CntrlOut /\ ExecOut /\ ModuleOut
  BY DoneIs DEF Server
<1>2. t \in DOMAIN taches /\ taches[t].name = requetes[i].str.exec_task
  BY <1>1 DEF CntrlOut, SentTo
<1> HIDE DEF t
<1>3. out.msg.nums[i] + 1 = i
  <2>1. DOMAIN requetes = 1 .. Len(requetes)
    BY DEF TableTypes
  <2>2. out.msg.nums[i] = i - 1
    BY <1>1 DEF MsgOut, RqstNums, Numbered
  <2> QED BY <2>1, <2>2
<1>4. out.cntrl.tasks[t] = taches[t].name /\ out.poster.tasks[t] = taches[t].name
      /\ out.module.tasks[t].name = taches[t].name
  BY <1>1, <1>2 DEF CntrlOut, PosterOut, ModuleOut, TaskNames
<1>5. DOMAIN out.exec = DOMAIN taches
      /\ \A u \in DOMAIN taches : out.exec[u].codels[i] = Codel(taches[u], requetes[i])
  BY <1>1 DEF ExecOut
<1>6. out.exec[t].codels[i] = requetes[i].str.codel_main
  BY <1>2, <1>5 DEF Codel
<1>7. \A u \in DOMAIN out.exec \ {t} : out.exec[u].codels[i] = None
  BY <1>2, <1>5 DEF NamesDiffer, Codel
<1> QED
  BY <1>2, <1>3, <1>4, <1>6, <1>7 DEF t

LEMMA TablesDo ==
  ASSUME TableTypes, ResolvedInv, OutInv, NamesDiffer
  PROVE  TablesAgree
<1>1. ReentrantHasZone
  <2> SUFFICES ASSUME Server, NEW i \in DOMAIN requetes, NEW d \in {"Input", "Output"},
                      requetes[i].str.type = "EXEC"
               PROVE  Cardinality(Zones(i, d)) =
                        IF /\ out.cntrl.handlers[i].reentrant
                           /\ (IF d = "Input" THEN requetes[i].str.input
                               ELSE requetes[i].str.output) # <<>>
                        THEN 1 ELSE 0
    BY DEF ReentrantHasZone, Zones
  <2>1. Zoned /\ CntrlOut
    BY DoneIs DEF Server
  <2>2. out.cntrl.handlers[i].reentrant = Reentrant(requetes[i])
    BY <2>1 DEF CntrlOut
  <2> QED BY <2>1, <2>2 DEF Zoned, Given
<1>2. MenuHasType
  <2> SUFFICES ASSUME Server, NEW i \in DOMAIN requetes, NEW j \in DOMAIN out.test[i].menu,
                      out.test[i].menu[j][1] = "request"
               PROVE  \E q \in Range(requetes) :
                        /\ q.name = out.test[i].menu[j][2]
                        /\ TypeAt(q.str.output) = TypeAt(requetes[i].str.input)
    BY DEF MenuHasType
  <2>1. Offers(requetes[i], out.test[i].menu[j])
    BY DoneIs DEF Server, TestOut
  <2> QED BY <2>1 DEF Offers
<1>3. ReportsNumbered
  BY DoneIs DEF ReportsNumbered, AtomsOut, ErrorOut, Once
<1> QED
  BY <1>1, <1>2, <1>3, NumbersDo, CodelsAre DEF TablesAgree

\* Whatever the description, provided its requests have different names and so have its
\* tasks (genom does not check it), the tables genom writes apart, for the module and for
\* its clients, agree: the arrays of the reentrant requests, the numbers of the requests
\* and that of the abort, the place of each codel, the menus of the test program and the
\* reports (cntrlTaskGen.c, execTaskGen.c, msgLibGen.c, posterLibGen.c, moduleInitGen.c,
\* testGen.c, initGen.c, tclGen.c, errorGen.c, resolveTypes in genom.c).
THEOREM TablesAgreeHolds == Spec => [](NamesDiffer => TablesAgree)
<1> DEFINE I == DescInv /\ RefsInv /\ UsesLead /\ CallsInv /\ ResolvedInv /\ OutInv
<1>1. Init => I
  <2> SUFFICES ASSUME Init PROVE I
    OBVIOUS
  <2>1. pc = "parse" /\ out = Blank
    BY DEF Init, GInit
  <2>2. UsesLead /\ ResolvedInv
    BY <2>1 DEF UsesLead, Early, ResolvedInv, Settled, Generating
  <2>3. OutInv
    BY <2>1 DEF OutInv, Settled, Generating, AfterInit, AfterTest, AfterModule, AfterExec,
       AfterCntrl, AfterMsgs, AfterPoster, AfterScan
  <2> QED BY <2>2, <2>3, InitKeeps, CallsInit
<1>2. I /\ [Next]_cvars => I'
  <2> SUFFICES ASSUME I, [Next]_cvars PROVE I'
    OBVIOUS
  <2>1. OutShape
    BY DEF CallsInv
  <2> QED BY <2>1, NextKeeps, UsesLeadKept, CallsKept, ResolvedKept, OutInvKept
<1>3. I => (NamesDiffer => TablesAgree)
  BY TablesDo DEF DescInv
<1> QED
  BY <1>1, <1>2, <1>3, PTL DEF Spec
=============================================================================
