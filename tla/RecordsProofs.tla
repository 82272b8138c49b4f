--------------------------- MODULE RecordsProofs ---------------------------
(***************************************************************************)
(* Verdict, Dispatch, DefinedBeforeUse and EncodersExact hold for programs *)
(* of any size.  IInv, which is inductive, relates the marks and the calls *)
(* of each pass to what can be reached in the graphs that the program      *)
(* draws; Dispatch follows from it by induction on the classes above one.  *)
(***************************************************************************)
EXTENDS Records, TLAPS, FiniteSetTheorems, NaturalsInduction, WellFoundedInduction

Phases == {"collect", "fields", "methods", "inherit", "call", "structs", "json", "done", "refused"}

\* How far the compiler is: the classes whose fields are complete, those
\* whose methods are collected and those that have inherited theirs.
Complete ==
  CASE phase = "fields" -> done
    [] phase \in {"collect", "refused"} -> {}
    [] OTHER -> Classes
Collected ==
  CASE phase = "methods" -> done
    [] phase \in {"collect", "fields", "refused"} -> {}
    [] OTHER -> Classes
Inheriting ==
  CASE phase = "inherit" -> done
    [] phase \in {"call", "structs", "json", "done"} -> Classes
    [] OTHER -> {}

\* The fields that the program declares.
Fields == UNION {ToSet(prog.fields[c]) : c \in Classes}
HeldTypes == {t \in Mentioned : ByValue(t)}

\* The program, the marks of a pass and the names.
Stages ==
  /\ prog \in Program /\ phase \in Phases
  /\ phase \in {"fields", "methods", "inherit"} => done \subseteq Classes
  /\ phase \in {"call", "json"} => done \subseteq ToSet(Roots)
  /\ phase \notin {"collect", "refused"} => IsInjective(prog.enums \o prog.classes)
  /\ fields \in [Classes -> Seq(Fields)]

\* The sequence s lists the fields declared by c and the classes above it.
Lists(s, c) ==
  \E at \in Bijection(1 .. Len(s), Declared(c)) : \A i \in 1 .. Len(s) : s[i] = FieldAt(at[i])
Distinct(s) == \A i, j \in 1 .. Len(s) : s[i].name = s[j].name => i = j

\* A complete class has the fields of the classes above it, once each, and
\* is not above itself.
Laid(c) ==
  /\ prog.base[c] # NoClass => prog.base[c] \in Complete
  /\ c \notin Above(c)
  /\ fields[c] = AllFields(c)
  /\ Lists(fields[c], c) /\ Distinct(fields[c]) /\ Len(fields[c]) <= MaxFields
FieldsLaid == \A c \in Complete : Laid(c)

\* The list of a class: what it declares and, once it has inherited, what
\* its base has and it does not declare.
OwnEntry(e) == e.owner \in Collected /\ e.source = e.owner /\ Declares(e.owner, e.name)
Wrapper(e) ==
  /\ e.owner \in Inheriting /\ prog.base[e.owner] # NoClass /\ e.source = prog.base[e.owner]
  /\ e.name \notin Private /\ ~Declares(e.owner, e.name) /\ HasMethod(e.source, e.name)
Gathered(c) ==
  /\ IsInjective(prog.methods[c])
  /\ \A m \in ToSet(prog.methods[c]) : m \notin FieldNames(c) /\ Method(c, c, m) \in methods
Inherits(c) ==
  /\ prog.base[c] # NoClass =>
       /\ prog.base[c] \in Inheriting
       /\ \A e \in MethodsOf(prog.base[c]) : e.name \notin Private => HasMethod(c, e.name)
  /\ \A e \in MethodsOf(c) : e.name \notin FieldNames(c)
MethodLists ==
  /\ phase # "refused" => \A e \in methods : OwnEntry(e) \/ Wrapper(e)
  /\ \A c \in Collected : Gathered(c)
  /\ \A c \in Inheriting : Inherits(c)

\* The structs written, each after those that it holds.
Ordered(s) ==
  /\ IsInjective(s)
  /\ \A i \in 1 .. Len(s) : HeldBy(s[i]) \subseteq {s[j] : j \in 1 .. i - 1}
Written ==
  /\ structs \in Seq(HeldTypes) /\ Ordered(structs)
  /\ phase \in {"collect", "fields", "methods", "inherit", "call"} => structs = <<>>
  /\ phase = "structs" => done = ToSet(structs)
  /\ phase \in {"json", "done"} => ToSet(structs) = HeldTypes

\* What the support checks have answered.
Answered ==
  /\ phase = "call" => \A c \in Classes : ClassType(c) \in done => Encodable(c)
  /\ phase \in {"structs", "json", "done"} /\ prog.asked # NoClass => Encodable(prog.asked)
  /\ phase \in {"collect", "fields", "methods", "inherit", "call", "structs"} => encoders = {}
  /\ phase = "json" => encoders = {c \in Classes : ClassType(c) \in done /\ Encodable(c)}
  /\ phase = "done" => encoders = {c \in Classes : prog.json /\ Encodable(c)}

\* The calls of a pass: what they are about, each a part of those before it,
\* and the children they have seen, dealt with but for the one being called.
Walkable ==
  CASE phase \in {"fields", "inherit"} -> Classes
    [] phase = "structs" -> HeldTypes
    [] OTHER -> {t \in Mentioned : ~Leaf(t)}
Beyond(x) ==
  CASE phase \in {"fields", "inherit"} -> Above(x)
    [] phase = "structs" -> Held(x)
    [] OTHER -> Everything(x)
Supported(t) == \A u \in {t} \cup Everything(t) : ~Unsupported(u)
Settled(x) == IF Marked THEN Returned(x) ELSE Supported(x)
Frames == [on : Walkable, seen : Nat]
Nested(s) ==
  /\ s \in Seq(Frames)
  /\ ~Marked /\ s # <<>> => s[1].on \in ToSet(Roots)
  /\ \A i \in 1 .. Len(s) :
       /\ Marked => s[i].on \notin done
       /\ \A j \in 1 .. Len(s) : i < j =>
            s[j].on \in Beyond(s[i].on) /\ (Marked => s[i].on # s[j].on)
       /\ s[i].seen <= Len(Children(s[i].on))
       /\ \A k \in 1 .. s[i].seen :
            \/ Settled(Children(s[i].on)[k])
            \/ i < Len(s) /\ k = s[i].seen /\ Children(s[i].on)[k] = s[i + 1].on
Calls ==
  /\ phase \notin {"fields", "inherit", "call", "structs", "json"} => stack = <<>>
  /\ Nested(stack)

IInv ==
  /\ Stages /\ FieldsLaid /\ MethodLists /\ Written /\ Answered /\ Calls
  /\ phase = "refused" => reason \in Reasons /\ Defect(reason)

----------------------------------------------------------------------------
LEMMA Elements ==
  ASSUME NEW S, NEW s \in Seq(S)
  PROVE  /\ Len(s) \in Nat /\ DOMAIN s = 1 .. Len(s)
         /\ \A i \in DOMAIN s : s[i] \in S
         /\ ToSet(s) \subseteq S /\ ToSet(s) = {s[i] : i \in 1 .. Len(s)}
BY DEF ToSet

LEMMA Smallest ==
  ASSUME NEW T \in SUBSET Nat, T # {}
  PROVE  \E x \in T : \A y \in T : x <= y
<1> DEFINE R == OpToRel(<, Nat)
<1>1. IsWellFoundedOn(R, Nat)
  BY NatLessThanWellFounded
<1>2. PICK x \in T : \A y \in T : ~ (<<y, x>> \in R)
  BY <1>1, WFMin
<1>3. \A y \in T : ~(y < x)
  BY <1>2 DEF OpToRel
<1> QED
  BY <1>3

\* What Reached computes: R[n] is what n + 1 steps reach at most.
Layers(R, x, next, n) ==
  R = [k \in 0 .. n |-> IF k = 0 THEN next[x] ELSE R[k - 1] \cup UNION {next[y] : y \in R[k - 1]}]

LEMMA LayersExist ==
  ASSUME NEW x, NEW next, NEW n \in Nat
  PROVE  \E R : Layers(R, x, next, n)
<1> DEFINE T == {i \in Nat : ~ \E R : Layers(R, x, next, i)}
           More(S) == S \cup UNION {next[y] : y \in S}
<1> SUFFICES ASSUME T # {}
             PROVE  FALSE
  OBVIOUS
<1>1. PICK i \in T : \A j \in T : i <= j
  BY Smallest
<1>2. i # 0
  <2> DEFINE g == [k \in 0 .. 0 |-> next[x]]
  <2>1. g = [k \in 0 .. 0 |-> IF k = 0 THEN next[x] ELSE g[k - 1] \cup UNION {next[y] : y \in g[k - 1]}]
    OBVIOUS
  <2> HIDE DEF g
  <2>2. Layers(g, x, next, 0)
    BY ONLY <2>1 DEF Layers
  <2> QED
    BY <2>2
<1>3. PICK R : Layers(R, x, next, i - 1)
  BY <1>1, <1>2
<1>4. \A k \in 0 .. i - 1 : R[k] = IF k = 0 THEN next[x] ELSE More(R[k - 1])
  BY <1>3, <1>1 DEF Layers
<1> HIDE DEF More
<1> DEFINE g == [k \in 0 .. i |-> IF k = i THEN More(R[i - 1]) ELSE R[k]]
<1>5. \A k \in 0 .. i : g[k] = IF k = 0 THEN next[x] ELSE More(g[k - 1])
  BY <1>4, <1>2, <1>1
<1>6. g = [k \in 0 .. i |-> IF k = 0 THEN next[x] ELSE More(g[k - 1])]
  BY <1>5
<1> HIDE DEF g
<1>7. Layers(g, x, next, i)
  BY ONLY <1>6 DEF Layers, More
<1> QED
  BY <1>7, <1>1

LEMMA LayersGrow ==
  ASSUME NEW D, IsFiniteSet(D), NEW next \in [D -> SUBSET D], NEW x \in D, NEW n \in Nat,
         NEW R, Layers(R, x, next, n)
  PROVE  \A k \in 0 .. n :
           /\ next[x] \subseteq R[k] /\ R[k] \subseteq D
           /\ \A S : next[x] \subseteq S /\ (\A y \in S \cap D : next[y] \subseteq S) => R[k] \subseteq S
           /\ (\A y \in R[k] : next[y] \subseteq R[k]) \/ Cardinality(R[k]) >= k
<1> DEFINE Closed(S) == \A y \in S \cap D : next[y] \subseteq S
           Good(k) == /\ next[x] \subseteq R[k] /\ R[k] \subseteq D
                      /\ \A S : next[x] \subseteq S /\ Closed(S) => R[k] \subseteq S
                      /\ Closed(R[k]) \/ Cardinality(R[k]) >= k
           T == {k \in 0 .. n : ~Good(k)}
<1>1. \A k \in 0 .. n : R[k] = IF k = 0 THEN next[x] ELSE R[k - 1] \cup UNION {next[y] : y \in R[k - 1]}
  BY DEF Layers
<1>2. SUFFICES ASSUME T # {}
               PROVE  FALSE
  OBVIOUS
<1>3. PICK k \in T : \A j \in T : k <= j
  <2>1. T \in SUBSET Nat
    OBVIOUS
  <2> HIDE DEF T
  <2> QED
    BY <1>2, <2>1, Smallest
<1>4. k \in 0 .. n
  OBVIOUS
<1>5. CASE k = 0
  <2>1. R[0] = next[x] /\ next[x] \subseteq D
    <3>1. 0 \in 0 .. n
      OBVIOUS
    <3> HIDE DEF Good, T, Closed
    <3> QED
      BY <1>1, <3>1
  <2>2. IsFiniteSet(R[0])
    BY <2>1, FS_Subset
  <2>3. Cardinality(R[0]) >= 0
    BY <2>2, FS_CardinalityType
  <2>4. Good(0)
    BY <2>1, <2>3
  <2> QED
    BY <2>4, <1>5, <1>3
<1>6. CASE k # 0
  <2>1. k - 1 \in 0 .. n /\ ~(k <= k - 1)
    BY <1>4, <1>6
  <2>2. k - 1 \notin T
    BY <1>3, <2>1
  <2>3. Good(k - 1)
    BY <2>1, <2>2
  <2>4. R[k] = R[k - 1] \cup UNION {next[y] : y \in R[k - 1]}
    BY <1>1, <1>4, <1>6
  <2>5. next[x] \subseteq R[k] /\ R[k] \subseteq D
    BY <2>3, <2>4
  <2>6. ASSUME NEW S, next[x] \subseteq S, Closed(S)
        PROVE  R[k] \subseteq S
    <3>1. R[k - 1] \subseteq S /\ R[k - 1] \subseteq D
      BY <2>3, <2>6
    <3> QED
      BY <3>1, <2>4, <2>6
  <2>7. CASE Closed(R[k - 1])
    <3>1. R[k] = R[k - 1]
      BY <2>4, <2>7, <2>3
    <3>2. Closed(R[k])
      BY <3>1, <2>7
    <3> QED
      BY <3>2, <2>5, <2>6, <1>3
  <2>8. CASE ~Closed(R[k - 1])
    <3>1. R[k - 1] \subseteq R[k] /\ R[k - 1] # R[k]
      BY <2>4, <2>8, <2>3
    <3>2. IsFiniteSet(R[k]) /\ IsFiniteSet(R[k - 1])
      BY <2>5, <2>3, FS_Subset
    <3>3. Cardinality(R[k - 1]) <= Cardinality(R[k]) /\ Cardinality(R[k]) # Cardinality(R[k - 1])
      BY <3>1, <3>2, FS_Subset
    <3>4. Cardinality(R[k - 1]) \in Nat /\ Cardinality(R[k]) \in Nat
      BY <3>2, FS_CardinalityType
    <3>5. Cardinality(R[k - 1]) >= k - 1
      BY <2>3, <2>8
    <3>6. Cardinality(R[k]) >= k
      <4> HIDE DEF Good, T, Closed
      <4> QED
        BY <3>3, <3>4, <3>5, <1>4
    <3> QED
      BY <3>6, <2>5, <2>6, <1>3
  <2> QED
    BY <2>7, <2>8
<1> QED
  BY <1>5, <1>6

\* Reached is the least set that holds what x leads to and is closed.
LEMMA ReachedIs ==
  ASSUME NEW D, IsFiniteSet(D), NEW next \in [D -> SUBSET D], NEW x \in D
  PROVE  /\ next[x] \subseteq Reached(x, next) /\ Reached(x, next) \subseteq D
         /\ \A y \in Reached(x, next) : next[y] \subseteq Reached(x, next)
         /\ \A S : next[x] \subseteq S /\ (\A y \in S \cap D : next[y] \subseteq S) =>
              Reached(x, next) \subseteq S
<1> DEFINE n == Cardinality(D)
           R == CHOOSE R : Layers(R, x, next, n)
<1>1. n \in Nat /\ DOMAIN next = D
  BY FS_CardinalityType
<1>2. Layers(R, x, next, n)
  <2> HIDE DEF n
  <2> QED
    BY <1>1, LayersExist
<1>3. Reached(x, next) = R[n]
  BY <1>1 DEF Reached, Layers
<1> HIDE DEF R
<1>4. /\ next[x] \subseteq R[n] /\ R[n] \subseteq D
      /\ \A S : next[x] \subseteq S /\ (\A y \in S \cap D : next[y] \subseteq S) => R[n] \subseteq S
      /\ (\A y \in R[n] : next[y] \subseteq R[n]) \/ Cardinality(R[n]) >= n
  <2>1. n \in 0 .. n
    BY <1>1
  <2> HIDE DEF n
  <2> QED
    BY <1>1, <1>2, <2>1, LayersGrow
<1>5. CASE Cardinality(R[n]) >= n
  <2>1. IsFiniteSet(R[n]) /\ Cardinality(R[n]) <= n /\ Cardinality(R[n]) \in Nat
    BY <1>4, FS_Subset, FS_CardinalityType
  <2>2. Cardinality(R[n]) = n
    BY <2>1, <1>5, <1>1
  <2>3. R[n] = D
    BY <2>2, <1>4, FS_Subset
  <2> QED
    BY <2>3, <1>3, <1>4
<1> QED
  BY <1>3, <1>4, <1>5

\* One step first, then the others.
LEMMA ReachedSplit ==
  ASSUME NEW D, IsFiniteSet(D), NEW next \in [D -> SUBSET D], NEW x \in D
  PROVE  Reached(x, next) = UNION {{y} \cup Reached(y, next) : y \in next[x]}
<1> DEFINE S == UNION {{y} \cup Reached(y, next) : y \in next[x]}
<1>1. \A y \in next[x] : /\ y \in D /\ next[y] \subseteq Reached(y, next) /\ Reached(y, next) \subseteq D
                         /\ \A z \in Reached(y, next) : next[z] \subseteq Reached(y, next)
  BY ReachedIs
<1>2. next[x] \subseteq S /\ \A y \in S \cap D : next[y] \subseteq S
  BY <1>1
<1>3. Reached(x, next) \subseteq S
  <2> HIDE DEF S
  <2> QED
    BY <1>2, ReachedIs
<1>4. ASSUME NEW y \in next[x]
      PROVE  Reached(y, next) \subseteq Reached(x, next)
  <2>1. y \in Reached(x, next) /\ \A z \in Reached(x, next) : next[z] \subseteq Reached(x, next)
    BY ReachedIs
  <2> QED
    BY <2>1, <1>1, ReachedIs
<1>5. next[x] \subseteq Reached(x, next)
  BY ReachedIs
<1> QED
  BY <1>3, <1>4, <1>5

----------------------------------------------------------------------------
(* The graphs of a program.                                                *)

LEMMA ProgramFacts ==
  ASSUME prog \in Program
  PROVE  /\ MaxFields \in Nat /\ NoClass \notin Classes /\ IsFiniteSet(Classes)
         /\ DOMAIN prog.base = Classes /\ prog.classes \in Seq(Classes)
         /\ \A c \in Classes :
              /\ prog.base[c] \in Classes \cup {NoClass}
              /\ prog.fields[c] \in Seq(Fields) /\ prog.methods[c] \in Seq(ToSet(prog.methods[c]))
              /\ ClassType(c) \in Mentioned
         /\ \A f \in Fields : f.type \in Mentioned
         /\ IsFiniteSet(Mentioned)
         /\ \A t \in Mentioned : /\ t.of \in Seq(Mentioned)
                                 /\ t.kind = "class" => \E c \in Classes : t = ClassType(c)
         /\ prog.asked \in Classes \cup {NoClass}
<1>1. /\ prog.classes \in Seq(DOMAIN prog.base) /\ ToSet(prog.classes) = DOMAIN prog.base
      /\ MaxFields \in Nat /\ NoClass \notin DOMAIN prog.base
      /\ \A c \in DOMAIN prog.base :
           /\ prog.base[c] \in DOMAIN prog.base \cup {NoClass}
           /\ prog.fields[c] \in Seq(ToSet(prog.fields[c]))
           /\ prog.methods[c] \in Seq(ToSet(prog.methods[c]))
           /\ \A f \in ToSet(prog.fields[c]) : f.type \in prog.types
           /\ ClassType(c) \in prog.types
      /\ IsFiniteSet(prog.types)
      /\ \A t \in prog.types : /\ t.of \in Seq(prog.types)
                               /\ t.kind = "class" => \E c \in DOMAIN prog.base : t = ClassType(c)
      /\ prog.asked \in DOMAIN prog.base \cup {NoClass}
  BY ProgramAssumption
<1>2. Classes = DOMAIN prog.base
  BY <1>1 DEF Classes
<1>3. IsFiniteSet(Classes)
  <2>1. Len(prog.classes) \in Nat /\ DOMAIN prog.classes = 1 .. Len(prog.classes)
    BY <1>1, Elements
  <2>2. prog.classes \in [1 .. Len(prog.classes) -> Classes]
    BY <1>1, <1>2, <2>1
  <2>3. \A c \in Classes : \E i \in 1 .. Len(prog.classes) : prog.classes[i] = c
    BY <2>1 DEF Classes, ToSet
  <2>4. ExistsSurjection(1 .. Len(prog.classes), Classes)
    BY <2>2, <2>3 DEF ExistsSurjection, Surjection
  <2> QED
    BY <2>1, <2>4, FS_NatSurjection
<1>4. ASSUME NEW c \in Classes
      PROVE  prog.fields[c] \in Seq(Fields)
  <2>1. ToSet(prog.fields[c]) \subseteq Fields
    BY DEF Fields
  <2>2. prog.fields[c] \in Seq(ToSet(prog.fields[c]))
    BY <1>1, <1>2
  <2> QED
    BY <2>1, <2>2
<1>5. \A f \in Fields : f.type \in Mentioned
  BY <1>1, <1>2 DEF Fields, Mentioned
<1> QED
  BY <1>1, <1>2, <1>3, <1>4, <1>5 DEF Mentioned

LEMMA ClassTypeIs ==
  ASSUME NEW c
  PROVE  /\ ClassType(c).kind = "class" /\ ClassType(c).name = c /\ ClassType(c).of = <<>>
         /\ ByValue(ClassType(c)) /\ ~Leaf(ClassType(c)) /\ ~Unsupported(ClassType(c))
BY DEF ClassType, ByValue, Leaf, Unsupported

LEMMA BaseIs ==
  ASSUME NEW c
  PROVE  ToSet(BaseOf(c)) = IF prog.base[c] = NoClass THEN {} ELSE {prog.base[c]}
BY DEF BaseOf, ToSet

LEMMA AboveIs ==
  ASSUME prog \in Program, NEW c \in Classes
  PROVE  /\ Above(c) \subseteq Classes /\ c \in Lineage(c) /\ Lineage(c) \subseteq Classes
         /\ Above(c) = IF prog.base[c] = NoClass THEN {} ELSE Lineage(prog.base[c])
         /\ prog.base[c] # NoClass => prog.base[c] \in Classes /\ prog.base[c] \in Above(c)
         /\ \A d \in Lineage(c) : prog.base[d] # NoClass => prog.base[d] \in Above(c)
         /\ \A d \in Above(c) : Lineage(d) \subseteq Above(c)
         /\ \A S : /\ \A d \in {c} \cup (S \cap Classes) : prog.base[d] # NoClass => prog.base[d] \in S
                   => Above(c) \subseteq S
<1> DEFINE next == [d \in Classes |-> ToSet(BaseOf(d))]
<1>1. /\ IsFiniteSet(Classes) /\ NoClass \notin Classes
      /\ \A d \in Classes : prog.base[d] \in Classes \cup {NoClass}
  BY ProgramFacts
<1>2. \A d \in Classes : next[d] = IF prog.base[d] = NoClass THEN {} ELSE {prog.base[d]}
  BY BaseIs
<1>3. next \in [Classes -> SUBSET Classes]
  BY <1>1, <1>2
<1>4. \A d \in Classes : Above(d) = Reached(d, next)
  BY DEF Above
<1> HIDE DEF next
<1>5. \A d \in Classes :
        /\ Above(d) \subseteq Classes /\ next[d] \subseteq Above(d)
        /\ \A e \in Above(d) : next[e] \subseteq Above(d)
        /\ \A S : next[d] \subseteq S /\ (\A e \in S \cap Classes : next[e] \subseteq S) => Above(d) \subseteq S
        /\ Above(d) = UNION {{e} \cup Above(e) : e \in next[d]}
  <2>1. TAKE d \in Classes
  <2>2. /\ Reached(d, next) \subseteq Classes /\ next[d] \subseteq Reached(d, next)
        /\ \A e \in Reached(d, next) : next[e] \subseteq Reached(d, next)
        /\ \A S : next[d] \subseteq S /\ (\A e \in S \cap Classes : next[e] \subseteq S) =>
             Reached(d, next) \subseteq S
    BY <1>1, <1>3, ReachedIs
  <2>3. Reached(d, next) = UNION {{e} \cup Reached(e, next) : e \in next[d]}
    BY <1>1, <1>3, ReachedSplit
  <2>4. next[d] \subseteq Classes
    BY <1>3
  <2>5. \A e \in next[d] : Above(e) = Reached(e, next)
    BY <1>4, <2>4
  <2>6. {{e} \cup Reached(e, next) : e \in next[d]} = {{e} \cup Above(e) : e \in next[d]}
    BY <2>5
  <2> QED
    BY <1>4, <2>2, <2>3, <2>6
<1>6. Above(c) = IF prog.base[c] = NoClass THEN {} ELSE Lineage(prog.base[c])
  <2>1. Above(c) = UNION {{e} \cup Above(e) : e \in next[c]}
    BY <1>5
  <2>2. next[c] = IF prog.base[c] = NoClass THEN {} ELSE {prog.base[c]}
    BY <1>2
  <2>3. CASE prog.base[c] = NoClass
    BY <2>1, <2>2, <2>3
  <2>4. CASE prog.base[c] # NoClass
    BY <2>1, <2>2, <2>4 DEF Lineage
  <2> QED
    BY <2>3, <2>4
<1>7. ASSUME NEW d \in Lineage(c), prog.base[d] # NoClass
      PROVE  prog.base[d] \in Above(c)
  <2>1. d = c \/ d \in Above(c)
    BY DEF Lineage
  <2>2. d \in Classes /\ next[d] \subseteq Above(c)
    BY <2>1, <1>5
  <2> QED
    BY <2>2, <1>2, <1>7
<1>8. ASSUME NEW d \in Above(c)
      PROVE  Lineage(d) \subseteq Above(c)
  <2>1. d \in Classes /\ next[d] \subseteq Above(c) /\ \A e \in Above(c) : next[e] \subseteq Above(c)
    BY <1>5
  <2>2. Above(d) \subseteq Above(c)
    BY <2>1, <1>5
  <2> QED
    BY <2>2 DEF Lineage
<1>9. ASSUME NEW S, \A d \in {c} \cup (S \cap Classes) : prog.base[d] # NoClass => prog.base[d] \in S
      PROVE  Above(c) \subseteq S
  <2>1. next[c] \subseteq S
    BY <1>9, <1>2
  <2>3. ASSUME NEW e \in S \cap Classes
        PROVE  next[e] \subseteq S
    <3>1. next[e] = IF prog.base[e] = NoClass THEN {} ELSE {prog.base[e]}
      BY <1>2
    <3> QED
      BY <3>1, <1>9
  <2> QED
    BY <2>1, <2>3, <1>5
<1>10. c \in Lineage(c) /\ Lineage(c) \subseteq Classes
  BY <1>5 DEF Lineage
<1>11. prog.base[c] # NoClass => prog.base[c] \in Classes
  BY <1>1
<1> QED
  BY <1>5, <1>6, <1>7, <1>8, <1>9, <1>10, <1>11

LEMMA DeclaredIs ==
  ASSUME prog \in Program, NEW c \in Classes
  PROVE  /\ \A p \in Declared(c) : FieldAt(p) \in Fields
         /\ \A p : p \in Declared(c) <=>
              \E d \in Lineage(c) : \E i \in 1 .. Len(prog.fields[d]) : p = <<d, i>>
<1>1. \A p : p \in Declared(c) <=> \E d \in Lineage(c) : \E i \in 1 .. Len(prog.fields[d]) : p = <<d, i>>
  BY DEF Declared
<1>2. ASSUME NEW p \in Declared(c)
      PROVE  FieldAt(p) \in Fields
  <2>1. PICK d \in Lineage(c) : \E i \in 1 .. Len(prog.fields[d]) : p = <<d, i>>
    BY <1>1
  <2>0. PICK i \in 1 .. Len(prog.fields[d]) : p = <<d, i>>
    BY <2>1
  <2>2. prog.fields[d] \in Seq(Fields)
    BY AboveIs, ProgramFacts
  <2>3. FieldAt(p) = prog.fields[d][i]
    BY <2>0 DEF FieldAt
  <2> QED
    BY <2>0, <2>2, <2>3, Elements
<1> QED
  BY <1>1, <1>2

LEMMA PartsIn ==
  ASSUME prog \in Program, NEW t \in Mentioned
  PROVE  PartsOf(t) \subseteq Mentioned
<1>1. CASE t.kind = "class"
  <2>1. PICK c \in Classes : t = ClassType(c)
    BY <1>1, ProgramFacts
  <2>2. t.name = c
    BY <2>1, ClassTypeIs
  <2>3. PartsOf(t) = {FieldAt(p).type : p \in Declared(c)}
    BY <1>1, <2>2 DEF PartsOf
  <2> QED
    BY <2>3, DeclaredIs, ProgramFacts
<1>2. CASE t.kind # "class"
  <2>1. t.of \in Seq(Mentioned)
    BY ProgramFacts
  <2> QED
    BY <1>2, <2>1, Elements DEF PartsOf
<1> QED
  BY <1>1, <1>2

LEMMA HeldIs ==
  ASSUME prog \in Program, NEW t \in Mentioned
  PROVE  /\ HeldBy(t) \subseteq Held(t) /\ Held(t) \subseteq Mentioned
         /\ \A u \in Held(t) : HeldBy(u) \subseteq Held(t)
         /\ \A S : HeldBy(t) \subseteq S /\ (\A u \in S \cap Mentioned : HeldBy(u) \subseteq S) =>
              Held(t) \subseteq S
<1> DEFINE next == [u \in Mentioned |-> HeldBy(u)]
<1>1. IsFiniteSet(Mentioned)
  BY ProgramFacts
<1>2. next \in [Mentioned -> SUBSET Mentioned]
  BY PartsIn DEF HeldBy
<1>3. Held(t) = Reached(t, next) /\ \A u \in Mentioned : next[u] = HeldBy(u)
  BY DEF Held
<1> HIDE DEF next
<1>4. /\ next[t] \subseteq Reached(t, next) /\ Reached(t, next) \subseteq Mentioned
      /\ \A u \in Reached(t, next) : next[u] \subseteq Reached(t, next)
      /\ \A S : next[t] \subseteq S /\ (\A u \in S \cap Mentioned : next[u] \subseteq S) =>
           Reached(t, next) \subseteq S
  BY <1>1, <1>2, ReachedIs
<1>5. ASSUME NEW S, HeldBy(t) \subseteq S, \A u \in S \cap Mentioned : HeldBy(u) \subseteq S
      PROVE  Held(t) \subseteq S
  <2>1. next[t] \subseteq S /\ \A u \in S \cap Mentioned : next[u] \subseteq S
    BY <1>3, <1>5
  <2> QED
    BY <1>3, <1>4, <2>1
<1> QED
  BY <1>3, <1>4, <1>5

LEMMA EverythingIs ==
  ASSUME prog \in Program, NEW t \in Mentioned
  PROVE  /\ MadeOf(t) \subseteq Everything(t) /\ Everything(t) \subseteq Mentioned
         /\ \A u \in Everything(t) : MadeOf(u) \subseteq Everything(t)
         /\ Everything(t) = UNION {{u} \cup Everything(u) : u \in MadeOf(t)}
<1> DEFINE next == [u \in Mentioned |-> MadeOf(u)]
<1>1. IsFiniteSet(Mentioned)
  BY ProgramFacts
<1>2. next \in [Mentioned -> SUBSET Mentioned]
  BY PartsIn DEF MadeOf
<1>3. \A u \in Mentioned : Everything(u) = Reached(u, next) /\ next[u] = MadeOf(u)
  BY DEF Everything
<1> HIDE DEF next
<1>4. /\ next[t] \subseteq Reached(t, next) /\ Reached(t, next) \subseteq Mentioned
      /\ \A u \in Reached(t, next) : next[u] \subseteq Reached(t, next)
  BY <1>1, <1>2, ReachedIs
<1>5. Reached(t, next) = UNION {{u} \cup Reached(u, next) : u \in next[t]}
  BY <1>1, <1>2, ReachedSplit
<1>6. MadeOf(t) \subseteq Mentioned /\ next[t] = MadeOf(t)
  BY <1>2, <1>3
<1>7. {{u} \cup Reached(u, next) : u \in next[t]} = {{u} \cup Everything(u) : u \in MadeOf(t)}
  BY <1>3, <1>6
<1>8. Everything(t) = UNION {{u} \cup Everything(u) : u \in MadeOf(t)}
  <2>1. Everything(t) = Reached(t, next)
    BY <1>3
  <2> QED
    BY ONLY <2>1, <1>5, <1>7
<1> QED
  BY <1>3, <1>4, <1>8

----------------------------------------------------------------------------
(* The fields of a class.                                                  *)

LEMMA ListsFacts ==
  ASSUME NEW s \in Seq(Fields), NEW c, Lists(s, c)
  PROVE  /\ ToSet(s) = {FieldAt(p) : p \in Declared(c)}
         /\ IsFiniteSet(Declared(c)) /\ Cardinality(Declared(c)) = Len(s)
         /\ Distinct(s) <=>
              \A p, q \in Declared(c) : FieldAt(p).name = FieldAt(q).name => p = q
<1> DEFINE n == Len(s)
<1>1. n \in Nat /\ ToSet(s) = {s[i] : i \in 1 .. n}
  BY Elements
<1>2. PICK at \in Bijection(1 .. n, Declared(c)) : \A i \in 1 .. n : s[i] = FieldAt(at[i])
  BY DEF Lists
<1>3. /\ at \in [1 .. n -> Declared(c)]
      /\ \A i, j \in 1 .. n : at[i] = at[j] => i = j
      /\ \A p \in Declared(c) : \E i \in 1 .. n : at[i] = p
  BY DEF Bijection, Injection, Surjection, IsInjective
<1>4. ToSet(s) = {FieldAt(p) : p \in Declared(c)}
  <2>1. \A i \in 1 .. n : at[i] \in Declared(c)
    BY <1>3
  <2> QED
    BY <1>1, <1>2, <1>3, <2>1
<1>5. IsFiniteSet(Declared(c)) /\ Cardinality(Declared(c)) = n
  <2>1. IsFiniteSet(1 .. n) /\ Cardinality(1 .. n) = n
    <3> HIDE DEF n
    <3>1. n \in Nat /\ n \in Int /\ 1 \in Int
      BY <1>1
    <3>2. IsFiniteSet(1 .. n) /\ Cardinality(1 .. n) = IF 1 > n THEN 0 ELSE n - 1 + 1
      BY ONLY <3>1, FS_Interval
    <3> QED
      BY ONLY <3>1, <3>2
  <2>2. ExistsBijection(1 .. n, Declared(c))
    BY DEF ExistsBijection
  <2> QED
    BY <2>1, <2>2, FS_Bijection
<1>6. ASSUME Distinct(s), NEW p \in Declared(c), NEW q \in Declared(c), FieldAt(p).name = FieldAt(q).name
      PROVE  p = q
  <2>1. PICK i \in 1 .. n : at[i] = p
    BY <1>3
  <2>2. PICK j \in 1 .. n : at[j] = q
    BY <1>3
  <2>3. s[i].name = s[j].name
    BY <2>1, <2>2, <1>2, <1>6
  <2> QED
    BY <2>1, <2>2, <2>3, <1>6 DEF Distinct
<1>7. ASSUME \A p, q \in Declared(c) : FieldAt(p).name = FieldAt(q).name => p = q,
             NEW i \in 1 .. n, NEW j \in 1 .. n, s[i].name = s[j].name
      PROVE  i = j
  <2>1. at[i] \in Declared(c) /\ at[j] \in Declared(c)
    BY <1>3
  <2>2. at[i] = at[j]
    BY <2>1, <1>7, <1>2
  <2> QED
    BY <2>2, <1>3
<1> QED
  BY <1>4, <1>5, <1>6, <1>7 DEF Distinct

LEMMA LaidFacts ==
  ASSUME prog \in Program, NEW c \in Classes, fields \in [Classes -> Seq(Fields)], Laid(c)
  PROVE  /\ fields[c] \in Seq(Fields)
         /\ ToSet(fields[c]) = {FieldAt(p) : p \in Declared(c)}
         /\ IsFiniteSet(Declared(c)) /\ Cardinality(Declared(c)) = Len(fields[c])
         /\ \A p, q \in Declared(c) : FieldAt(p).name = FieldAt(q).name => p = q
         /\ FieldNames(c) = FieldsNamed(c)
         /\ ToSet(Components(ClassType(c))) = PartsOf(ClassType(c))
<1>1. fields[c] \in Seq(Fields) /\ Lists(fields[c], c) /\ Distinct(fields[c])
  BY DEF Laid
<1>2. /\ ToSet(fields[c]) = {FieldAt(p) : p \in Declared(c)}
      /\ IsFiniteSet(Declared(c)) /\ Cardinality(Declared(c)) = Len(fields[c])
      /\ \A p, q \in Declared(c) : FieldAt(p).name = FieldAt(q).name => p = q
  BY <1>1, ListsFacts
<1>3. ToSet(fields[c]) = {fields[c][i] : i \in 1 .. Len(fields[c])}
  BY <1>1, Elements
<1>4. FieldNames(c) = FieldsNamed(c)
  <2>1. FieldNames(c) = {f.name : f \in ToSet(fields[c])}
    BY <1>3 DEF FieldNames
  <2> QED
    BY <1>2, <2>1 DEF FieldsNamed
<1>5. ToSet(Components(ClassType(c))) = PartsOf(ClassType(c))
  <2>1. Components(ClassType(c)) = [i \in 1 .. Len(fields[c]) |-> fields[c][i].type]
    BY ClassTypeIs DEF Components
  <2>2. PartsOf(ClassType(c)) = {FieldAt(p).type : p \in Declared(c)}
    BY ClassTypeIs DEF PartsOf
  <2>3. ToSet(Components(ClassType(c))) = {f.type : f \in ToSet(fields[c])}
    <3> DEFINE s == [i \in 1 .. Len(fields[c]) |-> fields[c][i].type]
    <3>1. ToSet(s) = {s[i] : i \in 1 .. Len(fields[c])}
      BY DEF ToSet
    <3>2. {s[i] : i \in 1 .. Len(fields[c])} = {fields[c][i].type : i \in 1 .. Len(fields[c])}
      OBVIOUS
    <3>3. {fields[c][i].type : i \in 1 .. Len(fields[c])} = {f.type : f \in ToSet(fields[c])}
      BY <1>3
    <3> HIDE DEF s
    <3>4. Components(ClassType(c)) = s
      BY <2>1 DEF s
    <3> QED
      BY <3>1, <3>2, <3>3, <3>4
  <2> QED
    BY <1>2, <2>2, <2>3
<1> QED
  BY <1>1, <1>2, <1>4, <1>5

\* Appending the fields of a class to those of its base.
LEMMA ListsNext ==
  ASSUME prog \in Program, fields \in [Classes -> Seq(Fields)], NEW c \in Classes, c \notin Above(c),
         prog.base[c] # NoClass => Lists(fields[prog.base[c]], prog.base[c])
  PROVE  AllFields(c) \in Seq(Fields) /\ Lists(AllFields(c), c)
<1> DEFINE own == prog.fields[c]
           b == prog.base[c]
           k == Len(own)
           n == Len(Inherited(c))
           s == AllFields(c)
<1>1. /\ own \in Seq(Fields) /\ Inherited(c) \in Seq(Fields) /\ k \in Nat /\ n \in Nat
      /\ b # NoClass => b \in Classes /\ Inherited(c) = fields[b]
      /\ b = NoClass => n = 0
  <2>1. own \in Seq(Fields) /\ (b # NoClass => b \in Classes)
    BY ProgramFacts
  <2>2. b # NoClass => fields[b] \in Seq(Fields)
    BY <2>1
  <2>3. Inherited(c) \in Seq(Fields) /\ (b = NoClass => Len(Inherited(c)) = 0)
    BY <2>2 DEF Inherited
  <2> QED
    BY <2>1, <2>3, Elements DEF Inherited
<1>2. /\ s \in Seq(Fields) /\ Len(s) = n + k
      /\ \A i \in 1 .. n : s[i] = Inherited(c)[i]
      /\ \A i \in 1 .. k : s[n + i] = own[i]
  BY <1>1 DEF AllFields
<1>3. /\ \A i \in 1 .. k : <<c, i>> \in Declared(c)
      /\ b # NoClass => Declared(b) \subseteq Declared(c)
      /\ \A p \in Declared(c) : \/ \E i \in 1 .. k : p = <<c, i>>
                                \/ b # NoClass /\ p \in Declared(b)
      /\ b # NoClass => \A p \in Declared(b) : p[1] # c
  <2>1. /\ c \in Lineage(c)
        /\ Above(c) = IF b = NoClass THEN {} ELSE Lineage(b)
        /\ Lineage(c) = {c} \cup Above(c)
    BY AboveIs DEF Lineage
  <2>2. /\ \A p : p \in Declared(c) <=> \E d \in Lineage(c) : \E i \in 1 .. Len(prog.fields[d]) : p = <<d, i>>
        /\ b # NoClass => \A p : p \in Declared(b) <=>
             \E d \in Lineage(b) : \E i \in 1 .. Len(prog.fields[d]) : p = <<d, i>>
    BY <1>1, DeclaredIs
  <2>3. \A i \in 1 .. k : <<c, i>> \in Declared(c)
    BY <2>1, <2>2
  <2>4. ASSUME NEW p \in Declared(c)
        PROVE  (\E i \in 1 .. k : p = <<c, i>>) \/ (b # NoClass /\ p \in Declared(b))
    <3>1. PICK d \in Lineage(c) : \E i \in 1 .. Len(prog.fields[d]) : p = <<d, i>>
      BY <2>2
    <3>2. CASE d = c
      BY <3>1, <3>2
    <3>3. CASE d # c
      <4>1. b # NoClass /\ d \in Lineage(b)
        BY <3>3, <2>1
      <4> QED
        BY <3>1, <4>1, <2>2
    <3> QED
      BY <3>2, <3>3
  <2>5. ASSUME b # NoClass, NEW p \in Declared(b)
        PROVE  p \in Declared(c) /\ p[1] # c
    <3>1. PICK d \in Lineage(b) : \E i \in 1 .. Len(prog.fields[d]) : p = <<d, i>>
      BY <2>2, <2>5
    <3>2. p[1] = d /\ d \in Lineage(c) /\ d # c
      BY <3>1, <2>1, <2>5
    <3> QED
      BY <3>1, <3>2, <2>2
  <2> QED
    BY <2>3, <2>4, <2>5
<1>4. PICK at : b # NoClass =>
        /\ at \in Bijection(1 .. n, Declared(b))
        /\ \A i \in 1 .. n : Inherited(c)[i] = FieldAt(at[i])
  BY <1>1 DEF Lists
<1>5. b # NoClass =>
        /\ \A i \in 1 .. n : at[i] \in Declared(b)
        /\ \A i, j \in 1 .. n : at[i] = at[j] => i = j
        /\ \A p \in Declared(b) : \E i \in 1 .. n : at[i] = p
  BY <1>4 DEF Bijection, Injection, Surjection, IsInjective
<1> DEFINE to == [i \in 1 .. n + k |-> IF i <= n THEN at[i] ELSE <<c, i - n>>]
<1> HIDE DEF s, own, n, k, b
<1>6. \A i \in 1 .. n + k : i <= n => b # NoClass /\ i \in 1 .. n
  BY <1>1
<1>7. \A i \in 1 .. n + k : ~(i <= n) => i - n \in 1 .. k
  BY <1>1
<1>8. to \in [1 .. n + k -> Declared(c)]
  BY <1>3, <1>5, <1>6, <1>7
<1>9. ASSUME NEW i \in 1 .. n + k, NEW j \in 1 .. n + k, to[i] = to[j]
      PROVE  i = j
  <2>1. CASE i <= n /\ j <= n
    BY <2>1, <1>5, <1>6, <1>9
  <2>2. CASE ~(i <= n) /\ ~(j <= n)
    <3>1. <<c, i - n>> = <<c, j - n>>
      BY <2>2, <1>9
    <3>2. i - n = j - n
      BY <3>1
    <3> QED
      BY <3>2, <1>1
  <2>3. CASE i <= n /\ ~(j <= n)
    <3>1. at[i] = <<c, j - n>> /\ at[i][1] # c
      BY <2>3, <1>3, <1>5, <1>6, <1>9
    <3> QED
      BY <3>1
  <2>4. CASE ~(i <= n) /\ j <= n
    <3>1. at[j] = <<c, i - n>> /\ at[j][1] # c
      BY <2>4, <1>3, <1>5, <1>6, <1>9
    <3> QED
      BY <3>1
  <2> QED
    BY <2>1, <2>2, <2>3, <2>4
<1>10. ASSUME NEW p \in Declared(c)
       PROVE  \E i \in 1 .. n + k : to[i] = p
  <2>1. CASE \E i \in 1 .. k : p = <<c, i>>
    <3>1. PICK i \in 1 .. k : p = <<c, i>>
      BY <2>1
    <3>2. n + i \in 1 .. n + k /\ ~(n + i <= n) /\ (n + i) - n = i
      BY <1>1
    <3>3. to[n + i] = <<c, (n + i) - n>>
      BY <3>2
    <3> QED
      BY <3>1, <3>2, <3>3
  <2>2. CASE b # NoClass /\ p \in Declared(b)
    <3>1. PICK i \in 1 .. n : at[i] = p
      BY <2>2, <1>5
    <3>2. i \in 1 .. n + k /\ i <= n
      BY <1>1
    <3> QED
      BY <3>1, <3>2
  <2> QED
    BY <2>1, <2>2, <1>3
<1>11. ASSUME NEW i \in 1 .. n + k
       PROVE  s[i] = FieldAt(to[i])
  <2>1. CASE i <= n
    <3>1. s[i] = Inherited(c)[i] /\ Inherited(c)[i] = FieldAt(at[i]) /\ to[i] = at[i]
      BY <2>1, <1>2, <1>4, <1>6
    <3> QED
      BY <3>1
  <2>2. CASE ~(i <= n)
    <3>1. i - n \in 1 .. k /\ n + (i - n) = i /\ to[i] = <<c, i - n>>
      BY <2>2, <1>7, <1>1
    <3>2. s[n + (i - n)] = own[i - n]
      BY <3>1, <1>2
    <3>3. FieldAt(<<c, i - n>>) = own[i - n]
      BY DEF FieldAt, own
    <3> QED
      BY <3>1, <3>2, <3>3
  <2> QED
    BY <2>1, <2>2
<1> HIDE DEF to
<1>12. to \in Bijection(1 .. n + k, Declared(c))
  BY <1>8, <1>9, <1>10 DEF Bijection, Injection, Surjection, IsInjective
<1>13. Lists(s, c)
  BY <1>2, <1>11, <1>12 DEF Lists
<1> QED
  BY <1>2, <1>13 DEF s

\* Induction on the classes above one: what is passed on to the base of a
\* class, by a class that has one, happens to no class.
LEMMA NoneLeft ==
  ASSUME prog \in Program, NEW Bad \in SUBSET Classes,
         \A c \in Bad : c \notin Above(c) /\ prog.base[c] # NoClass /\ prog.base[c] \in Bad
  PROVE  Bad = {}
<1> SUFFICES ASSUME Bad # {}
             PROVE  FALSE
  OBVIOUS
<1> DEFINE T == {Cardinality(Above(c)) : c \in Bad}
<1>1. \A c \in Bad : Above(c) \subseteq Classes /\ IsFiniteSet(Above(c)) /\ Cardinality(Above(c)) \in Nat
  BY AboveIs, ProgramFacts, FS_Subset, FS_CardinalityType
<1>2. PICK n \in T : \A k \in T : n <= k
  <2>1. T \in SUBSET Nat /\ T # {}
    BY <1>1
  <2> HIDE DEF T
  <2> QED
    BY <2>1, Smallest
<1>3. PICK c \in Bad : n = Cardinality(Above(c))
  BY <1>2
<1> DEFINE b == prog.base[c]
<1>4. b \in Bad /\ b \notin Above(b) /\ b \in Above(c) /\ Above(c) = Lineage(b)
  BY AboveIs
<1>5. Above(b) \in SUBSET Above(c) /\ Above(b) # Above(c)
  BY <1>4 DEF Lineage
<1>6. Cardinality(Above(b)) <= n /\ Cardinality(Above(b)) # n
  BY <1>1, <1>3, <1>5, FS_Subset
<1>7. n <= Cardinality(Above(b))
  BY <1>2, <1>4
<1>8. n \in Nat /\ Cardinality(Above(b)) \in Nat
  BY <1>1, <1>3, <1>4
<1> HIDE DEF b, T
<1> QED
  BY <1>6, <1>7, <1>8

LEMMA SameProgram ==
  ASSUME prog' = prog
  PROVE  /\ Classes' = Classes /\ Mentioned' = Mentioned /\ Fields' = Fields /\ HeldTypes' = HeldTypes
         /\ \A x : /\ BaseOf(x)' = BaseOf(x) /\ Above(x)' = Above(x) /\ Lineage(x)' = Lineage(x)
                   /\ Declared(x)' = Declared(x) /\ FieldAt(x)' = FieldAt(x)
                   /\ FieldsNamed(x)' = FieldsNamed(x)
                   /\ PartsOf(x)' = PartsOf(x) /\ HeldBy(x)' = HeldBy(x) /\ Held(x)' = Held(x)
                   /\ MadeOf(x)' = MadeOf(x) /\ Everything(x)' = Everything(x)
                   /\ (Encodable(x)' = TRUE) = (Encodable(x) = TRUE)
                   /\ (Supported(x)' = TRUE) = (Supported(x) = TRUE)
         /\ \A x, y : /\ (Lists(x, y)' = TRUE) = (Lists(x, y) = TRUE)
                      /\ (Declares(x, y)' = TRUE) = (Declares(x, y) = TRUE)
         /\ \A s : (Ordered(s)' = TRUE) = (Ordered(s) = TRUE)
         /\ \A why : (Defect(why)' = TRUE) = (Defect(why) = TRUE)
<1>1. Classes' = Classes /\ Mentioned' = Mentioned /\ Fields' = Fields
  BY DEF Classes, Mentioned, Fields
<1>2. HeldTypes' = HeldTypes
  BY <1>1 DEF HeldTypes
<1>3. \A x : BaseOf(x)' = BaseOf(x) /\ FieldAt(x)' = FieldAt(x)
  BY DEF BaseOf, FieldAt
<1>4. \A x : Above(x)' = Above(x)
  BY <1>1, <1>3 DEF Above
<1>5. \A x : Lineage(x)' = Lineage(x)
  BY <1>4 DEF Lineage
<1>6. \A x : Declared(x)' = Declared(x)
  BY <1>5 DEF Declared
<1>7. \A x : FieldsNamed(x)' = FieldsNamed(x) /\ PartsOf(x)' = PartsOf(x)
  BY <1>3, <1>6 DEF FieldsNamed, PartsOf
<1>8. \A x : HeldBy(x)' = HeldBy(x) /\ MadeOf(x)' = MadeOf(x)
  BY <1>7 DEF HeldBy, MadeOf
<1>9. \A x : Held(x)' = Held(x) /\ Everything(x)' = Everything(x)
  BY <1>1, <1>8 DEF Held, Everything
<1>10. \A x : /\ (Encodable(x)' = TRUE) = (Encodable(x) = TRUE)
              /\ (Supported(x)' = TRUE) = (Supported(x) = TRUE)
  BY <1>9 DEF Encodable, Supported
<1>11. \A x, y : /\ (Lists(x, y)' = TRUE) = (Lists(x, y) = TRUE)
                 /\ (Declares(x, y)' = TRUE) = (Declares(x, y) = TRUE)
  BY <1>3, <1>6 DEF Lists, Declares
<1>12. ASSUME NEW why
       PROVE  (Defect(why)' = TRUE) = (Defect(why) = TRUE)
  BY <1>1, <1>3, <1>4, <1>6, <1>7, <1>9, <1>10, <1>11 DEF Defect
<1>13. ASSUME NEW s
       PROVE  (Ordered(s)' = TRUE) = (Ordered(s) = TRUE)
  BY <1>8 DEF Ordered
<1> QED
  BY <1>1, <1>2, <1>3, <1>4, <1>5, <1>6, <1>7, <1>8, <1>9, <1>10, <1>11, <1>12, <1>13

\* What a walk calls itself on.
LEMMA ChildrenAre ==
  ASSUME Stages, FieldsLaid, phase \in {"fields", "inherit", "call", "structs", "json"},
         NEW x \in Walkable
  PROVE  /\ Len(Children(x)) \in Nat
         /\ phase \in {"fields", "inherit"} =>
              /\ x \in Classes /\ Children(x) \in Seq(Classes)
              /\ ToSet(Children(x)) = IF prog.base[x] = NoClass THEN {} ELSE {prog.base[x]}
         /\ phase \notin {"fields", "inherit"} =>
              /\ x \in Mentioned /\ Children(x) \in Seq(Mentioned) /\ ToSet(Children(x)) = PartsOf(x)
<1>1. prog \in Program /\ fields \in [Classes -> Seq(Fields)]
  BY DEF Stages
<1>2. CASE phase \in {"fields", "inherit"}
  <2>1. x \in Classes /\ Children(x) = BaseOf(x)
    BY <1>2 DEF Walkable, Children
  <2>2. BaseOf(x) \in Seq(Classes)
    BY <1>1, <2>1, ProgramFacts DEF BaseOf
  <2> QED
    BY <1>2, <2>1, <2>2, BaseIs, Elements
<1>3. CASE phase \notin {"fields", "inherit"}
  <2>1. x \in Mentioned /\ Children(x) = Components(x)
    BY <1>3 DEF Walkable, Children, HeldTypes
  <2>2. CASE x.kind = "class"
    <3>1. PICK c \in Classes : x = ClassType(c)
      BY <1>1, <2>1, <2>2, ProgramFacts
    <3>2. Laid(c)
      BY <1>3 DEF FieldsLaid, Complete
    <3>3. ToSet(Components(x)) = PartsOf(x) /\ fields[c] \in Seq(Fields)
      BY <1>1, <3>1, <3>2, LaidFacts
    <3>4. Components(x) = [i \in 1 .. Len(fields[c]) |-> fields[c][i].type]
      BY <3>1, ClassTypeIs DEF Components
    <3>5. \A i \in 1 .. Len(fields[c]) : fields[c][i].type \in Mentioned
      BY <1>1, <3>3, Elements, ProgramFacts
    <3>6. Components(x) \in Seq(Mentioned)
      BY <3>3, <3>4, <3>5
    <3> QED
      BY <1>3, <2>1, <3>3, <3>6, Elements
  <2>3. CASE x.kind # "class"
    <3>1. Components(x) = x.of /\ PartsOf(x) = ToSet(x.of) /\ x.of \in Seq(Mentioned)
      BY <1>1, <2>1, <2>3, ProgramFacts DEF Components, PartsOf
    <3> QED
      BY <1>3, <2>1, <3>1, Elements
  <2> QED
    BY <2>2, <2>3
<1> QED
  BY <1>2, <1>3

LEMMA TopFacts ==
  ASSUME Stages, FieldsLaid, Calls, stack # <<>>
  PROVE  /\ phase \in {"fields", "inherit", "call", "structs", "json"}
         /\ Len(stack) \in Nat \ {0} /\ Top = stack[Len(stack)]
         /\ \A i \in 1 .. Len(stack) : /\ stack[i] \in Frames
                                       /\ stack[i].on \in Walkable /\ stack[i].seen \in Nat
         /\ Top.on \in Walkable /\ Top.seen \in Nat
         /\ Len(Children(Top.on)) \in Nat
         /\ Unseen => Top.seen + 1 \in 1 .. Len(Children(Top.on)) /\ NextChild \in ToSet(Children(Top.on))
         /\ ~Unseen => \A x \in ToSet(Children(Top.on)) : Settled(x)
<1>1. /\ phase \in {"fields", "inherit", "call", "structs", "json"}
      /\ stack \in Seq(Frames)
  BY DEF Calls, Nested, Stages, Phases
<1>2. Len(stack) \in Nat \ {0} /\ \A i \in 1 .. Len(stack) : stack[i] \in Frames
  BY <1>1
<1>3. Top = stack[Len(stack)]
  BY DEF Top, Last
<1>4. Top.on \in Walkable /\ Top.seen \in Nat
  BY <1>2, <1>3 DEF Frames
<1>5. /\ Len(Children(Top.on)) \in Nat
      /\ ToSet(Children(Top.on)) = {Children(Top.on)[k] : k \in 1 .. Len(Children(Top.on))}
  BY <1>1, <1>4, ChildrenAre, Elements
<1>6. Unseen => Top.seen + 1 \in 1 .. Len(Children(Top.on))
  BY <1>4, <1>5 DEF Unseen
<1>7. Unseen => NextChild \in ToSet(Children(Top.on))
  BY <1>5, <1>6 DEF NextChild
<1>8. ASSUME ~Unseen, NEW x \in ToSet(Children(Top.on))
      PROVE  Settled(x)
  <2>1. PICK k \in 1 .. Len(Children(Top.on)) : x = Children(Top.on)[k]
    BY <1>5
  <2>2. k \in 1 .. Top.seen
    BY <1>4, <1>5, <1>8 DEF Unseen
  <2>3. \/ Settled(Children(Top.on)[k])
        \/ Len(stack) < Len(stack)
    BY <1>2, <1>3, <2>2 DEF Calls, Nested
  <2> QED
    BY <1>2, <2>1, <2>3
<1> QED
  BY <1>1, <1>2, <1>3, <1>4, <1>5, <1>6, <1>7, <1>8 DEF Frames

LEMMA RefuseKeeps ==
  ASSUME IInv, NEW why \in Reasons, Defect(why), Refuse(why)
  PROVE  IInv'
<1>1. /\ prog' = prog /\ fields' = fields /\ structs' = structs /\ encoders' = encoders
      /\ phase' = "refused" /\ reason' = why /\ stack' = <<>>
  BY DEF Refuse
<1>2. /\ Complete' = {} /\ Collected' = {} /\ Inheriting' = {}
  BY <1>1 DEF Complete, Collected, Inheriting
<1>3. Stages'
  BY <1>1, SameProgram DEF IInv, Stages, Phases
<1>4. Written'
  <2>1. structs' \in Seq(HeldTypes')
    BY <1>1, SameProgram DEF IInv, Written
  <2>2. Ordered(structs)'
    BY <1>1, SameProgram DEF IInv, Written
  <2> QED
    BY <1>1, <2>1, <2>2 DEF Written
<1>5. Calls'
  BY <1>1 DEF Calls, Nested, Marked
<1>6. Answered' /\ FieldsLaid' /\ MethodLists'
  BY <1>1, <1>2 DEF Answered, FieldsLaid, MethodLists
<1>7. Defect(why)'
  BY <1>1, SameProgram
<1> QED
  BY <1>1, <1>3, <1>4, <1>5, <1>6, <1>7 DEF IInv

----------------------------------------------------------------------------
(* The calls of a pass.                                                    *)

LEMMA SamePhase ==
  ASSUME prog' = prog, phase' = phase
  PROVE  /\ Walkable' = Walkable /\ Roots' = Roots /\ (Marked' = TRUE) = (Marked = TRUE)
         /\ \A x : Beyond(x)' = Beyond(x)
         /\ fields' = fields \/ phase = "fields" => \A x : Children(x)' = Children(x)
         /\ done \subseteq done' => \A x : Settled(x) => Settled(x)'
<1>1. Walkable' = Walkable
  BY SameProgram DEF Walkable, HeldTypes
<1>2. Roots' = Roots
  BY DEF Roots
<1>3. (Marked' = TRUE) = (Marked = TRUE)
  BY DEF Marked
<1>4. \A x : Beyond(x)' = Beyond(x)
  BY SameProgram DEF Beyond
<1>5. ASSUME fields' = fields \/ phase = "fields"
      PROVE  \A x : Children(x)' = Children(x)
  <2>1. CASE phase = "fields"
    BY <2>1, SameProgram DEF Children
  <2>2. CASE fields' = fields
    BY <2>2, SameProgram DEF Children, Components
  <2> QED
    BY <1>5, <2>1, <2>2
<1>6. ASSUME done \subseteq done', NEW x, Settled(x)
      PROVE  Settled(x)'
  <2>1. CASE Marked
    <3>1. x \in done' \/ (phase' = "structs" /\ ~ByValue(x))
      BY <2>1, <1>6 DEF Settled, Returned
    <3> QED
      BY <3>1, <2>1, <1>3 DEF Settled, Returned
  <2>2. CASE ~Marked
    <3>1. Supported(x)
      BY <2>2, <1>6 DEF Settled
    <3>2. Supported(x)'
      BY <3>1, SameProgram
    <3> QED
      BY <3>2, <2>2, <1>3 DEF Settled
  <2> QED
    BY <2>1, <2>2
<1> QED
  BY <1>1, <1>2, <1>3, <1>4, <1>5, <1>6

LEMMA RootsAre ==
  ASSUME prog \in Program
  PROVE  /\ DOMAIN Roots = 1 .. Len(Roots) /\ Len(Roots) \in Nat
         /\ ToSet(Roots) =
              CASE phase \in {"fields", "inherit"} -> Classes
                [] phase = "call" /\ prog.asked # NoClass -> {ClassType(prog.asked)}
                [] phase = "structs" \/ (phase = "json" /\ prog.json) -> {ClassType(c) : c \in Classes}
                [] OTHER -> {}
<1> DEFINE s == [i \in 1 .. Len(prog.classes) |-> ClassType(prog.classes[i])]
<1>1. prog.classes \in Seq(Classes) /\ ToSet(prog.classes) = Classes
  BY ProgramFacts DEF Classes
<1>2. /\ Len(prog.classes) \in Nat /\ DOMAIN prog.classes = 1 .. Len(prog.classes)
      /\ Classes = {prog.classes[i] : i \in 1 .. Len(prog.classes)}
  BY <1>1, Elements
<1>3. DOMAIN s = 1 .. Len(prog.classes) /\ Len(s) = Len(prog.classes)
  BY <1>2
<1>4. ToSet(s) = {ClassType(c) : c \in Classes}
  <2>1. ToSet(s) = {s[i] : i \in 1 .. Len(prog.classes)}
    BY <1>3 DEF ToSet
  <2>2. {s[i] : i \in 1 .. Len(prog.classes)} = {ClassType(prog.classes[i]) : i \in 1 .. Len(prog.classes)}
    OBVIOUS
  <2> HIDE DEF s
  <2>3. {ClassType(prog.classes[i]) : i \in 1 .. Len(prog.classes)} = {ClassType(c) : c \in Classes}
    BY <1>2
  <2> QED
    BY <2>1, <2>2, <2>3
<1>5. Roots = CASE phase \in {"fields", "inherit"} -> prog.classes
                [] phase = "call" /\ prog.asked # NoClass -> <<ClassType(prog.asked)>>
                [] phase = "structs" \/ (phase = "json" /\ prog.json) -> s
                [] OTHER -> <<>>
  BY DEF Roots
<1> HIDE DEF s
<1>6. CASE phase \in {"fields", "inherit"}
  BY <1>6, <1>5, <1>1, <1>2
<1>7. CASE phase = "call" /\ prog.asked # NoClass
  BY <1>7, <1>5 DEF ToSet
<1>8. CASE phase = "structs" \/ (phase = "json" /\ prog.json)
  BY <1>8, <1>5, <1>2, <1>3, <1>4
<1>9. CASE phase \notin {"fields", "inherit"} /\ ~(phase = "call" /\ prog.asked # NoClass)
           /\ ~(phase = "structs" \/ (phase = "json" /\ prog.json))
  BY <1>9, <1>5 DEF ToSet
<1> QED
  BY <1>6, <1>7, <1>8, <1>9

LEMMA ToDoAre ==
  ASSUME Stages
  PROVE  /\ \A x \in ToDo : /\ phase \in {"fields", "inherit", "call", "structs", "json"}
                            /\ x \in Walkable /\ x \notin done
                            /\ ~Marked => x \in ToSet(Roots)
         /\ ToDo = {} => /\ ToSet(Roots) \subseteq done
                         /\ phase = "structs" => HeldTypes \subseteq done
<1> DEFINE left == {i \in DOMAIN Roots : Roots[i] \notin done}
           Others(k) == {t \in Mentioned : phase = "structs" /\ t.kind = k /\ t \notin done}
<1>1. prog \in Program /\ DOMAIN Roots = 1 .. Len(Roots) /\ Len(Roots) \in Nat
  BY RootsAre DEF Stages
<1>2. ToDo = IF left # {} THEN {Roots[Min(left)]}
             ELSE IF Others("tuple") # {} THEN Others("tuple") ELSE Others("opt")
  BY DEF ToDo
<1>3. left # {} => Min(left) \in left
  <2>1. left \in SUBSET Nat
    BY <1>1
  <2> HIDE DEF left
  <2>2. left # {} => \E x \in left : \A y \in left : x <= y
    BY <2>1, Smallest
  <2> QED
    BY <2>2 DEF Min
<1>4. ASSUME NEW x \in ToSet(Roots)
      PROVE  x \in Walkable /\ phase \in {"fields", "inherit", "call", "structs", "json"}
  <2>1. CASE phase \in {"fields", "inherit"}
    BY <2>1, <1>1, RootsAre DEF Walkable
  <2>2. CASE phase \notin {"fields", "inherit"}
    <3>1. phase \in {"call", "structs", "json"} /\ \E c \in Classes : x = ClassType(c)
      BY <2>2, <1>1, RootsAre, ProgramFacts
    <3>2. x \in Mentioned /\ ByValue(x) /\ ~Leaf(x)
      BY <1>1, <3>1, ProgramFacts, ClassTypeIs
    <3> QED
      BY <3>1, <3>2 DEF Walkable, HeldTypes
  <2> QED
    BY <2>1, <2>2
<1>5. ASSUME NEW k \in {"tuple", "opt"}, NEW x \in Others(k)
      PROVE  x \in Walkable /\ x \notin done /\ phase = "structs"
  BY DEF Walkable, HeldTypes, ByValue
<1>6. ASSUME NEW x \in ToDo
      PROVE  /\ phase \in {"fields", "inherit", "call", "structs", "json"}
             /\ x \in Walkable /\ x \notin done
             /\ ~Marked => x \in ToSet(Roots)
  <2>1. CASE left # {}
    <3>1. x = Roots[Min(left)] /\ x \in ToSet(Roots) /\ x \notin done
      BY <1>2, <1>3, <2>1 DEF ToSet
    <3> QED
      BY <3>1, <1>4
  <2>2. CASE left = {}
    <3>1. x \in Others("tuple") \/ x \in Others("opt")
      BY <1>2, <2>2
    <3> QED
      BY <3>1, <1>5 DEF Marked
  <2> QED
    BY <2>1, <2>2
<1>7. ASSUME ToDo = {}
      PROVE  ToSet(Roots) \subseteq done /\ (phase = "structs" => HeldTypes \subseteq done)
  <2>1. left = {} /\ Others("tuple") = {} /\ Others("opt") = {}
    BY <1>2, <1>7
  <2>2. ToSet(Roots) \subseteq done
    BY <2>1 DEF ToSet
  <2>3. ASSUME phase = "structs", NEW t \in HeldTypes
        PROVE  t \in done
    <3>1. t \in Mentioned /\ t.kind \in {"class", "tuple", "opt"}
      BY DEF HeldTypes, ByValue
    <3>2. CASE t.kind = "class"
      <4>1. t \in ToSet(Roots)
        BY <3>1, <3>2, <2>3, <1>1, RootsAre, ProgramFacts
      <4> QED
        BY <4>1, <2>2
    <3>3. CASE t.kind # "class"
      BY <3>1, <3>3, <2>1, <2>3
    <3> QED
      BY <3>2, <3>3
  <2> QED
    BY <2>2, <2>3
<1> QED
  BY <1>6, <1>7

LEMMA BeyondIs ==
  ASSUME Stages, FieldsLaid, phase \in {"fields", "inherit", "call", "structs", "json"},
         NEW x \in Walkable, NEW y \in Walkable, y \in ToSet(Children(x))
  PROVE  y \in Beyond(x) /\ \A z \in Walkable : x \in Beyond(z) => y \in Beyond(z)
<1>1. prog \in Program
  BY DEF Stages
<1>2. CASE phase \in {"fields", "inherit"}
  <2>1. x \in Classes /\ prog.base[x] # NoClass /\ y = prog.base[x]
    BY <1>2, ChildrenAre
  <2>2. Walkable = Classes /\ \A z : Beyond(z) = Above(z)
    BY <1>2 DEF Walkable, Beyond
  <2>3. \A z \in Classes : x \in Above(z) => y \in Above(z)
    BY <1>1, <2>1, AboveIs DEF Lineage
  <2>4. y \in Above(x)
    BY <1>1, <2>1, AboveIs
  <2> QED
    BY <2>2, <2>3, <2>4
<1>3. CASE phase = "structs"
  <2>1. Walkable = HeldTypes /\ \A z : Beyond(z) = Held(z)
    BY <1>3 DEF Walkable, Beyond
  <2>2. y \in PartsOf(x)
    BY <1>3, ChildrenAre
  <2>3. y \in HeldBy(x)
    BY <2>1, <2>2 DEF HeldTypes, HeldBy
  <2>4. \A z \in Mentioned : HeldBy(z) \subseteq Held(z) /\ \A u \in Held(z) : HeldBy(u) \subseteq Held(z)
    BY <1>1, HeldIs
  <2> QED
    BY <2>1, <2>3, <2>4 DEF HeldTypes
<1>4. CASE phase \in {"call", "json"}
  <2>1. Walkable = {t \in Mentioned : ~Leaf(t)} /\ \A z : Beyond(z) = Everything(z)
    BY <1>4 DEF Walkable, Beyond
  <2>2. y \in PartsOf(x)
    BY <1>4, ChildrenAre
  <2>3. y \in MadeOf(x)
    BY <2>1, <2>2 DEF MadeOf
  <2>4. \A z \in Mentioned : /\ MadeOf(z) \subseteq Everything(z)
                             /\ \A u \in Everything(z) : MadeOf(u) \subseteq Everything(z)
    BY <1>1, EverythingIs
  <2> QED
    BY <2>1, <2>3, <2>4
<1> QED
  BY <1>2, <1>3, <1>4

LEMMA StartCalls ==
  ASSUME IInv, StartCall
  PROVE  Calls'
<1>1. PICK x \in ToDo : stack' = <<Frame(x)>>
  BY DEF StartCall
<1>2. prog' = prog /\ phase' = phase /\ done' = done /\ fields' = fields
  BY DEF StartCall
<1>3. /\ Stages /\ FieldsLaid /\ phase \in {"fields", "inherit", "call", "structs", "json"}
      /\ x \in Walkable /\ x \notin done /\ (~Marked => x \in ToSet(Roots))
  BY ToDoAre DEF IInv
<1> DEFINE s == <<Frame(x)>>
<1>4. Frame(x) \in Frames /\ s[1].on = x /\ s[1].seen = 0
  BY <1>3 DEF Frame, Frames
<1>5. /\ Frames' = Frames /\ Roots' = Roots /\ (Marked' = TRUE) = (Marked = TRUE)
      /\ \A y : Children(y)' = Children(y)
  BY <1>2, SamePhase DEF Frames
<1>6. s \in Seq(Frames) /\ Len(s) = 1
  BY <1>4
<1>7. Len(Children(x)) \in Nat
  BY <1>3, ChildrenAre
<1> HIDE DEF s
<1>8. ASSUME NEW i \in 1 .. Len(s)
      PROVE  /\ Marked' => s[i].on \notin done'
             /\ \A j \in 1 .. Len(s) : ~(i < j)
             /\ s[i].seen <= Len(Children(s[i].on)')
             /\ 1 .. s[i].seen = {}
  <2>1. i = 1
    BY <1>6
  <2> QED
    BY <2>1, <1>2, <1>3, <1>4, <1>5, <1>6, <1>7
<1>9. ~Marked' /\ s # <<>> => s[1].on \in ToSet(Roots')
  BY <1>3, <1>4, <1>5
<1>10. Nested(s)'
  BY <1>5, <1>6, <1>8, <1>9 DEF Nested
<1>11. stack' = s
  BY <1>1 DEF s
<1> QED
  BY <1>2, <1>3, <1>10, <1>11 DEF Calls

\* A call returns: it is settled, and those below it stay as they are.
LEMMA PopCalls ==
  ASSUME Stages, FieldsLaid, Calls, stack # <<>>, prog' = prog, phase' = phase,
         NEW top, top = Top.on, Settled(top)',
         stack' = Front(stack), done \subseteq done', done' \subseteq done \cup {top},
         fields' = fields \/ phase = "fields"
  PROVE  Calls'
<1>0. PICK n, old, s : n = Len(stack) /\ old = stack /\ s = Front(stack)
  OBVIOUS
<1>1. /\ phase \in {"fields", "inherit", "call", "structs", "json"}
      /\ n \in Nat \ {0} /\ top = old[n].on
  BY <1>0, TopFacts
<1>2. old \in Seq(Frames) /\ Nested(old) /\ n = Len(old)
  BY <1>0 DEF Calls, Nested
<1>3. s \in Seq(Frames) /\ Len(s) = n - 1 /\ \A i \in 1 .. n - 1 : s[i] = old[i]
  <2>1. n - 1 \in Nat /\ n - 1 <= Len(old)
    BY <1>1, <1>2
  <2>2. s = SubSeq(old, 1, n - 1)
    BY <1>0 DEF Front
  <2> QED
    BY <1>1, <1>2, <2>1, <2>2
<1>4. /\ Frames' = Frames /\ Roots' = Roots /\ (Marked' = TRUE) = (Marked = TRUE)
      /\ \A x : Beyond(x)' = Beyond(x) /\ Children(x)' = Children(x)
      /\ \A x : Settled(x) => Settled(x)'
  BY SamePhase DEF Frames
<1>5. s # <<>> => 1 \in 1 .. n - 1 /\ old # <<>>
  BY <1>0, <1>1, <1>3
<1>6. ~Marked' /\ s # <<>> => s[1].on \in ToSet(Roots')
  BY <1>2, <1>3, <1>4, <1>5 DEF Nested
<1>7. ASSUME NEW i \in 1 .. n - 1
      PROVE  /\ Marked' => s[i].on \notin done'
             /\ \A j \in 1 .. n - 1 : i < j =>
                  s[j].on \in Beyond(s[i].on)' /\ (Marked' => s[i].on # s[j].on)
             /\ s[i].seen <= Len(Children(s[i].on)')
             /\ \A k \in 1 .. s[i].seen :
                  \/ Settled(Children(s[i].on)[k])'
                  \/ i < n - 1 /\ k = s[i].seen /\ Children(s[i].on)'[k] = s[i + 1].on
  <2>1. i \in 1 .. n /\ i < n /\ n \in 1 .. n /\ s[i] = old[i]
    BY <1>1, <1>3
  <2>2. /\ Marked => s[i].on \notin done
        /\ \A j \in 1 .. n : i < j =>
             old[j].on \in Beyond(s[i].on) /\ (Marked => s[i].on # old[j].on)
        /\ s[i].seen <= Len(Children(s[i].on))
        /\ \A k \in 1 .. s[i].seen :
             \/ Settled(Children(s[i].on)[k])
             \/ i < n /\ k = s[i].seen /\ Children(s[i].on)[k] = old[i + 1].on
    BY <2>1, <1>2 DEF Nested
  <2>3. Marked' => s[i].on \notin done'
    BY <1>1, <1>4, <2>1, <2>2
  <2>4. ASSUME NEW j \in 1 .. n - 1, i < j
        PROVE  s[j].on \in Beyond(s[i].on)' /\ (Marked' => s[i].on # s[j].on)
    <3>1. j \in 1 .. n /\ s[j] = old[j]
      BY <1>1, <1>3
    <3> QED
      BY <3>1, <2>2, <2>4, <1>4
  <2>5. ASSUME NEW k \in 1 .. s[i].seen
        PROVE  \/ Settled(Children(s[i].on)[k])'
               \/ i < n - 1 /\ k = s[i].seen /\ Children(s[i].on)'[k] = s[i + 1].on
    <3>1. Children(s[i].on)' = Children(s[i].on)
      BY <1>4
    <3>2. PICK x : x = Children(s[i].on)[k]
      OBVIOUS
    <3>3. CASE Settled(x)
      <4>1. Settled(x)'
        BY <3>3, <1>4
      <4> QED
        BY <4>1, <3>1, <3>2
    <3>4. CASE k = s[i].seen /\ x = old[i + 1].on
      <4>1. CASE i < n - 1
        <5>1. i + 1 \in 1 .. n - 1
          BY <4>1, <1>1
        <5> QED
          BY <5>1, <4>1, <3>1, <3>2, <3>4, <1>3
      <4>2. CASE ~(i < n - 1)
        <5>1. i + 1 = n
          BY <4>2, <1>1
        <5>2. x = top
          BY <5>1, <3>4, <1>1
        <5>3. Settled(x)'
          BY <5>2
        <5> QED
          BY <5>3, <3>1, <3>2
      <4> QED
        BY <4>1, <4>2
    <3> QED
      BY <2>2, <3>2, <3>3, <3>4
  <2>6. s[i].seen <= Len(Children(s[i].on)')
    BY <2>2, <1>4
  <2> QED
    BY <2>3, <2>4, <2>5, <2>6
<1>8. Nested(s)'
  BY <1>3, <1>4, <1>6, <1>7 DEF Nested
<1>9. stack' = s
  BY <1>0
<1> QED
  BY <1>1, <1>8, <1>9 DEF Calls

LEMMA LeafSupported ==
  ASSUME prog \in Program, NEW x \in Mentioned, Leaf(x), ~Unsupported(x)
  PROVE  Supported(x)
<1>1. MadeOf(x) = {}
  BY DEF MadeOf
<1>2. Everything(x) = {}
  BY <1>1, EverythingIs
<1> QED
  BY <1>2 DEF Supported

LEMMA ChildCalls ==
  ASSUME IInv, CallChild
  PROVE  Calls'
<1>1. PICK n, old, top, x : n = Len(stack) /\ old = stack /\ top = Top /\ x = NextChild
  OBVIOUS
<1>2. /\ Stages /\ FieldsLaid /\ Calls /\ prog \in Program
      /\ Unseen /\ stack # <<>>
      /\ prog' = prog /\ phase' = phase /\ done' = done /\ fields' = fields
  BY DEF IInv, CallChild, Unseen, Stages
<1>3. /\ phase \in {"fields", "inherit", "call", "structs", "json"}
      /\ n \in Nat \ {0} /\ top = old[n] /\ n = Len(old)
      /\ \A i \in 1 .. n : old[i] \in Frames /\ old[i].on \in Walkable /\ old[i].seen \in Nat
      /\ top.on \in Walkable /\ top.seen \in Nat /\ Len(Children(top.on)) \in Nat
      /\ top.seen + 1 \in 1 .. Len(Children(top.on)) /\ x \in ToSet(Children(top.on))
      /\ x = Children(top.on)[top.seen + 1]
  BY <1>1, <1>2, TopFacts DEF NextChild
<1>4. old \in Seq(Frames) /\ Nested(old)
  BY <1>1, <1>2 DEF Calls, Nested
<1>5. /\ Frames' = Frames /\ Roots' = Roots /\ (Marked' = TRUE) = (Marked = TRUE)
      /\ \A y : Beyond(y)' = Beyond(y) /\ Children(y)' = Children(y)
      /\ \A y : Settled(y) => Settled(y)'
  BY <1>2, SamePhase DEF Frames
<1>6. PICK parent : parent = [top EXCEPT !.seen = @ + 1]
  OBVIOUS
<1>7. parent \in Frames /\ parent.on = top.on /\ parent.seen = top.seen + 1
  <2>1. top \in [on : Walkable, seen : Nat]
    BY <1>3 DEF Frames
  <2> QED
    BY <2>1, <1>6 DEF Frames
<1>8. PICK rest : rest = [old EXCEPT ![n] = parent]
  OBVIOUS
<1>9. /\ rest \in Seq(Frames) /\ Len(rest) = n
      /\ rest[n] = parent /\ \A i \in 1 .. n : i # n => rest[i] = old[i]
  BY <1>3, <1>4, <1>7, <1>8
<1>10. stack' = IF Returned(x) THEN rest ELSE Append(rest, Frame(x))
  BY <1>1, <1>6, <1>8 DEF CallChild
<1>11. \A i \in 1 .. n : rest[i].on = old[i].on
  BY <1>3, <1>7, <1>9
<1>12. ~Marked /\ rest # <<>> => rest[1].on \in ToSet(Roots)
  <2>1. 1 \in 1 .. n /\ old # <<>>
    BY <1>1, <1>2, <1>3
  <2> QED
    BY <2>1, <1>4, <1>11 DEF Nested
<1>13. ASSUME NEW i \in 1 .. n
       PROVE  /\ Marked => rest[i].on \notin done
              /\ \A j \in 1 .. n : i < j =>
                   rest[j].on \in Beyond(rest[i].on) /\ (Marked => rest[i].on # rest[j].on)
              /\ rest[i].seen <= Len(Children(rest[i].on))
              /\ \A k \in 1 .. rest[i].seen :
                   \/ Settled(Children(rest[i].on)[k])
                   \/ i < n /\ k = rest[i].seen /\ Children(rest[i].on)[k] = rest[i + 1].on
                   \/ i = n /\ k = rest[n].seen /\ Children(rest[i].on)[k] = x
  <2>1. /\ Marked => old[i].on \notin done
        /\ \A j \in 1 .. n : i < j =>
             old[j].on \in Beyond(old[i].on) /\ (Marked => old[i].on # old[j].on)
        /\ old[i].seen <= Len(Children(old[i].on))
        /\ \A k \in 1 .. old[i].seen :
             \/ Settled(Children(old[i].on)[k])
             \/ i < n /\ k = old[i].seen /\ Children(old[i].on)[k] = old[i + 1].on
    BY <1>3, <1>4 DEF Nested
  <2>2. CASE i # n
    <3>1. i + 1 \in 1 .. n /\ i < n
      BY <2>2, <1>3
    <3> QED
      BY <3>1, <2>1, <2>2, <1>9, <1>11
  <2>3. CASE i = n
    <3>1. rest[i].seen = top.seen + 1 /\ rest[i].on = top.on /\ old[i].seen = top.seen
      BY <2>3, <1>3, <1>7, <1>9
    <3>2. ASSUME NEW k \in 1 .. rest[i].seen
          PROVE  Settled(Children(rest[i].on)[k]) \/ (k = rest[n].seen /\ Children(rest[i].on)[k] = x)
      <4>1. k \in 1 .. top.seen \/ k = top.seen + 1
        BY <3>1, <1>3
      <4>2. ~(i < n)
        BY <2>3, <1>3
      <4> QED
        BY <4>1, <4>2, <3>1, <2>1, <2>3, <1>3
    <3> QED
      BY <3>1, <3>2, <2>1, <2>3, <1>3, <1>11
  <2> QED
    BY <2>2, <2>3
<1>14. CASE Returned(x)
  <2>1. Settled(x)
    <3>1. CASE Marked
      BY <3>1, <1>14 DEF Settled
    <3>2. CASE ~Marked
      <4>1. Leaf(x) /\ ~Unsupported(x) /\ x \in Mentioned
        BY <3>2, <1>14, <1>3, <1>2, ChildrenAre, Elements DEF Returned, Marked
      <4> QED
        BY <4>1, <3>2, <1>2, LeafSupported DEF Settled
    <3> QED
      BY <3>1, <3>2
  <2>2. \A i \in 1 .. n : \A k \in 1 .. rest[i].seen :
          \/ Settled(Children(rest[i].on)[k])
          \/ i < n /\ k = rest[i].seen /\ Children(rest[i].on)[k] = rest[i + 1].on
    BY <2>1, <1>13
  <2>3. ASSUME NEW i \in 1 .. n
        PROVE  /\ Marked' => rest[i].on \notin done'
               /\ \A j \in 1 .. n : i < j =>
                    rest[j].on \in Beyond(rest[i].on)' /\ (Marked' => rest[i].on # rest[j].on)
               /\ rest[i].seen <= Len(Children(rest[i].on)')
               /\ \A k \in 1 .. rest[i].seen :
                    \/ Settled(Children(rest[i].on)[k])'
                    \/ i < n /\ k = rest[i].seen /\ Children(rest[i].on)'[k] = rest[i + 1].on
    <3>1. ASSUME NEW k \in 1 .. rest[i].seen
          PROVE  \/ Settled(Children(rest[i].on)[k])'
                 \/ i < n /\ k = rest[i].seen /\ Children(rest[i].on)'[k] = rest[i + 1].on
      <4>1. PICK y : y = Children(rest[i].on)[k]
        OBVIOUS
      <4>2. Children(rest[i].on)' = Children(rest[i].on)
        BY <1>5
      <4>3. Settled(y) => Settled(y)'
        BY <1>5
      <4> QED
        BY <4>1, <4>2, <4>3, <2>2
    <3> QED
      BY <3>1, <1>2, <1>5, <1>13
  <2>4. ~Marked' /\ rest # <<>> => rest[1].on \in ToSet(Roots')
    BY <1>5, <1>12
  <2>5. Nested(rest)'
    BY <2>3, <2>4, <1>5, <1>9 DEF Nested
  <2>6. stack' = rest
    BY <1>10, <1>14
  <2> QED
    BY <2>5, <2>6, <1>2, <1>3 DEF Calls
<1>15. CASE ~Returned(x)
  <2>1. PICK s : s = Append(rest, Frame(x))
    OBVIOUS
  <2>2. x \in Walkable /\ (Marked => x \notin done /\ x \notin Visiting)
    <3>1. CASE phase \in {"fields", "inherit"}
      <4>1. x \in Classes
        BY <3>1, <1>2, <1>3, ChildrenAre, Elements
      <4> QED
        BY <4>1, <3>1, <1>1, <1>15 DEF Walkable, CallChild, Marked, Returned
    <3>2. CASE phase = "structs"
      <4>1. x \in Mentioned
        BY <3>2, <1>2, <1>3, ChildrenAre, Elements
      <4> QED
        BY <4>1, <3>2, <1>1, <1>15 DEF Walkable, HeldTypes, CallChild, Marked, Returned
    <3>3. CASE phase \in {"call", "json"}
      <4>1. x \in Mentioned
        BY <3>3, <1>2, <1>3, ChildrenAre, Elements
      <4> QED
        BY <4>1, <3>3, <1>1, <1>15 DEF Walkable, CallChild, Marked, Returned
    <3> QED
      BY <3>1, <3>2, <3>3, <1>3
  <2>3. Frame(x) \in Frames /\ Frame(x).on = x /\ Frame(x).seen = 0
    BY <2>2 DEF Frame, Frames
  <2>4. /\ s \in Seq(Frames) /\ Len(s) = n + 1 /\ s[n + 1] = Frame(x)
        /\ \A i \in 1 .. n : s[i] = rest[i]
    <3>1. PICK f \in Frames : f = Frame(x)
      BY <2>3
    <3>2. s = Append(rest, f)
      BY <2>1, <3>1
    <3>3. /\ s \in Seq(Frames) /\ Len(s) = n + 1 /\ s[n + 1] = f
          /\ \A i \in 1 .. n : s[i] = rest[i]
      BY <3>2, <1>3, <1>9
    <3> QED
      BY <3>1, <3>3
  <2>5. x \in Beyond(top.on) /\ \A z \in Walkable : top.on \in Beyond(z) => x \in Beyond(z)
    BY <2>2, <1>2, <1>3, BeyondIs
  <2>6. \A i \in 1 .. n : x \in Beyond(s[i].on) /\ (Marked => x # s[i].on)
    <3>1. TAKE i \in 1 .. n
    <3>2. s[i].on = old[i].on /\ old[i].on \in Walkable
      BY <2>4, <1>3, <1>11
    <3>3. old[i].on \in Visiting
      BY <1>1 DEF Visiting
    <3>4. i = n \/ top.on \in Beyond(old[i].on)
      <4>1. n \in 1 .. n /\ (i = n \/ i < n)
        BY <1>3
      <4> QED
        BY <4>1, <1>3, <1>4 DEF Nested
    <3> QED
      BY <3>2, <3>3, <3>4, <2>2, <2>5, <1>3
  <2>7. ~Marked' /\ s # <<>> => s[1].on \in ToSet(Roots')
    <3>1. 1 \in 1 .. n /\ rest # <<>>
      BY <1>3, <1>9
    <3> QED
      BY <3>1, <2>4, <1>5, <1>12
  <2>8. ASSUME NEW i \in 1 .. n + 1
        PROVE  /\ Marked' => s[i].on \notin done'
               /\ \A j \in 1 .. n + 1 : i < j =>
                    s[j].on \in Beyond(s[i].on)' /\ (Marked' => s[i].on # s[j].on)
               /\ s[i].seen <= Len(Children(s[i].on)')
               /\ \A k \in 1 .. s[i].seen :
                    \/ Settled(Children(s[i].on)[k])'
                    \/ i < n + 1 /\ k = s[i].seen /\ Children(s[i].on)'[k] = s[i + 1].on
    <3>1. CASE i = n + 1
      <4>1. s[i].on = x /\ s[i].seen = 0
        BY <3>1, <2>3, <2>4
      <4>2. Len(Children(x)) \in Nat
        BY <2>2, <1>2, <1>3, ChildrenAre
      <4>3. 1 .. s[i].seen = {} /\ s[i].seen <= Len(Children(s[i].on)')
        BY <4>1, <4>2, <1>5
      <4>4. \A j \in 1 .. n + 1 : ~(i < j)
        BY <3>1, <1>3
      <4> QED
        BY <4>1, <4>3, <4>4, <2>2, <1>2, <1>5
    <3>2. CASE i # n + 1
      <4>1. i \in 1 .. n /\ i < n + 1 /\ s[i] = rest[i]
        BY <3>2, <2>4, <1>3
      <4>2. ASSUME NEW j \in 1 .. n + 1, i < j
            PROVE  s[j].on \in Beyond(s[i].on)' /\ (Marked' => s[i].on # s[j].on)
        <5>1. CASE j = n + 1
          BY <5>1, <4>1, <2>3, <2>4, <2>6, <1>5
        <5>2. CASE j # n + 1
          <6>1. j \in 1 .. n /\ s[j] = rest[j]
            BY <5>2, <2>4, <1>3
          <6> QED
            BY <6>1, <4>1, <4>2, <1>5, <1>13
        <5> QED
          BY <5>1, <5>2
      <4>3. ASSUME NEW k \in 1 .. s[i].seen
            PROVE  \/ Settled(Children(s[i].on)[k])'
                   \/ i < n + 1 /\ k = s[i].seen /\ Children(s[i].on)'[k] = s[i + 1].on
        <5>1. Children(s[i].on)' = Children(s[i].on)
          BY <1>5
        <5>2. PICK y : y = Children(s[i].on)[k]
          OBVIOUS
        <5>3. CASE Settled(y)
          <6>1. Settled(y)'
            BY <5>3, <1>5
          <6> QED
            BY <6>1, <5>1, <5>2
        <5>4. CASE i < n /\ k = s[i].seen /\ y = rest[i + 1].on
          <6>1. i + 1 \in 1 .. n
            BY <5>4, <1>3
          <6> QED
            BY <6>1, <5>1, <5>2, <5>4, <4>1, <2>4
        <5>5. CASE i = n /\ k = s[i].seen /\ y = x
          <6>1. s[i + 1].on = x
            BY <5>5, <2>3, <2>4
          <6> QED
            BY <6>1, <5>1, <5>2, <5>5, <4>1
        <5> QED
          BY <5>2, <5>3, <5>4, <5>5, <4>1, <1>13
      <4>4. s[i].seen <= Len(Children(s[i].on)')
        BY <4>1, <1>5, <1>13
      <4>5. Marked' => s[i].on \notin done'
        BY <4>1, <1>2, <1>5, <1>13
      <4> QED
        BY <4>2, <4>3, <4>4, <4>5
    <3> QED
      BY <3>1, <3>2
  <2>9. Nested(s)'
    BY <2>4, <2>7, <2>8, <1>5 DEF Nested
  <2>10. stack' = s
    BY <2>1, <1>10, <1>15
  <2> QED
    BY <2>9, <2>10, <1>2, <1>3 DEF Calls
<1> QED
  BY <1>14, <1>15

----------------------------------------------------------------------------
(* What a step leaves alone.                                               *)

LEMMA FieldsKept ==
  ASSUME FieldsLaid, prog' = prog, fields' = fields, Complete' = Complete
  PROVE  FieldsLaid'
<1>1. ASSUME NEW c \in Complete
      PROVE  Laid(c)'
  <2>1. Laid(c)
    BY DEF FieldsLaid
  <2>2. AllFields(c)' = AllFields(c)
    BY DEF AllFields, Inherited
  <2>3. PICK s : s = fields[c]
    OBVIOUS
  <2>4. Lists(s, c)'
    BY <2>1, <2>3, SameProgram DEF Laid
  <2>5. Lists(fields[c], c)'
    BY <2>3, <2>4
  <2> QED
    BY <2>1, <2>2, <2>5, SameProgram DEF Laid, Distinct
<1> QED
  BY <1>1 DEF FieldsLaid

LEMMA MethodsSame ==
  ASSUME prog' = prog, methods' = methods
  PROVE  \A x, y : /\ MethodsOf(x)' = MethodsOf(x)
                   /\ (HasMethod(x, y)' = TRUE) = (HasMethod(x, y) = TRUE)
BY DEF MethodsOf, HasMethod

LEMMA MethodsKept ==
  ASSUME MethodLists, phase # "refused", prog' = prog, fields' = fields, methods' = methods,
         Collected' = Collected, Inheriting' = Inheriting
  PROVE  MethodLists'
<1>1. \A x : FieldNames(x)' = FieldNames(x)
  BY DEF FieldNames
<1>2. ASSUME NEW e \in methods
      PROVE  OwnEntry(e)' \/ Wrapper(e)'
  <2>1. CASE OwnEntry(e)
    BY <2>1, SameProgram DEF OwnEntry
  <2>2. CASE Wrapper(e)
    BY <2>2, SameProgram, MethodsSame DEF Wrapper
  <2> QED
    BY <2>1, <2>2 DEF MethodLists
<1>3. ASSUME NEW c \in Collected
      PROVE  Gathered(c)'
  <2>1. Gathered(c)
    BY DEF MethodLists
  <2> QED
    BY <2>1, <1>1 DEF Gathered, Method
<1>4. ASSUME NEW c \in Inheriting
      PROVE  Inherits(c)'
  <2>1. Inherits(c)
    BY DEF MethodLists
  <2> QED
    BY <2>1, <1>1, MethodsSame DEF Inherits
<1> QED
  BY <1>2, <1>3, <1>4 DEF MethodLists

LEMMA WrittenKept ==
  ASSUME Written, prog' = prog, structs' = structs, phase' = phase, phase = "structs" => done' = done
  PROVE  Written'
<1>1. structs' \in Seq(HeldTypes') /\ HeldTypes' = HeldTypes
  BY SameProgram DEF Written
<1>2. Ordered(structs)'
  BY SameProgram DEF Written
<1> QED
  BY <1>1, <1>2 DEF Written

LEMMA AnsweredKept ==
  ASSUME Answered, prog' = prog, encoders' = encoders, phase' = phase,
         phase \in {"call", "json"} => done' = done
  PROVE  Answered'
<1>1. Classes' = Classes /\ \A c : (Encodable(c)' = TRUE) = (Encodable(c) = TRUE)
  BY SameProgram
<1>2. prog.asked # NoClass /\ Encodable(prog.asked) => Encodable(prog.asked)'
  <2>1. PICK c : c = prog.asked
    OBVIOUS
  <2> QED
    BY <2>1, <1>1
<1>3. {c \in Classes : ClassType(c) \in done /\ Encodable(c)}
        = {c \in Classes' : ClassType(c) \in done /\ Encodable(c)'}
  BY <1>1
<1>4. {c \in Classes : prog.json /\ Encodable(c)} = {c \in Classes' : prog'.json /\ Encodable(c)'}
  BY <1>1
<1>5. phase' = "call" => \A c \in Classes' : ClassType(c) \in done' => Encodable(c)'
  BY <1>1 DEF Answered
<1>6. phase' = "json" => encoders' = {c \in Classes' : ClassType(c) \in done' /\ Encodable(c)'}
  BY <1>3 DEF Answered
<1>7. phase' = "done" => encoders' = {c \in Classes' : prog'.json /\ Encodable(c)'}
  BY <1>4 DEF Answered
<1>8. /\ phase' \in {"structs", "json", "done"} /\ prog'.asked # NoClass => Encodable(prog.asked)'
      /\ phase' \in {"collect", "fields", "methods", "inherit", "call", "structs"} => encoders' = {}
  BY <1>2 DEF Answered
<1> QED
  BY <1>5, <1>6, <1>7, <1>8 DEF Answered

LEMMA StackKeeps ==
  ASSUME IInv, Calls', stack # <<>> \/ stack' # <<>>,
         UNCHANGED <<prog, phase, done, fields, methods, structs, encoders, reason>>
  PROVE  IInv'
<1>1. /\ Complete' = Complete /\ Collected' = Collected /\ Inheriting' = Inheriting
      /\ Classes' = Classes /\ Fields' = Fields /\ Roots' = Roots
  BY SameProgram, SamePhase DEF Complete, Collected, Inheriting
<1>2. Stages'
  BY <1>1 DEF IInv, Stages
<1>3. FieldsLaid' /\ Written' /\ Answered'
  BY <1>1, FieldsKept, WrittenKept, AnsweredKept DEF IInv
<1>4. phase # "refused"
  BY DEF IInv, Calls
<1>5. MethodLists'
  BY <1>1, <1>4, MethodsKept DEF IInv
<1> QED
  BY <1>2, <1>3, <1>4, <1>5 DEF IInv

----------------------------------------------------------------------------
(* Every step keeps IInv.                                                  *)

LEMMA CollectKeeps ==
  ASSUME IInv, Collect
  PROVE  IInv'
<1>1. phase = "collect" /\ stack = <<>>
  BY DEF Collect, IInv, Calls
<1>2. CASE ~IsInjective(prog.enums \o prog.classes)
  <2>1. Refuse("name")
    BY <1>2 DEF Collect
  <2>2. Defect("name") /\ "name" \in Reasons
    BY <1>2 DEF Defect, Reasons
  <2> QED
    BY <2>1, <2>2, RefuseKeeps
<1>3. CASE IsInjective(prog.enums \o prog.classes)
  <2>1. /\ phase' = "fields" /\ stack' = <<>> /\ done' = {}
        /\ UNCHANGED <<prog, reason, fields, methods, structs, encoders>>
    BY <1>3 DEF Collect, GoTo
  <2>2. Stages'
    BY <2>1, <1>3, SameProgram DEF IInv, Stages, Phases
  <2>3. FieldsLaid' /\ Inheriting' = {} /\ Collected' = {}
    BY <2>1 DEF FieldsLaid, Complete, Inheriting, Collected
  <2>4. MethodLists'
    <3>1. Collected = {} /\ Inheriting = {}
      BY <1>1 DEF Collected, Inheriting
    <3> QED
      BY <1>1, <2>1, <2>3, <3>1 DEF IInv, MethodLists, OwnEntry, Wrapper
  <2>5. Written'
    BY <1>1, <2>1, SameProgram DEF IInv, Written
  <2>6. Answered'
    BY <1>1, <2>1 DEF IInv, Answered
  <2>7. Calls'
    BY <2>1 DEF Calls, Nested
  <2> QED
    BY <2>1, <2>2, <2>3, <2>4, <2>5, <2>6, <2>7 DEF IInv
<1> QED
  BY <1>2, <1>3

LEMMA MeetItselfKeeps ==
  ASSUME IInv, MeetItself
  PROVE  IInv'
<1>1. PICK x, top : x = NextChild /\ top = Top.on
  OBVIOUS
<1>2. /\ Stages /\ FieldsLaid /\ Calls /\ stack # <<>> /\ Unseen /\ x \in Visiting /\ Marked
      /\ prog \in Program
  BY <1>1 DEF IInv, MeetItself, Unseen, Stages
<1>3. /\ phase \in {"fields", "inherit", "structs"}
      /\ Len(stack) \in Nat \ {0} /\ Top = stack[Len(stack)]
      /\ \A i \in 1 .. Len(stack) : stack[i].on \in Walkable
      /\ top \in Walkable /\ x \in ToSet(Children(top))
  BY <1>1, <1>2, TopFacts DEF Marked
<1>4. PICK j \in 1 .. Len(stack) : x = stack[j].on
  BY <1>2 DEF Visiting
<1>5. x \in Walkable /\ x \in Beyond(x)
  <2>1. x \in Walkable /\ x \in Beyond(top) /\ \A z \in Walkable : top \in Beyond(z) => x \in Beyond(z)
    BY <1>2, <1>3, <1>4, BeyondIs
  <2>2. x = top \/ top \in Beyond(x)
    <3>1. j = Len(stack) \/ j < Len(stack)
      BY <1>3
    <3>2. j < Len(stack) => top \in Beyond(x)
      BY <1>1, <1>2, <1>3, <1>4 DEF Calls, Nested
    <3> QED
      BY <3>1, <3>2, <1>1, <1>3, <1>4
  <2> QED
    BY <2>1, <2>2
<1>6. CASE phase = "structs"
  <2>1. Refuse("value")
    BY <1>6 DEF MeetItself
  <2>2. Defect("value") /\ "value" \in Reasons
    BY <1>5, <1>6 DEF Defect, Reasons, Walkable, HeldTypes, Beyond
  <2> QED
    BY <2>1, <2>2, RefuseKeeps
<1>7. CASE phase # "structs" /\ x = top
  <2>1. Refuse("self")
    BY <1>7, <1>1 DEF MeetItself
  <2>2. top \in Classes /\ prog.base[top] = top
    BY <1>2, <1>3, <1>7, ChildrenAre
  <2>3. Defect("self") /\ "self" \in Reasons
    BY <2>2 DEF Defect, Reasons
  <2> QED
    BY <2>1, <2>3, RefuseKeeps
<1>8. CASE phase # "structs" /\ x # top
  <2>1. Refuse("cycle")
    BY <1>8, <1>1 DEF MeetItself
  <2>2. x \in Classes /\ x \in Above(x)
    BY <1>3, <1>5, <1>8 DEF Walkable, Beyond
  <2>3. Defect("cycle") /\ "cycle" \in Reasons
    BY <2>2 DEF Defect, Reasons
  <2> QED
    BY <2>1, <2>3, RefuseKeeps
<1> QED
  BY <1>6, <1>7, <1>8

\* The fields of the class on top of the stack, whose base is complete.
LEMMA Defined ==
  ASSUME IInv, phase \in {"fields", "inherit"}, stack # <<>>, ~Unseen, NEW c, c = Top.on
  PROVE  /\ c \in Classes /\ c \notin done /\ done \subseteq Classes
         /\ prog.base[c] # NoClass => prog.base[c] \in done /\ prog.base[c] # c
<1>1. Stages /\ FieldsLaid /\ Calls /\ prog \in Program /\ Marked /\ done \subseteq Classes
  BY DEF IInv, Stages, Marked
<1>2. c \in Walkable /\ (\A x \in ToSet(Children(c)) : Settled(x)) /\ Len(stack) \in 1 .. Len(stack)
      /\ Top = stack[Len(stack)]
  BY <1>1, TopFacts
<1>3. c \in Classes /\ (prog.base[c] # NoClass => prog.base[c] \in ToSet(Children(c)))
  BY <1>1, <1>2, ChildrenAre
<1>4. c \notin done
  BY <1>1, <1>2 DEF Calls, Nested
<1>5. prog.base[c] # NoClass => prog.base[c] \in done
  BY <1>1, <1>2, <1>3 DEF Settled, Returned
<1> QED
  BY <1>1, <1>3, <1>4, <1>5

LEMMA DefineFieldsKeeps ==
  ASSUME IInv, DefineFields
  PROVE  IInv'
<1>1. PICK c : c = Top.on
  OBVIOUS
<1> DEFINE s == AllFields(c)
           b == prog.base[c]
<1>2. phase = "fields" /\ stack # <<>> /\ ~Unseen /\ Stages /\ FieldsLaid /\ Calls /\ prog \in Program
      /\ Complete = done /\ fields \in [Classes -> Seq(Fields)]
  BY DEF DefineFields, IInv, Stages, Complete
<1>3. c \in Classes /\ c \notin done /\ done \subseteq Classes /\ (b # NoClass => b \in done /\ b # c)
  BY <1>1, <1>2, Defined
<1>4. \A d \in done : Laid(d) /\ (prog.base[d] # NoClass => prog.base[d] \in done)
  BY <1>2 DEF FieldsLaid, Laid
<1>5. c \notin Above(c)
  <2>1. Above(c) \subseteq done
    BY <1>2, <1>3, <1>4, AboveIs
  <2> QED
    BY <2>1, <1>3
<1>6. s \in Seq(Fields) /\ Lists(s, c)
  BY <1>2, <1>3, <1>4, <1>5, ListsNext DEF Laid
<1>7. /\ IsFiniteSet(Declared(c)) /\ Cardinality(Declared(c)) = Len(s) /\ Len(s) \in Nat
      /\ Distinct(s) <=> \A p, q \in Declared(c) : FieldAt(p).name = FieldAt(q).name => p = q
  BY <1>6, ListsFacts
<1> DEFINE names == [i \in 1 .. Len(s) |-> s[i].name]
<1>8. IsInjective(names) <=> Distinct(s)
  BY <1>7 DEF IsInjective, Distinct
<1>9. CASE ~IsInjective(names) \/ TooMany(c)
  <2>1. Refuse("field")
    BY <1>9, <1>1 DEF DefineFields
  <2>2. TooMany(c) => Cardinality(Declared(c)) > MaxFields
    BY <1>7 DEF TooMany
  <2>3. \/ \E p, q \in Declared(c) : p # q /\ FieldAt(p).name = FieldAt(q).name
        \/ Cardinality(Declared(c)) > MaxFields
    BY <1>7, <1>8, <1>9, <2>2
  <2>4. Defect("field") /\ "field" \in Reasons
    BY <1>3, <2>3 DEF Defect, Reasons
  <2> QED
    BY <2>1, <2>4, RefuseKeeps
<1>10. CASE IsInjective(names) /\ ~TooMany(c)
  <2>1. /\ fields' = [fields EXCEPT ![c] = s]
        /\ stack' = Front(stack) /\ done' = done \cup {c}
        /\ UNCHANGED <<prog, phase, methods, structs, encoders, reason>>
    BY <1>10, <1>1 DEF DefineFields, Pop
  <2>2. /\ fields' \in [Classes -> Seq(Fields)] /\ fields'[c] = s
        /\ \A d \in Classes : d # c => fields'[d] = fields[d]
    BY <2>1, <1>2, <1>3, <1>6
  <2>3. Stages'
    BY <2>1, <2>2, <1>2, <1>3, SameProgram DEF Stages
  <2>4. Complete' = done'
    BY <2>1, <1>2 DEF Complete
  <2>5. \A d \in done' : /\ prog.base[d] # NoClass => prog.base[d] \in done
                         /\ AllFields(d)' = AllFields(d)
    <3>1. ASSUME NEW d \in done'
          PROVE  /\ prog.base[d] # NoClass => prog.base[d] \in done
                 /\ AllFields(d)' = AllFields(d)
      <4>1. prog.base[d] # NoClass => prog.base[d] \in done
        BY <2>1, <1>3, <1>4
      <4>2. prog.base[d] # NoClass => fields'[prog.base[d]] = fields[prog.base[d]]
        BY <4>1, <2>2, <1>3
      <4> QED
        BY <4>1, <4>2, <2>1 DEF AllFields, Inherited
    <3> QED
      BY <3>1
  <2>6. Len(s) <= MaxFields
    <3>1. CASE prog.fields[c] # <<>>
      BY <3>1, <1>10, <1>7, <1>2, ProgramFacts DEF TooMany
    <3>2. CASE prog.fields[c] = <<>>
      <4>1. s = Inherited(c)
        <5>1. Inherited(c) \in Seq(Fields)
          <6>1. b # NoClass => fields[b] \in Seq(Fields)
            BY <1>2, <1>3
          <6> QED
            BY <6>1 DEF Inherited
        <5> QED
          BY <5>1, <3>2 DEF AllFields
      <4>2. CASE b = NoClass
        BY <4>1, <4>2, <1>2, ProgramFacts DEF Inherited
      <4>3. CASE b # NoClass
        BY <4>1, <4>3, <1>3, <1>4 DEF Inherited, Laid
      <4> QED
        BY <4>2, <4>3
    <3> QED
      BY <3>1, <3>2
  <2>7. ASSUME NEW d \in done'
        PROVE  Laid(d)'
    <3>1. PICK f : f = fields'[d]
      OBVIOUS
    <3>2. Lists(f, d) /\ Distinct(f) /\ Len(f) <= MaxFields /\ f = AllFields(d) /\ d \notin Above(d)
      <4>1. CASE d = c
        BY <4>1, <3>1, <2>2, <2>6, <1>5, <1>6, <1>8, <1>10
      <4>2. CASE d # c
        <5>1. d \in done /\ f = fields[d]
          BY <4>2, <3>1, <2>1, <2>2, <1>3
        <5> QED
          BY <5>1, <1>4 DEF Laid
      <4> QED
        BY <4>1, <4>2
    <3>3. Lists(f, d)'
      BY <3>2, <2>1, SameProgram
    <3>4. Lists(fields[d], d)'
      BY <3>1, <3>3
    <3>5. (d \notin Above(d))' /\ (prog'.base[d] # NoClass => prog'.base[d] \in Complete')
      BY <3>2, <2>1, <2>4, <2>5, SameProgram
    <3>6. (fields[d] = AllFields(d))'
      BY <3>1, <3>2, <2>5
    <3> QED
      BY <3>1, <3>2, <3>4, <3>5, <3>6 DEF Laid, Distinct
  <2>8. FieldsLaid'
    BY <2>4, <2>7 DEF FieldsLaid
  <2>9. Calls'
    <3>1. Settled(c)'
      BY <2>1, <1>2 DEF Settled, Marked, Returned
    <3> QED
      BY <3>1, <2>1, <1>1, <1>2, PopCalls
  <2>10. Written' /\ Answered'
    BY <2>1, <1>2, WrittenKept, AnsweredKept DEF IInv
  <2>11. MethodLists'
    <3>1. Collected = {} /\ Inheriting = {} /\ Collected' = {} /\ Inheriting' = {}
      BY <1>2, <2>1 DEF Collected, Inheriting
    <3> QED
      BY <1>2, <2>1, <3>1 DEF IInv, MethodLists, OwnEntry, Wrapper
  <2> QED
    BY <2>1, <2>3, <2>8, <2>9, <2>10, <2>11, <1>2 DEF IInv
<1> QED
  BY <1>9, <1>10

LEMMA EmptyNested ==
  ASSUME NEW s, s = <<>>
  PROVE  Nested(s)
BY DEF Nested

LEMMA CollectMethodsKeeps ==
  ASSUME IInv, CollectMethods
  PROVE  IInv'
<1>1. /\ phase = "methods" /\ Stages /\ FieldsLaid /\ MethodLists /\ stack = <<>> /\ prog \in Program
      /\ done \subseteq Classes /\ Complete = Classes /\ Collected = done /\ Inheriting = {}
      /\ fields \in [Classes -> Seq(Fields)]
  BY DEF CollectMethods, IInv, Stages, Calls, Complete, Collected, Inheriting
<1>2. PICK i \in 1 .. Len(prog.classes) :
        LET c == prog.classes[i]
            own == prog.methods[c]
        IN /\ c \notin done
           /\ IF ~IsInjective(own) \/ ToSet(own) \cap FieldNames(c) # {}
                THEN Refuse("method")
                ELSE /\ methods' = methods \cup {Method(c, c, m) : m \in ToSet(own)}
                     /\ done' = done \cup {c}
                     /\ UNCHANGED <<prog, phase, stack, fields, structs, encoders, reason>>
  BY DEF CollectMethods
<1>3. PICK c, own : c = prog.classes[i] /\ own = prog.methods[c]
  OBVIOUS
<1>4. c \in Classes
  BY <1>1, <1>3, ProgramFacts, Elements
<1>5. FieldNames(c) = FieldsNamed(c)
  BY <1>1, <1>4, LaidFacts DEF FieldsLaid
<1>6. CASE ~IsInjective(own) \/ ToSet(own) \cap FieldNames(c) # {}
  <2>1. Refuse("method")
    BY <1>2, <1>3, <1>6
  <2>2. ~IsInjective(prog.methods[c]) \/ \E m \in FieldsNamed(c) : Declares(c, m)
    BY <1>3, <1>5, <1>6 DEF Declares
  <2>3. Defect("method") /\ "method" \in Reasons
    BY <1>4, <2>2 DEF Defect, Reasons
  <2> QED
    BY <2>1, <2>3, RefuseKeeps
<1>7. CASE IsInjective(own) /\ ToSet(own) \cap FieldNames(c) = {}
  <2>1. /\ methods' = methods \cup {Method(c, c, m) : m \in ToSet(own)}
        /\ done' = done \cup {c}
        /\ UNCHANGED <<prog, phase, stack, fields, structs, encoders, reason>>
    BY <1>2, <1>3, <1>7
  <2>2. Complete' = Complete /\ Collected' = done' /\ Inheriting' = {}
    BY <1>1, <2>1, SameProgram DEF Complete, Collected, Inheriting
  <2>3. Stages'
    BY <1>1, <1>4, <2>1, SameProgram DEF Stages
  <2>4. FieldsLaid' /\ Written' /\ Answered'
    BY <1>1, <2>1, <2>2, FieldsKept, WrittenKept, AnsweredKept DEF IInv
  <2>5. Calls'
    <3>1. Nested(stack)'
      BY <1>1, <2>1 DEF Nested
    <3> QED
      BY <1>1, <2>1, <3>1 DEF Calls
  <2>6. ASSUME NEW e \in methods'
        PROVE  OwnEntry(e)'
    <3>1. CASE e \in methods
      <4>1. OwnEntry(e)
        BY <1>1, <3>1 DEF MethodLists, Wrapper
      <4> QED
        BY <4>1, <1>1, <2>1, <2>2, SameProgram DEF OwnEntry
    <3>2. CASE \E m \in ToSet(own) : e = Method(c, c, m)
      <4>1. PICK m \in ToSet(own) : e = Method(c, c, m)
        BY <3>2
      <4>2. e.owner = c /\ e.source = c /\ e.name = m /\ Declares(c, m)
        BY <4>1, <1>3 DEF Method, Declares
      <4>3. Declares(c, m)'
        BY <4>2, <2>1, SameProgram
      <4> QED
        BY <4>2, <4>3, <2>1, <2>2 DEF OwnEntry
    <3> QED
      BY <3>1, <3>2, <2>1
  <2>7. \A x : FieldNames(x)' = FieldNames(x)
    BY <2>1 DEF FieldNames
  <2>8. ASSUME NEW d \in done'
        PROVE  Gathered(d)'
    <3>1. CASE d = c
      <4>1. \A m \in ToSet(own) : m \notin FieldNames(c) /\ Method(c, c, m) \in methods'
        BY <1>7, <2>1
      <4> QED
        BY <3>1, <4>1, <1>3, <1>7, <2>1, <2>7 DEF Gathered, Method
    <3>2. CASE d # c
      <4>1. Gathered(d)
        BY <3>2, <1>1, <2>1 DEF MethodLists
      <4> QED
        BY <4>1, <2>1, <2>7 DEF Gathered, Method
    <3> QED
      BY <3>1, <3>2
  <2>9. MethodLists'
    BY <2>2, <2>6, <2>8 DEF MethodLists
  <2> QED
    BY <1>1, <2>1, <2>3, <2>4, <2>5, <2>9 DEF IInv
<1> QED
  BY <1>6, <1>7

\* Once the fields are laid, no class is above itself.
LEMMA Acyclic ==
  ASSUME IInv, phase \notin {"collect", "fields", "refused"}
  PROVE  /\ prog \in Program /\ fields \in [Classes -> Seq(Fields)]
         /\ \A c \in Classes :
              /\ Laid(c) /\ c \notin Above(c) /\ FieldNames(c) = FieldsNamed(c)
              /\ prog.base[c] # c
<1>1. prog \in Program /\ fields \in [Classes -> Seq(Fields)]
  BY DEF IInv, Stages
<1>2. \A c \in Classes : Laid(c)
  BY DEF IInv, FieldsLaid, Complete
<1>3. \A c \in Classes : FieldNames(c) = FieldsNamed(c) /\ c \notin Above(c)
  BY <1>1, <1>2, LaidFacts DEF Laid
<1>4. \A c \in Classes : prog.base[c] = c => c \in Above(c)
  BY <1>1, AboveIs, ProgramFacts
<1> QED
  BY <1>1, <1>2, <1>3, <1>4

\* A class has no method that nothing above it declares.
LEMMA HasDeclared ==
  ASSUME IInv, phase \in {"inherit", "call", "structs", "json", "done"},
         NEW c \in Classes, NEW m, HasMethod(c, m)
  PROVE  /\ \E d \in Lineage(c) : Declares(d, m)
         /\ m \in Private => Declares(c, m)
<1>1. /\ prog \in Program /\ \A d \in Classes : d \notin Above(d)
      /\ \A e \in methods : OwnEntry(e) \/ Wrapper(e)
  BY Acyclic DEF IInv, MethodLists
<1> DEFINE Bad == {d \in Classes : HasMethod(d, m) /\ ~ \E e \in Lineage(d) : Declares(e, m)}
<1>2. ASSUME NEW d \in Bad
      PROVE  d \notin Above(d) /\ prog.base[d] # NoClass /\ prog.base[d] \in Bad
  <2>1. PICK e \in methods : e.owner = d /\ e.name = m
    BY DEF HasMethod, MethodsOf
  <2>2. d \in Lineage(d) /\ (prog.base[d] # NoClass =>
          /\ prog.base[d] \in Classes /\ Lineage(prog.base[d]) \subseteq Lineage(d))
    BY <1>1, AboveIs DEF Lineage
  <2>3. ~OwnEntry(e)
    BY <2>1, <2>2 DEF OwnEntry
  <2>4. prog.base[d] # NoClass /\ HasMethod(prog.base[d], m)
    BY <1>1, <2>1, <2>3 DEF Wrapper
  <2> QED
    BY <1>1, <2>2, <2>4
<1>3. Bad = {}
  <2>1. Bad \in SUBSET Classes
    OBVIOUS
  <2> HIDE DEF Bad
  <2> QED
    BY <1>1, <1>2, <2>1, NoneLeft
<1>4. m \in Private => Declares(c, m)
  BY <1>1 DEF HasMethod, MethodsOf, OwnEntry, Wrapper
<1> QED
  BY <1>3, <1>4

LEMMA InheritMethodsKeeps ==
  ASSUME IInv, InheritMethods
  PROVE  IInv'
<1>1. PICK c : c = Top.on
  OBVIOUS
<1> DEFINE b == prog.base[c]
<1>2. /\ phase = "inherit" /\ stack # <<>> /\ ~Unseen /\ Stages /\ FieldsLaid /\ MethodLists /\ Calls
      /\ prog \in Program /\ Complete = Classes /\ Collected = Classes /\ Inheriting = done
  BY DEF InheritMethods, IInv, Stages, Complete, Collected, Inheriting
<1>3. c \in Classes /\ c \notin done /\ done \subseteq Classes /\ (b # NoClass => b \in done /\ b # c)
  BY <1>1, <1>2, Defined
<1>4. /\ \A e \in methods : OwnEntry(e) \/ Wrapper(e)
      /\ \A e \in methods : e.owner \in Classes
      /\ \A d \in Classes : Gathered(d)
      /\ \A d \in done : Inherits(d)
  BY <1>2, <1>3 DEF MethodLists, OwnEntry, Wrapper
<1>5. NoClass \notin Classes
  BY <1>2, ProgramFacts
<1>6. PICK W : W = Wrapped(c)
  OBVIOUS
<1>7. ASSUME NEW m \in W
      PROVE  b # NoClass /\ m \notin Private /\ HasMethod(b, m) /\ ~HasMethod(c, m)
  <2>1. PICK e \in MethodsOf(b) : e.name = m /\ e.name \notin Private /\ ~HasMethod(c, e.name)
    BY <1>6 DEF Wrapped
  <2>2. b # NoClass
    BY <2>1, <1>4, <1>5 DEF MethodsOf
  <2> QED
    BY <2>1, <2>2 DEF HasMethod
<1>8. CASE W \cap FieldNames(c) # {}
  <2>1. Refuse("inherited")
    BY <1>1, <1>6, <1>8 DEF InheritMethods
  <2>2. PICK m : m \in W /\ m \in FieldNames(c)
    BY <1>8
  <2>3. m \in FieldsNamed(c) \ Private
    BY <2>2, <1>2, <1>3, <1>7, Acyclic
  <2>4. b \in Classes /\ Above(c) = Lineage(b)
    BY <2>2, <1>2, <1>3, <1>7, AboveIs
  <2>5. \E d \in Above(c) : Declares(d, m)
    BY <2>2, <2>4, <1>2, <1>7, HasDeclared
  <2>6. Defect("inherited") /\ "inherited" \in Reasons
    BY <1>3, <2>3, <2>5 DEF Defect, Reasons
  <2> QED
    BY <2>1, <2>6, RefuseKeeps
<1>9. CASE W \cap FieldNames(c) = {}
  <2>1. /\ methods' = methods \cup {Method(c, b, m) : m \in W}
        /\ stack' = Front(stack) /\ done' = done \cup {c}
        /\ UNCHANGED <<prog, phase, fields, structs, encoders, reason>>
    BY <1>9, <1>1, <1>6 DEF InheritMethods, Pop
  <2>2. Complete' = Complete /\ Collected' = Classes /\ Inheriting' = done'
    BY <1>2, <2>1, SameProgram DEF Complete, Collected, Inheriting
  <2>3. Stages'
    BY <1>2, <1>3, <2>1, SameProgram DEF Stages
  <2>4. FieldsLaid' /\ Written' /\ Answered'
    BY <1>2, <2>1, <2>2, FieldsKept, WrittenKept, AnsweredKept DEF IInv
  <2>5. Calls'
    <3>1. Settled(c)'
      BY <2>1, <1>2 DEF Settled, Marked, Returned
    <3> QED
      BY <3>1, <2>1, <1>1, <1>2, PopCalls
  <2>6. \A m \in W : Method(c, b, m).owner = c /\ Method(c, b, m).source = b /\ Method(c, b, m).name = m
    BY DEF Method
  <2>7. /\ \A d : d # c => MethodsOf(d)' = MethodsOf(d)
        /\ \A d, m : HasMethod(d, m) => HasMethod(d, m)'
        /\ \A m \in W : HasMethod(c, m)'
    <3>1. ASSUME NEW d, d # c
          PROVE  MethodsOf(d)' = MethodsOf(d)
      BY <3>1, <2>1, <2>6 DEF MethodsOf
    <3>2. \A d, m : HasMethod(d, m) => HasMethod(d, m)'
      BY <2>1 DEF HasMethod, MethodsOf
    <3>3. ASSUME NEW m \in W
          PROVE  HasMethod(c, m)'
      <4>1. Method(c, b, m) \in methods'
        BY <2>1
      <4> QED
        BY <4>1, <2>6 DEF HasMethod, MethodsOf
    <3> QED
      BY <3>1, <3>2, <3>3
  <2>8. ASSUME NEW e \in methods'
        PROVE  OwnEntry(e)' \/ Wrapper(e)'
    <3>1. CASE e \in methods /\ OwnEntry(e)
      BY <3>1, <1>2, <2>1, <2>2, SameProgram DEF OwnEntry
    <3>2. CASE e \in methods /\ Wrapper(e)
      <4>1. HasMethod(e.source, e.name)'
        BY <3>2, <2>7 DEF Wrapper
      <4>2. ~Declares(e.owner, e.name)'
        BY <3>2, <2>1, SameProgram DEF Wrapper
      <4> QED
        BY <3>2, <4>1, <4>2, <1>2, <2>1, <2>2 DEF Wrapper
    <3>3. CASE \E m \in W : e = Method(c, b, m)
      <4>1. PICK m \in W : e = Method(c, b, m)
        BY <3>3
      <4>2. e.owner = c /\ e.source = b /\ e.name = m
        BY <4>1, <2>6
      <4>3. ~Declares(c, m)
        <5>1. Declares(c, m) => Method(c, c, m) \in methods
          BY <1>3, <1>4 DEF Gathered, Declares
        <5>2. Method(c, c, m) \in methods => HasMethod(c, m)
          BY DEF HasMethod, MethodsOf, Method
        <5> QED
          BY <5>1, <5>2, <1>7
      <4>4. ~Declares(c, m)'
        BY <4>3, <2>1, SameProgram
      <4>5. HasMethod(b, m)'
        <5>1. PICK d1 : d1 = b
          OBVIOUS
        <5>2. HasMethod(d1, m)' /\ prog'.base[c] = d1
          BY <5>1, <1>7, <2>1, <2>7
        <5> QED
          BY <5>2
      <4>6. b # NoClass /\ m \notin Private /\ c \in Inheriting' /\ prog'.base[c] = b
        BY <1>7, <2>1, <2>2
      <4> QED
        BY <4>2, <4>4, <4>5, <4>6 DEF Wrapper
    <3> QED
      BY <3>1, <3>2, <3>3, <1>4, <2>1
  <2>9. \A x : FieldNames(x)' = FieldNames(x)
    BY <2>1 DEF FieldNames
  <2>10. ASSUME NEW d \in Classes
         PROVE  Gathered(d)'
    <3>1. Gathered(d)
      BY <1>4
    <3> QED
      BY <3>1, <2>1, <2>9 DEF Gathered, Method
  <2>11. ASSUME NEW d \in done'
         PROVE  Inherits(d)'
    <3>1. CASE d = c
      <4>1. ASSUME b # NoClass
            PROVE  /\ b \in Inheriting'
                   /\ \A e \in MethodsOf(b)' : e.name \notin Private => HasMethod(c, e.name)'
        <5>1. MethodsOf(b)' = MethodsOf(b) /\ b \in Inheriting'
          <6>1. PICK d1 : d1 = b
            OBVIOUS
          <6>2. MethodsOf(d1)' = MethodsOf(d1)
            BY <6>1, <4>1, <1>3, <2>7
          <6>3. prog'.base[c] = b
            BY <2>1
          <6> QED
            BY <6>1, <6>2, <6>3, <4>1, <1>3, <2>1, <2>2
        <5>2. ASSUME NEW e \in MethodsOf(b), e.name \notin Private
              PROVE  HasMethod(c, e.name)'
          <6>1. HasMethod(c, e.name) \/ e.name \in W
            BY <5>2, <1>6 DEF Wrapped
          <6> QED
            BY <6>1, <2>7
        <5> QED
          BY <5>1, <5>2
      <4>2. ASSUME NEW e \in MethodsOf(c)'
            PROVE  e.name \notin FieldNames(c)
        <5>1. CASE e \in methods
          <6>1. e.owner = c /\ OwnEntry(e)
            BY <5>1, <1>2, <1>3, <1>4 DEF MethodsOf, Wrapper
          <6> QED
            BY <6>1, <1>3, <1>4 DEF OwnEntry, Declares, Gathered
        <5>2. CASE \E m \in W : e = Method(c, b, m)
          BY <5>2, <2>6, <1>9
        <5> QED
          BY <5>1, <5>2, <2>1 DEF MethodsOf
      <4> QED
        BY <3>1, <4>1, <4>2, <2>1, <2>9 DEF Inherits
    <3>2. CASE d # c
      <4>1. Inherits(d) /\ d \in done
        BY <3>2, <2>1, <1>4
      <4>2. prog.base[d] # NoClass => prog.base[d] \in done /\ prog.base[d] # c
        BY <4>1, <1>2, <1>3 DEF Inherits
      <4>3. PICK d1 : d1 = prog.base[d]
        OBVIOUS
      <4>4. MethodsOf(d)' = MethodsOf(d) /\ (d1 # NoClass => MethodsOf(d1)' = MethodsOf(d1))
        BY <3>2, <4>2, <4>3, <2>7
      <4>5. d1 # NoClass =>
              /\ d1 \in Inheriting'
              /\ \A e \in MethodsOf(d1)' : e.name \notin Private => HasMethod(d, e.name)'
        BY <4>1, <4>2, <4>3, <4>4, <2>1, <2>2, <2>7 DEF Inherits
      <4>6. \A e \in MethodsOf(d)' : e.name \notin FieldNames(d)
        BY <4>1, <4>4 DEF Inherits
      <4>7. prog'.base[d] = d1
        BY <4>3, <2>1
      <4> QED
        BY <4>5, <4>6, <4>7, <2>9 DEF Inherits
    <3> QED
      BY <3>1, <3>2
  <2>12. MethodLists'
    BY <2>2, <2>8, <2>10, <2>11 DEF MethodLists
  <2> QED
    BY <1>2, <2>1, <2>3, <2>4, <2>5, <2>12 DEF IInv
<1> QED
  BY <1>8, <1>9

\* The support checks: what they are asked about, and what their answers mean.
LEMMA RootIs ==
  ASSUME IInv, phase \in {"call", "json"}, stack # <<>>
  PROVE  \E c \in Classes : /\ Root = ClassType(c) /\ ClassType(c) \in ToSet(Roots)
                            /\ phase = "call" => prog.asked # NoClass /\ c = prog.asked
<1>1. prog \in Program /\ stack[1].on \in ToSet(Roots)
  BY DEF IInv, Stages, Calls, Nested, Marked
<1> QED
  BY <1>1, RootsAre, ProgramFacts DEF Root

LEMMA SupportedUp ==
  ASSUME prog \in Program, NEW t \in Mentioned, ~Leaf(t), \A u \in PartsOf(t) : Supported(u)
  PROVE  Supported(t)
<1>1. MadeOf(t) = PartsOf(t) /\ ~Unsupported(t)
  BY DEF MadeOf, Leaf, Unsupported
<1>2. Everything(t) = UNION {{u} \cup Everything(u) : u \in MadeOf(t)}
  BY EverythingIs
<1> QED
  BY <1>1, <1>2 DEF Supported

LEMMA AnswerNoKeeps ==
  ASSUME IInv, AnswerNo
  PROVE  IInv'
<1>1. PICK x, top : x = NextChild /\ top = Top.on
  OBVIOUS
<1>2. /\ Stages /\ FieldsLaid /\ Calls /\ stack # <<>> /\ Unseen /\ ~Marked /\ Unsupported(x)
      /\ prog \in Program
  BY <1>1 DEF IInv, AnswerNo, Unseen, Stages
<1>3. /\ phase \in {"call", "json"} /\ Len(stack) \in Nat \ {0} /\ Top = stack[Len(stack)]
      /\ top \in Walkable /\ x \in ToSet(Children(top))
      /\ stack[1].on \in Walkable
  BY <1>1, <1>2, TopFacts DEF Marked
<1>4. PICK c \in Classes : /\ Root = ClassType(c) /\ ClassType(c) \in ToSet(Roots)
                           /\ phase = "call" => prog.asked # NoClass /\ c = prog.asked
  BY <1>2, <1>3, RootIs
<1>5. top \in Mentioned /\ ~Leaf(top) /\ x \in PartsOf(top)
  BY <1>2, <1>3, ChildrenAre DEF Walkable
<1>6. x \in MadeOf(top)
  BY <1>5 DEF MadeOf
<1>7. top = Root \/ top \in Everything(Root)
  <2>1. 1 \in 1 .. Len(stack) /\ Len(stack) \in 1 .. Len(stack) /\ (1 = Len(stack) \/ 1 < Len(stack))
    <3>1. PICK n \in Nat \ {0} : n = Len(stack)
      BY <1>3
    <3>2. 1 \in 1 .. n /\ n \in 1 .. n /\ (1 = n \/ 1 < n)
      OBVIOUS
    <3> QED
      BY ONLY <3>1, <3>2
  <2>2. 1 < Len(stack) => stack[Len(stack)].on \in Beyond(stack[1].on)
    BY <1>2, <2>1 DEF Calls, Nested
  <2> QED
    BY <2>1, <2>2, <1>1, <1>3 DEF Root, Beyond
<1>8. x \in Everything(ClassType(c))
  <2>1. ClassType(c) \in Mentioned
    BY <1>2, ProgramFacts
  <2>2. /\ MadeOf(ClassType(c)) \subseteq Everything(ClassType(c))
        /\ \A u \in Everything(ClassType(c)) : MadeOf(u) \subseteq Everything(ClassType(c))
    BY <1>2, <2>1, EverythingIs
  <2> QED
    BY <2>2, <1>4, <1>6, <1>7
<1>9. ~Encodable(c)
  BY <1>2, <1>8 DEF Encodable
<1>10. CASE phase = "call"
  <2>1. Refuse("json")
    BY <1>10 DEF AnswerNo
  <2>2. Defect("json") /\ "json" \in Reasons
    BY <1>4, <1>9, <1>10 DEF Defect, Reasons
  <2> QED
    BY <2>1, <2>2, RefuseKeeps
<1>11. CASE phase = "json"
  <2>1. /\ stack' = <<>> /\ done' = done \cup {ClassType(c)}
        /\ UNCHANGED <<prog, phase, fields, methods, structs, encoders, reason>>
    BY <1>4, <1>11 DEF AnswerNo
  <2>2. Complete' = Complete /\ Collected' = Collected /\ Inheriting' = Inheriting /\ Roots' = Roots
    BY <1>11, <2>1, SameProgram, SamePhase DEF Complete, Collected, Inheriting
  <2>3. Stages'
    BY <1>2, <1>4, <1>11, <2>1, <2>2, SameProgram DEF Stages
  <2>4. FieldsLaid' /\ Written' /\ MethodLists'
    BY <1>11, <2>1, <2>2, FieldsKept, WrittenKept, MethodsKept DEF IInv
  <2>5. Calls'
    BY <1>11, <2>1 DEF Calls, Nested
  <2>6. Answered'
    <3>1. {d \in Classes : ClassType(d) \in done' /\ Encodable(d)}
            = {d \in Classes : ClassType(d) \in done /\ Encodable(d)}
      <4>1. \A d : ClassType(d) = ClassType(c) => d = c
        BY ClassTypeIs
      <4> QED
        BY <4>1, <2>1, <1>9
    <3>2. encoders' = {d \in Classes : ClassType(d) \in done' /\ Encodable(d)}
      BY <3>1, <2>1, <1>11 DEF IInv, Answered
    <3>3. encoders' = {d \in Classes' : ClassType(d) \in done' /\ Encodable(d)'}
      BY <3>2, <2>1, SameProgram
    <3>4. prog.asked # NoClass => Encodable(prog.asked)'
      <4>1. PICK d : d = prog.asked
        OBVIOUS
      <4>2. d # NoClass => Encodable(d)'
        BY <4>1, <1>11, <2>1, SameProgram DEF IInv, Answered
      <4> QED
        BY <4>1, <4>2, <2>1
    <3> QED
      BY <3>3, <3>4, <2>1, <1>11 DEF Answered
  <2> QED
    BY <2>1, <2>3, <2>4, <2>5, <2>6, <1>11 DEF IInv
<1> QED
  BY <1>3, <1>10, <1>11

LEMMA AnswerYesKeeps ==
  ASSUME IInv, AnswerYes
  PROVE  IInv'
<1>1. PICK top : top = Top.on
  OBVIOUS
<1>2. /\ Stages /\ FieldsLaid /\ Calls /\ stack # <<>> /\ ~Unseen /\ ~Marked /\ prog \in Program
      /\ UNCHANGED <<prog, phase, fields, methods, structs, reason>>
  BY DEF IInv, AnswerYes, Stages
<1>3. /\ phase \in {"call", "json"} /\ Len(stack) \in Nat \ {0} /\ Top = stack[Len(stack)]
      /\ top \in Walkable /\ \A x \in ToSet(Children(top)) : Settled(x)
  BY <1>1, <1>2, TopFacts DEF Marked
<1>4. top \in Mentioned /\ ~Leaf(top) /\ \A x \in PartsOf(top) : Supported(x)
  BY <1>2, <1>3, ChildrenAre DEF Walkable, Settled
<1>5. Supported(top)
  BY <1>2, <1>4, SupportedUp
<1>6. Settled(top)'
  <2>1. Supported(top)'
    BY <1>2, <1>5, SameProgram
  <2>2. ~Marked'
    BY <1>2, SamePhase
  <2> QED
    BY <2>1, <2>2 DEF Settled
<1>7. CASE Len(stack) > 1
  <2>1. stack' = Front(stack) /\ UNCHANGED <<done, encoders>>
    BY <1>7 DEF AnswerYes
  <2>2. Calls'
    BY <1>1, <1>2, <1>6, <2>1, PopCalls
  <2> QED
    BY <1>2, <2>1, <2>2, StackKeeps
<1>8. CASE ~(Len(stack) > 1)
  <2>1. Len(stack) = 1 /\ Root = top
    BY <1>1, <1>3, <1>8 DEF Root
  <2>2. PICK c \in Classes : /\ top = ClassType(c) /\ ClassType(c) \in ToSet(Roots)
                             /\ phase = "call" => prog.asked # NoClass /\ c = prog.asked
    BY <1>2, <1>3, <2>1, RootIs
  <2>3. /\ stack' = Front(stack) /\ done' = done \cup {top}
        /\ encoders' = IF phase = "json" THEN encoders \cup {c} ELSE encoders
    BY <1>1, <1>8, <2>1, <2>2, ClassTypeIs DEF AnswerYes, Pop
  <2>4. Calls'
    BY <1>1, <1>2, <1>6, <2>3, PopCalls
  <2>5. Complete' = Complete /\ Collected' = Collected /\ Inheriting' = Inheriting /\ Roots' = Roots
    BY <1>2, <1>3, <2>3, SameProgram, SamePhase DEF Complete, Collected, Inheriting
  <2>6. Stages'
    BY <1>2, <1>3, <2>2, <2>3, <2>5, SameProgram DEF Stages
  <2>7. FieldsLaid' /\ Written' /\ MethodLists'
    BY <1>2, <1>3, <2>3, <2>5, FieldsKept, WrittenKept, MethodsKept DEF IInv
  <2>8. Encodable(c)
    BY <1>5, <2>2 DEF Supported, Encodable
  <2>9. Classes' = Classes /\ \A d : (Encodable(d)' = TRUE) = (Encodable(d) = TRUE)
    BY <1>2, SameProgram
  <2>10. \A d : ClassType(d) = ClassType(c) => d = c
    BY ClassTypeIs
  <2>11. CASE phase = "call"
    <3>1. \A d \in Classes : ClassType(d) \in done' => Encodable(d)
      BY <2>2, <2>3, <2>8, <2>10, <2>11 DEF IInv, Answered
    <3>2. encoders' = {}
      BY <2>3, <2>11 DEF IInv, Answered
    <3>3. \A d \in Classes' : ClassType(d) \in done' => Encodable(d)'
      BY <3>1, <2>9
    <3>4. Answered'
      BY <3>2, <3>3, <1>2, <2>11 DEF Answered
    <3> QED
      BY <3>4, <1>2, <2>4, <2>6, <2>7, <2>11 DEF IInv
  <2>12. CASE phase = "json"
    <3>1. encoders' = {d \in Classes : ClassType(d) \in done' /\ Encodable(d)}
      <4>1. encoders = {d \in Classes : ClassType(d) \in done /\ Encodable(d)}
        BY <2>12 DEF IInv, Answered
      <4>2. encoders' = encoders \cup {c}
        BY <2>3, <2>12
      <4> QED
        BY <4>1, <4>2, <2>2, <2>3, <2>8, <2>10
    <3>2. encoders' = {d \in Classes' : ClassType(d) \in done' /\ Encodable(d)'}
      BY <3>1, <2>9
    <3>3. prog.asked # NoClass => Encodable(prog.asked)'
      <4>1. PICK d : d = prog.asked
        OBVIOUS
      <4>2. d # NoClass => Encodable(d)'
        BY <4>1, <2>12, <2>9 DEF IInv, Answered
      <4> QED
        BY <4>1, <4>2, <1>2
    <3>4. Answered'
      BY <3>2, <3>3, <1>2, <2>12 DEF Answered
    <3> QED
      BY <3>4, <1>2, <2>4, <2>6, <2>7, <2>12 DEF IInv
  <2> QED
    BY <1>3, <2>11, <2>12
<1> QED
  BY <1>7, <1>8

LEMMA WriteStructKeeps ==
  ASSUME IInv, WriteStruct
  PROVE  IInv'
<1>1. PICK top, old : top = Top.on /\ old = structs
  OBVIOUS
<1>2. /\ Stages /\ FieldsLaid /\ Calls /\ Written /\ prog \in Program
      /\ phase = "structs" /\ stack # <<>> /\ ~Unseen /\ Marked
      /\ structs' = Append(old, top) /\ stack' = Front(stack) /\ done' = done \cup {top}
      /\ UNCHANGED <<prog, phase, methods, fields, encoders, reason>>
  BY <1>1 DEF IInv, WriteStruct, Pop, Stages, Marked
<1>3. /\ Len(stack) \in Nat \ {0} /\ Top = stack[Len(stack)]
      /\ top \in Walkable /\ \A x \in ToSet(Children(top)) : Settled(x)
  BY <1>1, <1>2, TopFacts
<1>4. top \in HeldTypes /\ top \notin done
  <2>1. Len(stack) \in 1 .. Len(stack)
    BY <1>3
  <2> QED
    BY <2>1, <1>1, <1>2, <1>3 DEF Walkable, Calls, Nested
<1>5. old \in Seq(HeldTypes) /\ Ordered(old) /\ ToSet(old) = done
  BY <1>1, <1>2 DEF Written
<1>6. HeldBy(top) \subseteq done
  <2>1. ToSet(Children(top)) = PartsOf(top)
    BY <1>2, <1>3, ChildrenAre
  <2> QED
    BY <2>1, <1>2, <1>3 DEF Settled, Returned, HeldBy
<1>7. PICK s : s = Append(old, top)
  OBVIOUS
<1>8. PICK n : n = Len(old)
  OBVIOUS
<1>9. /\ n \in Nat /\ s \in Seq(HeldTypes) /\ Len(s) = n + 1 /\ DOMAIN s = 1 .. n + 1
      /\ s[n + 1] = top /\ \A i \in 1 .. n : s[i] = old[i]
      /\ done = {old[i] : i \in 1 .. n}
  BY <1>4, <1>5, <1>7, <1>8, Elements
<1>10. ToSet(s) = done \cup {top}
  <2>1. \A i \in 1 .. n + 1 : i \in 1 .. n \/ i = n + 1
    BY <1>9
  <2>2. 1 .. n \subseteq 1 .. n + 1 /\ n + 1 \in 1 .. n + 1
    BY <1>9
  <2>3. ToSet(s) = {s[i] : i \in 1 .. n + 1}
    BY <1>9 DEF ToSet
  <2>4. \A x \in ToSet(s) : x \in done \cup {top}
    BY <2>1, <2>3, <1>9
  <2>5. \A x \in done \cup {top} : x \in ToSet(s)
    BY <2>2, <2>3, <1>9
  <2> QED
    BY <2>4, <2>5
<1>11. Ordered(s)
  <2>1. ASSUME NEW i \in 1 .. n + 1, NEW j \in 1 .. n + 1, s[i] = s[j]
        PROVE  i = j
    <3>1. \A k \in 1 .. n : s[k] \in done /\ s[k] # top
      BY <1>4, <1>9
    <3>2. i \in 1 .. n /\ j \in 1 .. n => i = j
      BY <2>1, <1>5, <1>8, <1>9, Elements DEF Ordered, IsInjective
    <3>3. (i \in 1 .. n \/ i = n + 1) /\ (j \in 1 .. n \/ j = n + 1)
      BY <1>9
    <3> QED
      BY <3>1, <3>2, <3>3, <2>1, <1>9
  <2>2. ASSUME NEW i \in 1 .. n + 1
        PROVE  HeldBy(s[i]) \subseteq {s[j] : j \in 1 .. i - 1}
    <3>1. CASE i = n + 1
      <4>1. i - 1 = n
        BY <3>1, <1>9
      <4> QED
        BY <3>1, <4>1, <1>6, <1>9
    <3>2. CASE i # n + 1
      <4>1. i \in 1 .. n /\ \A j \in 1 .. i - 1 : j \in 1 .. n
        BY <3>2, <1>9
      <4>2. HeldBy(old[i]) \subseteq {old[j] : j \in 1 .. i - 1}
        BY <4>1, <1>5, <1>8 DEF Ordered
      <4>3. {old[j] : j \in 1 .. i - 1} \subseteq {s[j] : j \in 1 .. i - 1}
        BY <4>1, <1>9
      <4> QED
        BY <4>1, <4>2, <4>3, <1>9
    <3> QED
      BY <3>1, <3>2
  <2> QED
    BY <2>1, <2>2, <1>9 DEF Ordered, IsInjective
<1>12. Written'
  <2>1. structs' = s /\ HeldTypes' = HeldTypes /\ Ordered(s)'
    BY <1>2, <1>7, <1>11, SameProgram
  <2>2. Ordered(structs)'
    BY <2>1
  <2> QED
    BY <2>1, <2>2, <1>2, <1>9, <1>10 DEF Written
<1>13. Complete' = Complete /\ Collected' = Collected /\ Inheriting' = Inheriting
  BY <1>2, SameProgram DEF Complete, Collected, Inheriting
<1>14. Stages'
  BY <1>2, SameProgram DEF Stages
<1>15. FieldsLaid' /\ MethodLists' /\ Answered'
  BY <1>2, <1>13, FieldsKept, MethodsKept, AnsweredKept DEF IInv
<1>16. Calls'
  <2>1. Settled(top)'
    BY <1>2 DEF Settled, Marked, Returned
  <2> QED
    BY <2>1, <1>1, <1>2, PopCalls
<1> QED
  BY <1>2, <1>12, <1>14, <1>15, <1>16 DEF IInv

LEMMA EndPassKeeps ==
  ASSUME IInv, EndPass
  PROVE  IInv'
<1>1. /\ Stages /\ prog \in Program /\ phase \in DOMAIN PassAfter /\ stack = <<>>
      /\ phase' = PassAfter[phase] /\ stack' = <<>> /\ done' = {}
      /\ UNCHANGED <<prog, reason, fields, methods, structs, encoders>>
  BY DEF IInv, Stages, EndPass, GoTo
<1>2. /\ phase \in {"fields", "methods", "inherit", "call", "structs", "json"}
      /\ phase = "fields" => phase' = "methods"
      /\ phase = "methods" => phase' = "inherit"
      /\ phase = "inherit" => phase' = "call"
      /\ phase = "call" => phase' = "structs"
      /\ phase = "structs" => phase' = "json"
      /\ phase = "json" => phase' = "done"
  BY <1>1 DEF PassAfter
<1>3. phase \in {"fields", "methods", "inherit"} => done = Classes
  <2>1. done \subseteq Classes \/ phase \notin {"fields", "methods", "inherit"}
    BY <1>1 DEF Stages
  <2>2. phase \in {"fields", "inherit"} => ToSet(Roots) \subseteq done /\ ToSet(Roots) = Classes
    BY <1>1, ToDoAre, RootsAre DEF EndPass
  <2>3. phase = "methods" => Classes \subseteq done
    BY DEF EndPass
  <2> QED
    BY <2>1, <2>2, <2>3
<1>4. phase \in {"call", "structs", "json"} =>
        /\ ToSet(Roots) \subseteq done
        /\ phase = "structs" => HeldTypes \subseteq done
  BY <1>1, ToDoAre DEF EndPass
<1>5. Classes' = Classes
  BY <1>1, SameProgram
<1>6. Complete' = Complete
  BY <1>1, <1>2, <1>3, <1>5 DEF Complete
<1>7. Collected' = Collected /\ Inheriting' = Inheriting
  <2>1. Collected' = Collected
    BY <1>1, <1>2, <1>3, <1>5 DEF Collected
  <2>2. Inheriting' = Inheriting
    BY <1>1, <1>2, <1>3, <1>5 DEF Inheriting
  <2> QED
    BY <2>1, <2>2
<1>8. Stages'
  BY <1>1, <1>2, SameProgram DEF Stages, Phases
<1>9. FieldsLaid' /\ MethodLists'
  BY <1>1, <1>2, <1>6, <1>7, FieldsKept, MethodsKept DEF IInv
<1>10. Written'
  <2>1. structs' \in Seq(HeldTypes') /\ Ordered(structs)' /\ HeldTypes' = HeldTypes
    BY <1>1, SameProgram DEF IInv, Written
  <2>2. phase \in {"fields", "methods", "inherit", "call"} => structs' = <<>>
    BY <1>1 DEF IInv, Written
  <2>3. phase = "structs" => ToSet(structs') = HeldTypes
    <3>1. structs \in Seq(HeldTypes) /\ (phase = "structs" => ToSet(structs) = done)
      BY DEF IInv, Written
    <3>2. ToSet(structs) \subseteq HeldTypes
      BY <3>1, Elements
    <3> QED
      BY <3>1, <3>2, <1>1, <1>4
  <2>4. phase = "json" => ToSet(structs') = HeldTypes
    BY <1>1 DEF IInv, Written
  <2>5. phase' = "structs" => done' = ToSet(structs')
    BY <2>2, <1>1, <1>2 DEF ToSet
  <2> QED
    BY <2>1, <2>2, <2>3, <2>4, <2>5, <1>2 DEF Written
<1>11. Answered'
  <2>1. \A c : (Encodable(c)' = TRUE) = (Encodable(c) = TRUE)
    BY <1>1, SameProgram
  <2>2. phase \in {"call", "structs", "json"} /\ prog.asked # NoClass => Encodable(prog.asked)'
    <3>1. PICK c : c = prog.asked
      OBVIOUS
    <3>2. CASE phase = "call" /\ c # NoClass
      <4>1. ToSet(Roots) = {ClassType(c)} /\ c \in Classes
        BY <3>1, <3>2, <1>1, RootsAre, ProgramFacts
      <4>2. Encodable(c)
        BY <4>1, <3>2, <1>4 DEF IInv, Answered
      <4>3. Encodable(c)'
        BY <4>2, <2>1
      <4> QED
        BY <4>3, <3>1, <1>1
    <3>3. CASE phase \in {"structs", "json"} /\ c # NoClass
      <4>1. Encodable(c)
        BY <3>1, <3>3 DEF IInv, Answered
      <4>2. Encodable(c)'
        BY <4>1, <2>1
      <4> QED
        BY <4>2, <3>1, <1>1
    <3> QED
      BY <3>1, <3>2, <3>3
  <2>3. phase \in {"fields", "methods", "inherit", "call", "structs"} => encoders = {}
    BY DEF IInv, Answered
  <2>4. phase = "json" => encoders = {c \in Classes : prog.json /\ Encodable(c)}
    <3>1. ASSUME phase = "json"
          PROVE  /\ encoders = {c \in Classes : ClassType(c) \in done /\ Encodable(c)}
                 /\ done = ToSet(Roots)
      BY <3>1, <1>1, <1>4 DEF IInv, Answered, Stages
    <3>2. ASSUME phase = "json", NEW c \in Classes
          PROVE  ClassType(c) \in ToSet(Roots) <=> prog.json
      BY <3>2, <1>1, RootsAre
    <3> QED
      BY <3>1, <3>2
  <2>5. phase = "json" => encoders' = {c \in Classes' : prog'.json /\ Encodable(c)'}
    BY <2>1, <2>4, <1>1, <1>5
  <2>6. {c \in Classes' : ClassType(c) \in done' /\ Encodable(c)'} = {}
    BY <1>1
  <2> QED
    BY <2>2, <2>3, <2>5, <2>6, <1>1, <1>2 DEF Answered
<1>12. Calls'
  BY <1>1 DEF Calls, Nested
<1> QED
  BY <1>1, <1>2, <1>8, <1>9, <1>10, <1>11, <1>12 DEF IInv

LEMMA Starts ==
  ASSUME Init
  PROVE  IInv
<1>1. /\ prog \in Program /\ phase = "collect" /\ stack = <<>> /\ done = {}
      /\ fields = [c \in Classes |-> <<>>] /\ methods = {} /\ structs = <<>> /\ encoders = {}
  BY DEF Init, Classes
<1>2. Stages
  BY <1>1 DEF Stages, Phases
<1>3. FieldsLaid /\ MethodLists
  BY <1>1 DEF FieldsLaid, MethodLists, Complete, Collected, Inheriting
<1>4. Written
  <2>1. structs \in Seq(HeldTypes) /\ Ordered(structs)
    BY <1>1 DEF Ordered, IsInjective
  <2> QED
    BY <2>1, <1>1 DEF Written
<1>5. Answered /\ Calls
  BY <1>1 DEF Answered, Calls, Nested, Marked
<1> QED
  BY <1>1, <1>2, <1>3, <1>4, <1>5 DEF IInv

LEMMA Keeps ==
  ASSUME IInv, [Next]_vars
  PROVE  IInv'
<1>1. CASE Collect
  BY <1>1, CollectKeeps
<1>2. CASE StartCall
  <2>1. stack' # <<>>
    BY <1>2 DEF StartCall
  <2>2. UNCHANGED <<prog, phase, done, fields, methods, structs, encoders, reason>>
    BY <1>2 DEF StartCall
  <2> QED
    BY <1>2, <2>1, <2>2, StartCalls, StackKeeps
<1>3. CASE CallChild
  <2>1. stack # <<>> /\ UNCHANGED <<prog, phase, done, fields, methods, structs, encoders, reason>>
    BY <1>3 DEF CallChild, Unseen
  <2> QED
    BY <1>3, <2>1, ChildCalls, StackKeeps
<1>4. CASE MeetItself
  BY <1>4, MeetItselfKeeps
<1>5. CASE EndPass
  BY <1>5, EndPassKeeps
<1>6. CASE DefineFields
  BY <1>6, DefineFieldsKeeps
<1>7. CASE CollectMethods
  BY <1>7, CollectMethodsKeeps
<1>8. CASE InheritMethods
  BY <1>8, InheritMethodsKeeps
<1>9. CASE AnswerNo
  BY <1>9, AnswerNoKeeps
<1>10. CASE AnswerYes
  BY <1>10, AnswerYesKeeps
<1>11. CASE WriteStruct
  BY <1>11, WriteStructKeeps
<1>12. CASE UNCHANGED vars
  <2>1. UNCHANGED <<prog, phase, stack, done, fields, methods, structs, encoders, reason>>
    BY <1>12 DEF vars
  <2>2. Calls'
    <3>1. PICK s : s = stack
      OBVIOUS
    <3>2. /\ Frames' = Frames /\ Roots' = Roots /\ (Marked' = TRUE) = (Marked = TRUE)
          /\ \A x : Beyond(x)' = Beyond(x) /\ Children(x)' = Children(x)
          /\ \A x : Settled(x) => Settled(x)'
      BY <2>1, SamePhase DEF Frames
    <3>3. Nested(s)
      BY <3>1 DEF IInv, Calls
    <3>4. s \in Seq(Frames') /\ (~Marked' /\ s # <<>> => s[1].on \in ToSet(Roots'))
      BY <3>2, <3>3 DEF Nested
    <3>5. \A i \in 1 .. Len(s) :
            /\ Marked' => s[i].on \notin done'
            /\ \A j \in 1 .. Len(s) : i < j =>
                 s[j].on \in Beyond(s[i].on)' /\ (Marked' => s[i].on # s[j].on)
            /\ s[i].seen <= Len(Children(s[i].on)')
            /\ \A k \in 1 .. s[i].seen :
                 \/ Settled(Children(s[i].on)[k])
                 \/ i < Len(s) /\ k = s[i].seen /\ Children(s[i].on)'[k] = s[i + 1].on
      BY <2>1, <3>2, <3>3 DEF Nested
    <3>6. \A i \in 1 .. Len(s) : \A k \in 1 .. s[i].seen :
            Settled(Children(s[i].on)[k]) => Settled(Children(s[i].on)[k])'
      <4> TAKE i \in 1 .. Len(s)
      <4> TAKE k \in 1 .. s[i].seen
      <4>2. PICK x : x = Children(s[i].on)[k]
        OBVIOUS
      <4> QED
        BY <4>2, <3>2
    <3>7. Nested(s)'
      BY <3>4, <3>5, <3>6 DEF Nested
    <3>8. phase' \notin {"fields", "inherit", "call", "structs", "json"} => stack' = <<>>
      BY <2>1 DEF IInv, Calls
    <3> QED
      BY <2>1, <3>1, <3>7, <3>8 DEF Calls
  <2>3. /\ Complete' = Complete /\ Collected' = Collected /\ Inheriting' = Inheriting
        /\ Roots' = Roots
    BY <2>1, SameProgram, SamePhase DEF Complete, Collected, Inheriting
  <2>4. Stages' /\ FieldsLaid' /\ Written' /\ Answered'
    BY <2>1, <2>3, SameProgram, FieldsKept, WrittenKept, AnsweredKept DEF IInv, Stages
  <2>5. MethodLists'
    <3>1. CASE phase = "refused"
      BY <3>1, <2>1 DEF MethodLists, Collected, Inheriting
    <3>2. CASE phase # "refused"
      BY <3>2, <2>1, <2>3, MethodsKept DEF IInv
    <3> QED
      BY <3>1, <3>2
  <2>6. phase' = "refused" => reason' \in Reasons' /\ Defect(reason)'
    <3>1. PICK r : r = reason
      OBVIOUS
    <3>2. phase = "refused" => r \in Reasons /\ Defect(r)
      BY <3>1 DEF IInv
    <3>3. phase = "refused" => Defect(r)'
      BY <3>2, <2>1, SameProgram
    <3> QED
      BY <3>1, <3>2, <3>3, <2>1
  <2> QED
    BY <2>2, <2>4, <2>5, <2>6 DEF IInv
<1> QED
  BY <1>1, <1>2, <1>3, <1>4, <1>5, <1>6, <1>7, <1>8, <1>9, <1>10, <1>11, <1>12 DEF Next

\* IInv holds in every state: the marks and the calls of a pass say what can
\* be reached in the graph that it walks.
THEOREM Inductive == Spec => []IInv
<1>1. Init => IInv
  BY Starts
<1>2. IInv /\ [Next]_vars => IInv'
  BY Keeps
<1> QED
  BY <1>1, <1>2, PTL DEF Spec

\* A struct is written once, after all that it holds by value, and all are.
THEOREM StructsOrdered == Spec => []DefinedBeforeUse
<1>1. IInv => DefinedBeforeUse
  <2>1. IInv => /\ IsInjective(structs)
                /\ \A i \in 1 .. Len(structs) : HeldBy(structs[i]) \subseteq {structs[j] : j \in 1 .. i - 1}
                /\ phase \in {"json", "done"} => ToSet(structs) = {t \in Mentioned : ByValue(t)}
    BY DEF IInv, Written, Ordered, HeldTypes
  <2> QED
    BY <2>1 DEF DefinedBeforeUse
<1> QED
  BY <1>1, Inductive, PTL

\* Exactly the classes that can be encoded get json helpers.
THEOREM Encoders == Spec => []EncodersExact
<1>1. IInv => EncodersExact
  BY DEF IInv, Answered, EncodersExact
<1> QED
  BY <1>1, Inductive, PTL

----------------------------------------------------------------------------
(* The verdict.                                                            *)

\* A method declared above a class is on its list, unless it is private.
LEMMA DeclaredHas ==
  ASSUME IInv, phase \in {"call", "structs", "json", "done"},
         NEW c \in Classes, NEW d \in Lineage(c), NEW m, Declares(d, m), m \notin Private \/ d = c
  PROVE  HasMethod(c, m)
<1>1. /\ prog \in Program /\ \A b \in Classes : b \notin Above(b)
      /\ \A b \in Classes : Gathered(b) /\ Inherits(b)
  BY Acyclic DEF IInv, MethodLists, Collected, Inheriting
<1>2. \A b \in Classes : Declares(b, m) => HasMethod(b, m)
  <2> SUFFICES ASSUME NEW b \in Classes, Declares(b, m)
               PROVE  HasMethod(b, m)
    OBVIOUS
  <2>1. Method(b, b, m) \in methods
    BY <1>1 DEF Gathered, Declares
  <2>2. Method(b, b, m).owner = b /\ Method(b, b, m).name = m
    BY DEF Method
  <2>3. Method(b, b, m) \in MethodsOf(b)
    BY <2>1, <2>2 DEF MethodsOf
  <2> QED
    BY <2>2, <2>3 DEF HasMethod
<1> DEFINE Bad == {b \in Classes : d \in Lineage(b) /\ ~HasMethod(b, m)}
<1>3. ASSUME m \notin Private, NEW b \in Bad
      PROVE  b \notin Above(b) /\ prog.base[b] # NoClass /\ prog.base[b] \in Bad
  <2>1. b # d
    BY <1>2
  <2>2. d \in Above(b)
    BY <2>1 DEF Lineage
  <2>3. prog.base[b] # NoClass /\ prog.base[b] \in Classes /\ d \in Lineage(prog.base[b])
    BY <2>2, <1>1, AboveIs
  <2>4. ~HasMethod(prog.base[b], m)
    <3>1. ASSUME HasMethod(prog.base[b], m)
          PROVE  HasMethod(b, m)
      <4>1. PICK e \in MethodsOf(prog.base[b]) : e.name = m
        BY <3>1 DEF HasMethod
      <4> QED
        BY <4>1, <2>3, <1>1, <1>3 DEF Inherits
    <3> QED
      BY <3>1
  <2> QED
    BY <1>1, <2>3, <2>4
<1>4. CASE m \in Private
  BY <1>2, <1>4
<1>5. CASE m \notin Private
  <2>1. Bad = {}
    <3>1. Bad \in SUBSET Classes
      OBVIOUS
    <3> HIDE DEF Bad
    <3> QED
      BY <1>1, <1>3, <1>5, <3>1, NoneLeft
  <2> QED
    BY <2>1
<1> QED
  BY <1>4, <1>5

LEMMA NoDefect ==
  ASSUME IInv, phase = "done"
  PROVE  \A why \in Reasons : ~Defect(why)
<1>1. /\ prog \in Program /\ fields \in [Classes -> Seq(Fields)]
      /\ \A c \in Classes :
           /\ Laid(c) /\ c \notin Above(c) /\ FieldNames(c) = FieldsNamed(c)
           /\ prog.base[c] # c
      /\ \A c \in Classes : Gathered(c) /\ Inherits(c)
  BY Acyclic DEF IInv, MethodLists, Collected, Inheriting
<1>2. ~Defect("name") /\ ~Defect("self") /\ ~Defect("cycle")
  BY <1>1 DEF Defect, IInv, Stages
<1>3. ~Defect("field")
  <2>1. ASSUME NEW c \in Classes
        PROVE  /\ \A p, q \in Declared(c) : FieldAt(p).name = FieldAt(q).name => p = q
               /\ ~(Cardinality(Declared(c)) > MaxFields)
    <3>1. /\ \A p, q \in Declared(c) : FieldAt(p).name = FieldAt(q).name => p = q
          /\ Cardinality(Declared(c)) = Len(fields[c]) /\ fields[c] \in Seq(Fields)
      BY <1>1, LaidFacts
    <3>2. Len(fields[c]) <= MaxFields /\ Len(fields[c]) \in Nat /\ MaxFields \in Nat
      BY <1>1, <3>1, Elements, ProgramFacts DEF Laid
    <3> QED
      BY <3>1, <3>2
  <2> QED
    BY <2>1 DEF Defect
<1>4. ~Defect("method")
  <2>1. \A c \in Classes : IsInjective(prog.methods[c]) /\ \A m \in FieldsNamed(c) : ~Declares(c, m)
    BY <1>1 DEF Gathered, Declares
  <2> QED
    BY <2>1 DEF Defect
<1>5. ~Defect("inherited")
  <2>1. ASSUME NEW c \in Classes, NEW m \in FieldsNamed(c) \ Private, NEW d \in Above(c), Declares(d, m)
        PROVE  FALSE
    <3>1. HasMethod(c, m)
      BY <2>1, DeclaredHas DEF Lineage
    <3>2. \A e \in MethodsOf(c) : e.name \notin FieldsNamed(c)
      BY <1>1 DEF Inherits
    <3> QED
      BY <3>1, <3>2 DEF HasMethod
  <2> QED
    BY <2>1 DEF Defect
<1>6. ~Defect("value")
  <2>1. /\ structs \in Seq(HeldTypes) /\ ToSet(structs) = HeldTypes /\ Ordered(structs)
    BY DEF IInv, Written
  <2>2. PICK n : n = Len(structs)
    OBVIOUS
  <2>3. n \in Nat /\ DOMAIN structs = 1 .. n /\ HeldTypes = {structs[i] : i \in 1 .. n}
    BY <2>1, <2>2, Elements
  <2>4. ASSUME NEW t \in Mentioned, t \in Held(t)
        PROVE  FALSE
    <3>1. \A S : HeldBy(t) \subseteq S /\ (\A u \in S \cap Mentioned : HeldBy(u) \subseteq S) =>
            Held(t) \subseteq S
      BY <1>1, HeldIs
    <3>2. CASE t \notin HeldTypes
      <4>1. HeldBy(t) \subseteq {}
        BY <3>2 DEF HeldTypes, HeldBy
      <4>2. Held(t) \subseteq {}
        BY <3>1, <4>1
      <4> QED
        BY <4>2, <2>4
    <3>3. CASE t \in HeldTypes
      <4>1. PICK i \in 1 .. n : t = structs[i]
        BY <3>3, <2>3
      <4> DEFINE S == {structs[j] : j \in 1 .. i - 1}
      <4>2. HeldBy(t) \subseteq S
        BY <4>1, <2>1, <2>2 DEF Ordered
      <4>3. ASSUME NEW u \in S
            PROVE  HeldBy(u) \subseteq S
        <5>1. PICK j \in 1 .. i - 1 : u = structs[j]
          OBVIOUS
        <5>2. j \in 1 .. n /\ \A k \in 1 .. j - 1 : k \in 1 .. i - 1
          BY <4>1, <5>1, <2>3
        <5>3. HeldBy(u) \subseteq {structs[k] : k \in 1 .. j - 1}
          BY <5>1, <5>2, <2>1, <2>2 DEF Ordered
        <5> QED
          BY <5>2, <5>3
      <4>4. t \in S
        <5> HIDE DEF S
        <5> QED
          BY <3>1, <4>2, <4>3, <2>4
      <4>5. PICK j \in 1 .. i - 1 : structs[i] = structs[j]
        BY <4>1, <4>4
      <4>6. j \in 1 .. n /\ j # i
        BY <2>3, <4>5
      <4> QED
        BY <4>5, <4>6, <2>1, <2>3 DEF Ordered, IsInjective
    <3> QED
      BY <3>2, <3>3
  <2> QED
    BY <2>4 DEF Defect
<1>7. ~Defect("json")
  BY DEF Defect, IInv, Answered
<1> QED
  BY <1>2, <1>3, <1>4, <1>5, <1>6, <1>7 DEF Reasons

\* The compiler refuses a program for a defect that it has, and accepts it
\* only if it has none.
THEOREM Judged == Spec => []Verdict
<1>1. IInv => Verdict
  BY NoDefect DEF IInv, Verdict
<1> QED
  BY <1>1, Inductive, PTL

----------------------------------------------------------------------------
(* Method calls.                                                           *)

\* The entry of a method, and what the chain of wrappers behind it runs.
LEMMA EntryIs ==
  ASSUME IInv, phase \in {"call", "structs", "json", "done"},
         NEW c \in Classes, NEW m, HasMethod(c, m)
  PROVE  /\ Entry(c, m) \in methods /\ Entry(c, m).source \in Classes
         /\ \/ Entry(c, m).source = c /\ Declares(c, m)
            \/ /\ prog.base[c] # NoClass /\ prog.base[c] \in Classes
               /\ Entry(c, m).source = prog.base[c] /\ prog.base[c] # c
               /\ m \notin Private /\ ~Declares(c, m) /\ HasMethod(prog.base[c], m)
<1>1. /\ prog \in Program /\ prog.base[c] # c
      /\ \A e \in methods : OwnEntry(e) \/ Wrapper(e)
  BY Acyclic DEF IInv, MethodLists
<1>2. Entry(c, m) \in methods /\ Entry(c, m).owner = c /\ Entry(c, m).name = m
  <2>1. \E e \in MethodsOf(c) : e.name = m
    BY DEF HasMethod
  <2>2. Entry(c, m) \in MethodsOf(c) /\ Entry(c, m).name = m
    BY <2>1 DEF Entry
  <2> QED
    BY <2>2 DEF MethodsOf
<1>3. prog.base[c] # NoClass => prog.base[c] \in Classes
  BY <1>1, ProgramFacts
<1>4. CASE OwnEntry(Entry(c, m))
  BY <1>2, <1>4 DEF OwnEntry
<1>5. CASE Wrapper(Entry(c, m))
  BY <1>1, <1>2, <1>3, <1>5 DEF Wrapper
<1> QED
  BY <1>1, <1>2, <1>4, <1>5

LEMMA RunsIs ==
  ASSUME IInv, phase \in {"call", "structs", "json", "done"},
         NEW c \in Classes, NEW m, HasMethod(c, m)
  PROVE  IF Entry(c, m).source = c THEN Runs(c, m) = c ELSE Runs(c, m) = Runs(prog.base[c], m)
<1> DEFINE next == Sources(m)
           Found(d) == HasMethod(d, m) /\ Entry(d, m).source = d
           b == prog.base[c]
<1>1. prog \in Program /\ IsFiniteSet(Classes)
  BY ProgramFacts DEF IInv, Stages
<1>2. next \in [Classes -> SUBSET Classes]
  BY EntryIs DEF Sources
<1>3. next[c] = {Entry(c, m).source}
  BY DEF Sources
<1>4. \A d \in Classes : Runs(d, m) = CHOOSE e \in {d} \cup Reached(d, next) : Found(e)
  BY DEF Runs
<1> HIDE DEF next
<1>5. CASE Entry(c, m).source = c
  <2>1. Reached(c, next) \subseteq {c}
    <3>1. next[c] \subseteq {c} /\ \A y \in {c} \cap Classes : next[y] \subseteq {c}
      BY <1>3, <1>5
    <3> QED
      BY <1>1, <1>2, <3>1, ReachedIs
  <2>2. {c} \cup Reached(c, next) = {c} /\ Found(c)
    BY <2>1, <1>5
  <2>3. Runs(c, m) = CHOOSE e \in {c} : Found(e)
    BY <1>4, <2>2
  <2> QED
    BY <2>2, <2>3, <1>5
<1>6. CASE Entry(c, m).source # c
  <2>1. Entry(c, m).source = b /\ b \in Classes /\ b # c
    BY <1>6, EntryIs
  <2>2. Reached(c, next) = UNION {{y} \cup Reached(y, next) : y \in next[c]}
    BY <1>1, <1>2, ReachedSplit
  <2>3. Reached(c, next) = {b} \cup Reached(b, next)
    BY <2>1, <2>2, <1>3
  <2>4. ~Found(c)
    BY <1>6
  <2> DEFINE C == {e \in {c} \cup Reached(c, next) : Found(e)}
             B == {e \in {b} \cup Reached(b, next) : Found(e)}
  <2>5. C = B
    BY <2>3, <2>4
  <2>6. Runs(c, m) = CHOOSE e : e \in C
    BY <1>4
  <2>7. Runs(b, m) = CHOOSE e : e \in B
    BY <1>4, <2>1
  <2> QED
    BY <2>5, <2>6, <2>7, <1>6
<1> QED
  BY <1>5, <1>6

LEMMA RunsNearest ==
  ASSUME IInv, phase \in {"call", "structs", "json", "done"},
         NEW c \in Classes, NEW m, HasMethod(c, m)
  PROVE  Runs(c, m) \in Visible(c, m) /\ Visible(c, m) \subseteq Lineage(Runs(c, m))
<1>1. prog \in Program /\ \A d \in Classes : d \notin Above(d)
  BY Acyclic
<1> DEFINE Right(d) == Runs(d, m) \in Visible(d, m) /\ Visible(d, m) \subseteq Lineage(Runs(d, m))
           Bad == {d \in Classes : HasMethod(d, m) /\ ~Right(d)}
<1>2. ASSUME NEW d \in Bad
      PROVE  d \notin Above(d) /\ prog.base[d] # NoClass /\ prog.base[d] \in Bad
  <2> DEFINE b == prog.base[d]
  <2>1. d \in Classes /\ HasMethod(d, m) /\ ~Right(d) /\ d \in Lineage(d)
    BY <1>1, AboveIs
  <2>2. Entry(d, m).source # d
    <3>1. ASSUME Entry(d, m).source = d
          PROVE  Right(d)
      <4>1. Runs(d, m) = d
        BY <3>1, <2>1, RunsIs
      <4>2. Declares(d, m)
        BY <3>1, <2>1, EntryIs
      <4>3. d \in Visible(d, m) /\ Visible(d, m) \subseteq Lineage(d)
        BY <4>2, <2>1 DEF Visible
      <4> QED
        BY <4>1, <4>3
    <3> QED
      BY <3>1, <2>1
  <2>3. /\ b # NoClass /\ b \in Classes /\ m \notin Private /\ ~Declares(d, m)
        /\ HasMethod(b, m) /\ Runs(d, m) = Runs(b, m)
    BY <2>1, <2>2, EntryIs, RunsIs
  <2>4. Visible(d, m) = Visible(b, m)
    <3>1. Lineage(d) = {d} \cup Lineage(b)
      BY <1>1, <2>1, <2>3, AboveIs DEF Lineage
    <3> QED
      BY <3>1, <2>3 DEF Visible
  <2>5. ~Right(b)
    BY <2>1, <2>3, <2>4
  <2> QED
    BY <1>1, <2>1, <2>3, <2>5
<1>3. Bad = {}
  <2>1. Bad \in SUBSET Classes
    OBVIOUS
  <2> HIDE DEF Bad
  <2> QED
    BY <1>1, <1>2, <2>1, NoneLeft
<1> QED
  BY <1>3

\* The fields of a base lead those of a class.
LEMMA Leading ==
  ASSUME NEW S, NEW s \in Seq(S), NEW t \in Seq(S)
  PROVE  IsPrefix(s, s \o t) /\ IsPrefix(s, s)
BY DEF IsPrefix

LEMMA PrefixIs ==
  ASSUME IInv, phase \in {"call", "structs", "json", "done"},
         NEW c \in Classes, NEW m, HasMethod(c, m)
  PROVE  IsPrefix(fields[Entry(c, m).source], fields[c])
<1>1. /\ prog \in Program /\ fields \in [Classes -> Seq(Fields)] /\ fields[c] = AllFields(c)
      /\ prog.fields[c] \in Seq(Fields)
  BY Acyclic, ProgramFacts DEF Laid
<1>2. CASE Entry(c, m).source = c
  BY <1>1, <1>2, Leading
<1>3. CASE Entry(c, m).source # c
  <2>1. /\ Entry(c, m).source = prog.base[c] /\ prog.base[c] # NoClass /\ prog.base[c] \in Classes
    BY <1>3, EntryIs
  <2>2. fields[c] = fields[prog.base[c]] \o prog.fields[c] /\ fields[prog.base[c]] \in Seq(Fields)
    BY <1>1, <2>1 DEF AllFields, Inherited
  <2> QED
    BY <1>1, <2>1, <2>2, Leading
<1> QED
  BY <1>2, <1>3

\* A method call runs the nearest declaration, and wrappers build the value
\* of the base from the leading fields.
THEOREM Dispatched == Spec => []Dispatch
<1>1. ASSUME IInv, phase \in {"call", "structs", "json", "done"}, NEW c \in Classes, NEW m
      PROVE  /\ HasMethod(c, m) <=> Visible(c, m) # {}
             /\ HasMethod(c, m) =>
                  /\ Runs(c, m) \in Visible(c, m)
                  /\ Visible(c, m) \subseteq Lineage(Runs(c, m))
                  /\ IsPrefix(fields[Entry(c, m).source], fields[c])
  <2>1. HasMethod(c, m) =>
          /\ Runs(c, m) \in Visible(c, m)
          /\ Visible(c, m) \subseteq Lineage(Runs(c, m))
          /\ IsPrefix(fields[Entry(c, m).source], fields[c])
    BY <1>1, RunsNearest, PrefixIs
  <2>2. ASSUME NEW d \in Visible(c, m)
        PROVE  HasMethod(c, m)
    <3>1. d \in Lineage(c) /\ Declares(d, m) /\ (m \notin Private \/ d = c)
      BY DEF Visible
    <3> QED
      BY <3>1, <1>1, DeclaredHas
  <2> QED
    BY <2>1, <2>2
<1>2. IInv => Dispatch
  BY <1>1 DEF Dispatch
<1> QED
  BY <1>2, Inductive, PTL
=============================================================================
