------------------------- MODULE ModuleLoaderProofs -------------------------
(***************************************************************************)
(* LoadedOnce, Resolved, EmissionExact and ImportsFirst hold for any       *)
(* number of files and paths, with any imports: IInv is inductive, and     *)
(* with it Emission and Order.                                             *)
(***************************************************************************)
EXTENDS ModuleLoader, TLAPS, FiniteSetTheorems, FunctionTheorems, WellFoundedInduction

CallType == [path : Path, sym : Symbol \cup {NULL}, alias : BOOLEAN, next : Nat]

\* Files that are there stay as they are.
Keeps == \A q \in visited : q \in visited' /\ body'[q] = body[q]

-----------------------------------------------------------------------------
(***************************************************************************)
(* The stack.                                                              *)
(***************************************************************************)
LEMMA StackFacts ==
  ASSUME IInv
  PROVE  /\ stack \in Seq(CallType) /\ Len(stack) \in Nat /\ DOMAIN stack = 1 .. Len(stack)
         /\ \A k \in DOMAIN stack :
              /\ stack[k].path \in visited /\ stack[k].next \in Nat
              /\ stack[k].next \in 1 .. Len(body[stack[k].path]) + 1
         /\ \A p \in visited : /\ body[p] \in Seq(Statements[p]) /\ Len(body[p]) \in Nat
                               /\ DOMAIN body[p] = 1 .. Len(body[p])
<1>1. stack \in Seq(CallType)
  BY DEF IInv, TypeOK, CallType
<1>2. Len(stack) \in Nat /\ DOMAIN stack = 1 .. Len(stack) /\ \A k \in DOMAIN stack : stack[k] \in CallType
  BY <1>1
<1>3. \A k \in DOMAIN stack : /\ stack[k].path \in visited /\ stack[k].next \in Nat
                              /\ stack[k].next \in 1 .. Len(body[stack[k].path]) + 1
  BY <1>2 DEF IInv, Activations, CallType
<1>4. \A p \in visited : /\ body[p] \in Seq(Statements[p]) /\ Len(body[p]) \in Nat
                         /\ DOMAIN body[p] = 1 .. Len(body[p])
  <2>1. \A p \in visited : body[p] \in Seq(Statements[p])
    BY DEF IInv, TypeOK
  <2> QED
    BY <2>1
<1> QED
  BY <1>1, <1>2, <1>3, <1>4

\* A statement that is being executed.
LEMMA StatementFacts ==
  ASSUME IInv, AtStatement
  PROVE  /\ Len(stack) > 0 /\ Len(stack) \in DOMAIN stack /\ Top = stack[Len(stack)]
         /\ Top \in CallType /\ Top.path \in visited /\ Top.path \in Path /\ status = "loading"
         /\ Top.next \in DOMAIN body[Top.path] /\ Top.next \in Nat
         /\ Current \in Definition \cup Import \cup FromImport
<1>1. /\ stack \in Seq(CallType) /\ Len(stack) \in Nat /\ DOMAIN stack = 1 .. Len(stack)
      /\ stack # << >> /\ status = "loading" /\ Top.next <= Len(body[Top.path])
  BY StackFacts DEF AtStatement, Running
<1>2. Len(stack) > 0 /\ Len(stack) \in DOMAIN stack
  BY <1>1
<1>3. /\ Top = stack[Len(stack)] /\ Top \in CallType /\ Top.path \in visited /\ Top.next \in Nat
      /\ Top.next \in 1 .. Len(body[Top.path]) + 1
  BY <1>1, <1>2, StackFacts DEF Top
<1>4. /\ body[Top.path] \in Seq(Statements[Top.path]) /\ Len(body[Top.path]) \in Nat
      /\ DOMAIN body[Top.path] = 1 .. Len(body[Top.path]) /\ Top.path \in Path
  BY <1>3, StackFacts DEF CallType
<1>5. Top.next \in DOMAIN body[Top.path]
  BY <1>1, <1>3, <1>4
<1>6. Current \in Statements[Top.path]
  BY <1>4, <1>5 DEF Current
<1> QED
  BY <1>1, <1>2, <1>3, <1>4, <1>5, <1>6, BodyAssumption

\* The stack when the activation on top has gone on.
LEMMA AdvancedFacts ==
  ASSUME IInv, AtStatement
  PROVE  /\ Advanced \in Seq(CallType) /\ Len(Advanced) = Len(stack)
         /\ \A k \in 1 .. Len(stack) - 1 : Advanced[k] = stack[k]
         /\ \A k \in 1 .. Len(stack) : /\ Advanced[k].path = stack[k].path
                                       /\ Advanced[k].sym = stack[k].sym
                                       /\ Advanced[k].alias = stack[k].alias
         /\ Advanced[Len(stack)].next = Top.next + 1
<1>1. /\ Len(stack) \in DOMAIN stack /\ Top = stack[Len(stack)] /\ Top \in CallType /\ Top.next \in Nat
      /\ stack \in Seq(CallType) /\ Len(stack) \in Nat /\ DOMAIN stack = 1 .. Len(stack)
  BY StatementFacts, StackFacts
<1> DEFINE n == Len(stack)
           t == [stack[n] EXCEPT !.next = @ + 1]
<1>2. Advanced = [stack EXCEPT ![n] = t]
  BY <1>1 DEF Advanced
<1>3. /\ t \in CallType /\ t.path = stack[n].path /\ t.sym = stack[n].sym /\ t.alias = stack[n].alias
      /\ t.next = Top.next + 1
  BY <1>1 DEF CallType
<1> HIDE DEF t
<1>4. /\ Advanced \in Seq(CallType) /\ Len(Advanced) = Len(stack)
      /\ \A k \in 1 .. n : Advanced[k] = IF k = n THEN t ELSE stack[k]
  BY <1>1, <1>2, <1>3
<1>5. Advanced[n].next = Top.next + 1
  <2>1. n \in 1 .. n
    BY <1>1
  <2>2. Advanced[n] = t
    BY <1>4, <2>1
  <2> QED
    BY <1>3, <2>2
<1>6. \A k \in 1 .. n - 1 : Advanced[k] = stack[k]
  <2>1. \A k \in 1 .. n - 1 : k \in 1 .. n /\ k # n
    BY <1>1
  <2> QED
    BY <1>4, <2>1
<1>7. \A k \in 1 .. n : /\ Advanced[k].path = stack[k].path
                        /\ Advanced[k].sym = stack[k].sym
                        /\ Advanced[k].alias = stack[k].alias
  BY <1>3, <1>4
<1> QED
  BY <1>4, <1>5, <1>6, <1>7

-----------------------------------------------------------------------------
(***************************************************************************)
(* What is true of a file stays true of it.                                *)
(***************************************************************************)

\* Files that are unchanged hold what they held.
LEMMA KeptFacts ==
  ASSUME IInv, Keeps, NEW p \in visited
  PROVE  /\ p \in visited' /\ body'[p] = body[p] /\ DOMAIN body'[p] = DOMAIN body[p]
         /\ Len(body'[p]) = Len(body[p])
BY DEF Keeps

\* A statement that is no longer ahead, but for one position of the top.
LEMMA AheadMoved ==
  ASSUME IInv, AtStatement, NEW p, NEW n \in Nat, Ahead(p, n), ~(p = Top.path /\ n = Top.next),
         DOMAIN stack \subseteq DOMAIN stack',
         \A k \in 1 .. Len(stack) : stack'[k] = Advanced[k]
  PROVE  Ahead(p, n)'
<1>1. PICK k \in DOMAIN stack : stack[k].path = p /\ n >= stack[k].next
  BY DEF Ahead
<1>2. /\ Len(stack) \in Nat /\ DOMAIN stack = 1 .. Len(stack) /\ Top = stack[Len(stack)]
      /\ Top.next \in Nat
  BY StackFacts, StatementFacts
<1>3. k \in DOMAIN stack' /\ stack'[k].path = p
  BY <1>1, <1>2, AdvancedFacts
<1>4. n >= stack'[k].next
  <2>1. CASE k = Len(stack)
    BY <1>1, <1>2, <2>1, AdvancedFacts
  <2>2. CASE k # Len(stack)
    BY <1>1, <1>2, <2>2, AdvancedFacts
  <2> QED
    BY <2>1, <2>2
<1> QED
  BY <1>3, <1>4 DEF Ahead

\* A selection that is under way stays so below the top.
LEMMA UnderWayKept ==
  ASSUME IInv, AtStatement, NEW p, NEW n, UnderWay(p, n), stack' \in Seq(CallType),
         Len(stack') >= Len(stack), \A k \in 1 .. Len(stack) : stack'[k] = Advanced[k]
  PROVE  UnderWay(p, n)'
<1>1. PICK k \in DOMAIN stack : k < Len(stack) /\ stack[k].path = p /\ n = stack[k].next - 1
  BY DEF UnderWay
<1>2. Len(stack) \in Nat /\ DOMAIN stack = 1 .. Len(stack)
      /\ DOMAIN stack' = 1 .. Len(stack') /\ Len(stack') \in Nat
  BY StackFacts
<1>3. stack'[k] = stack[k] /\ k \in DOMAIN stack' /\ k < Len(stack')
  BY <1>1, <1>2, AdvancedFacts
<1> QED
  BY <1>1, <1>3 DEF UnderWay

\* Executed, when only the statement at the top is executed.
LEMMA ExecutedKept ==
  ASSUME IInv, AtStatement, Keeps, stack' \in Seq(CallType), Len(stack') >= Len(stack),
         \A k \in 1 .. Len(stack) : stack'[k] = Advanced[k],
         NEW p \in visited, NEW n \in DOMAIN body[p], IsImport(body[p][n]),
         p = Top.path /\ n = Top.next => Handled(p, n)'
  PROVE  Ahead(p, n)' \/ Handled(p, n)'
<1>1. /\ Len(stack) \in Nat /\ DOMAIN stack = 1 .. Len(stack) /\ n \in Nat
      /\ DOMAIN stack' = 1 .. Len(stack') /\ Len(stack') \in Nat
  BY StackFacts
<1>2. body'[p][n] = body[p][n]
  BY KeptFacts
<1>3. Ahead(p, n) \/ Handled(p, n)
  BY StatementFacts DEF IInv, Executed
<1>4. CASE Ahead(p, n) /\ ~(p = Top.path /\ n = Top.next)
  BY <1>1, <1>4, AheadMoved
<1>5. CASE Handled(p, n)
  <2>1. body[p][n].of \in visited'
    BY <1>5 DEF Handled, Keeps
  <2>2. body[p][n].op = "from" => Found(body[p][n])' \/ UnderWay(p, n)'
    <3> SUFFICES ASSUME body[p][n].op = "from"
                 PROVE  Found(body[p][n])' \/ UnderWay(p, n)'
      OBVIOUS
    <3>1. CASE UnderWay(p, n)
      BY <3>1, UnderWayKept
    <3>2. CASE Found(body[p][n])
      <4> DEFINE s == body[p][n]
      <4>1. s.of \in visited /\ body'[p][n] = s
        BY <1>2, <1>5 DEF Handled
      <4>2. Found(s)
        BY <3>2
      <4>3. \A q \in visited : body'[q] = body[q]
        BY DEF Keeps
      <4>4. body'[s.of] = body[s.of]
        BY <4>1, <4>3
      <4>5. Exports(s.of, s.sym)' = Exports(s.of, s.sym)
        BY <4>1, <4>4 DEF Exports, Defined, IsImport
      <4> QED
        BY <4>1, <4>2, <4>4, <4>5 DEF Found
    <3> QED
      BY <1>5, <3>1, <3>2 DEF Handled
  <2> QED
    BY <1>2, <2>1, <2>2 DEF Handled
<1> QED
  BY <1>3, <1>4, <1>5

-----------------------------------------------------------------------------
(***************************************************************************)
(* A file that is visited.                                                 *)
(***************************************************************************)
LEMMA BodiesAreSequences ==
  ASSUME NEW p \in Path, NEW b \in Bodies(p)
  PROVE  b \in Seq(Statements[p])
<1>1. PICK n \in 0 .. MaxBody[p] : b \in [1 .. n -> Statements[p]]
  BY DEF Bodies
<1>2. n \in Nat
  BY <1>1, BodyAssumption
<1> QED
  BY <1>1, <1>2

LEMMA VisitFacts ==
  ASSUME IInv, NEW p \in Path, p \notin visited, Visit(p)
  PROVE  /\ Keeps /\ visited' = visited \cup {p} /\ visited' \subseteq Path
         /\ DOMAIN body' = visited'
         /\ \A q \in visited' : body'[q] \in Seq(Statements[q])
         /\ modules' \in Seq(Path) /\ Recorded'
<1>1. /\ visited \subseteq Path /\ DOMAIN body = visited /\ modules \in Seq(Path) /\ Recorded
      /\ \A q \in visited : body[q] \in Seq(Statements[q])
  BY DEF IInv, TypeOK
<1>2. /\ visited' = visited \cup {p} /\ modules' = Append(modules, p)
  BY DEF Visit
<1>3. PICK b \in Bodies(p) : body' = [q \in visited' |-> IF q = p THEN b ELSE body[q]]
  BY DEF Visit
<1>4. b \in Seq(Statements[p])
  BY <1>3, BodiesAreSequences
<1>5. /\ DOMAIN body' = visited' /\ \A q \in visited : body'[q] = body[q]
      /\ body'[p] = b
  BY <1>2, <1>3
<1>6. Keeps /\ visited' \subseteq Path /\ \A q \in visited' : body'[q] \in Seq(Statements[q])
  BY <1>1, <1>2, <1>4, <1>5 DEF Keeps
<1>7. /\ modules' \in Seq(Path) /\ DOMAIN modules' = 1 .. Len(modules) + 1 /\ Len(modules) \in Nat
      /\ DOMAIN modules = 1 .. Len(modules)
      /\ \A i \in 1 .. Len(modules) : modules'[i] = modules[i]
      /\ modules'[Len(modules) + 1] = p
  BY <1>1, <1>2
<1>8. Recorded'
  <2>1. \A i \in DOMAIN modules : modules[i] # p
    BY <1>1 DEF Recorded
  <2>2. \A i, j \in DOMAIN modules' : modules'[i] = modules'[j] => i = j
    <3> SUFFICES ASSUME NEW i \in DOMAIN modules', NEW j \in DOMAIN modules', modules'[i] = modules'[j]
                 PROVE  i = j
      OBVIOUS
    <3>1. /\ i \in DOMAIN modules \/ i = Len(modules) + 1
          /\ j \in DOMAIN modules \/ j = Len(modules) + 1
      BY <1>7
    <3> QED
      BY <1>1, <1>7, <2>1, <3>1 DEF Recorded
  <2>3. {modules'[i] : i \in DOMAIN modules'} = visited'
    <3>1. {modules[i] : i \in DOMAIN modules} = visited
      BY <1>1 DEF Recorded
    <3>2. DOMAIN modules' = DOMAIN modules \cup {Len(modules) + 1}
      BY <1>7
    <3>3. \A i \in DOMAIN modules : modules'[i] = modules[i]
      BY <1>7
    <3> QED
      BY <1>2, <1>7, <3>1, <3>2, <3>3
  <2> QED
    BY <2>2, <2>3 DEF Recorded
<1> QED
  BY <1>2, <1>5, <1>6, <1>7, <1>8

-----------------------------------------------------------------------------
(***************************************************************************)
(* A statement without a call: a definition, or the import of a visited    *)
(* file.                                                                   *)
(***************************************************************************)
LEMMA AdvanceStep ==
  ASSUME IInv, AtStatement, stack' = Advanced, UNCHANGED <<body, visited, modules, status>>,
         IsImport(Current) => Current.op = "import" /\ Current.of \in visited
  PROVE  IInv'
<1>1. /\ stack \in Seq(CallType) /\ Len(stack) \in Nat /\ DOMAIN stack = 1 .. Len(stack)
      /\ Len(stack) > 0 /\ Top = stack[Len(stack)] /\ Top.path \in visited /\ Top.next \in Nat
      /\ Top.next \in 1 .. Len(body[Top.path]) /\ Len(body[Top.path]) \in Nat /\ status = "loading"
  BY StatementFacts, StackFacts
<1>2. /\ stack' \in Seq(CallType) /\ Len(stack') = Len(stack) /\ DOMAIN stack' = DOMAIN stack
      /\ \A k \in DOMAIN stack : /\ stack'[k].path = stack[k].path /\ stack'[k].sym = stack[k].sym
                                 /\ stack'[k].alias = stack[k].alias
      /\ \A k \in DOMAIN stack : k # Len(stack) => stack'[k] = stack[k]
      /\ stack'[Len(stack)].next = Top.next + 1
  <2>1. /\ Advanced \in Seq(CallType) /\ Len(Advanced) = Len(stack)
        /\ Advanced[Len(stack)].next = Top.next + 1
        /\ \A k \in 1 .. Len(stack) - 1 : Advanced[k] = stack[k]
    BY AdvancedFacts
  <2>2. DOMAIN stack' = DOMAIN stack
    BY <1>1, <2>1
  <2>3. \A k \in DOMAIN stack : k # Len(stack) => stack'[k] = stack[k]
    BY <1>1, <2>1
  <2> QED
    BY <1>1, <2>1, <2>2, <2>3, AdvancedFacts
<1>3. Keeps /\ body' = body /\ visited' = visited /\ modules' = modules /\ status' = status
  BY DEF Keeps
<1>4. TypeOK'
  BY <1>2, <1>3 DEF IInv, TypeOK, CallType
<1>5. Recorded'
  BY <1>3 DEF IInv, Recorded
<1>6. Activations'
  <2>1. \A k \in DOMAIN stack' : /\ stack'[k].path \in visited'
                                 /\ stack'[k].next \in 1 .. Len(body'[stack'[k].path]) + 1
    <3> SUFFICES ASSUME NEW k \in DOMAIN stack
                 PROVE  /\ stack'[k].path \in visited
                        /\ stack'[k].next \in 1 .. Len(body[stack'[k].path]) + 1
      BY <1>2, <1>3
    <3>1. CASE k = Len(stack)
      BY <1>1, <1>2, <3>1
    <3>2. CASE k # Len(stack)
      BY <1>2, <3>2, StackFacts
    <3> QED
      BY <3>1, <3>2
  <2>2. ASSUME NEW j \in DOMAIN stack', NEW k \in DOMAIN stack', j < k, stack'[j].path = stack'[k].path
        PROVE  k = Len(stack') /\ Selecting(k)'
    <3>1. j \in DOMAIN stack /\ k \in DOMAIN stack /\ stack[j].path = stack[k].path
      BY <1>2, <2>2
    <3>2. k = Len(stack) /\ Selecting(k)
      BY <2>2, <3>1 DEF IInv, Activations
    <3> QED
      BY <1>1, <3>2 DEF Selecting
  <2> QED
    BY <2>1, <2>2 DEF Activations
<1>7. Callers'
  <2>1. stack' # << >> => stack'[1].sym = NULL
    <3>1. stack # << >> /\ 1 \in DOMAIN stack
      BY <1>1
    <3> QED
      BY <1>2, <3>1 DEF IInv, Callers
  <2>2. ASSUME NEW k \in DOMAIN stack', k > 1
        PROVE  LET c == stack'[k - 1]
               IN c.next > 1 /\ Works(stack'[k], body'[c.path][c.next - 1])
    <3>1. k - 1 \in DOMAIN stack /\ k - 1 # Len(stack) /\ k \in DOMAIN stack
      BY <1>1, <1>2, <2>2
    <3>2. stack'[k - 1] = stack[k - 1]
      BY <1>2, <3>1
    <3>3. stack[k - 1].next > 1 /\ Works(stack[k], body[stack[k - 1].path][stack[k - 1].next - 1])
      BY <2>2, <3>1 DEF IInv, Callers
    <3>4. /\ stack'[k].path = stack[k].path /\ stack'[k].sym = stack[k].sym
          /\ stack'[k].alias = stack[k].alias
      BY <1>2, <3>1
    <3> QED
      BY <1>3, <3>2, <3>3, <3>4 DEF Works
  <2> QED
    BY <2>1, <2>2 DEF Callers
<1>8. Executed'
  <2>1. ASSUME NEW p \in visited, NEW n \in DOMAIN body[p], IsImport(body[p][n])
        PROVE  Ahead(p, n)' \/ Handled(p, n)'
    <3>1. p = Top.path /\ n = Top.next => Handled(p, n)'
      BY <1>3, <2>1 DEF Current, Handled
    <3>2. Len(stack') >= Len(stack) /\ \A k \in 1 .. Len(stack) : stack'[k] = Advanced[k]
      BY <1>1, <1>2
    <3> QED
      BY <1>2, <1>3, <2>1, <3>1, <3>2, ExecutedKept
  <2> QED
    BY <1>3, <2>1 DEF Executed
<1>9. Outcome'
  BY <1>1, <1>3 DEF Outcome
<1> QED
  BY <1>4, <1>5, <1>6, <1>7, <1>8, <1>9 DEF IInv

(***************************************************************************)
(* A statement that calls: the import of a new file, or a from import.     *)
(***************************************************************************)
LEMMA PushStep ==
  ASSUME IInv, AtStatement, IsImport(Current), UNCHANGED status,
         NEW c \in CallType, Works(c, Current), stack' = Append(Advanced, c),
         Keeps, visited' = visited \cup {c.path}, visited' \subseteq Path, DOMAIN body' = visited',
         \A q \in visited' : body'[q] \in Seq(Statements[q]), modules' \in Seq(Path), Recorded',
         c.path \in visited => c.sym # NULL /\ c.next = Len(body[c.path]) + 1,
         c.path \notin visited => c.next = 1
  PROVE  IInv'
<1> DEFINE L == Len(stack)
<1>1. /\ stack \in Seq(CallType) /\ L \in Nat /\ DOMAIN stack = 1 .. L
      /\ L > 0 /\ Top = stack[L] /\ Top.path \in visited /\ Top.next \in Nat
      /\ Top.next \in 1 .. Len(body[Top.path]) /\ Len(body[Top.path]) \in Nat /\ status = "loading"
  BY StatementFacts, StackFacts
<1>2. /\ stack' \in Seq(CallType) /\ Len(stack') = L + 1 /\ DOMAIN stack' = 1 .. L + 1
      /\ stack'[L + 1] = c /\ \A k \in 1 .. L : stack'[k] = Advanced[k]
  <2>1. Advanced \in Seq(CallType) /\ Len(Advanced) = L
    BY AdvancedFacts
  <2> QED
    BY <1>1, <2>1
<1>3. /\ \A k \in 1 .. L : /\ stack'[k].path = stack[k].path /\ stack'[k].sym = stack[k].sym
                           /\ stack'[k].alias = stack[k].alias
      /\ \A k \in 1 .. L : k # L => stack'[k] = stack[k]
      /\ stack'[L].next = Top.next + 1
  <2>1. /\ \A k \in 1 .. L - 1 : Advanced[k] = stack[k]
        /\ \A k \in 1 .. L : /\ Advanced[k].path = stack[k].path /\ Advanced[k].sym = stack[k].sym
                             /\ Advanced[k].alias = stack[k].alias
        /\ Advanced[L].next = Top.next + 1
    BY AdvancedFacts
  <2> HIDE DEF L
  <2>2. \A k \in 1 .. L : k # L => k \in 1 .. L - 1
    BY <1>1
  <2>3. L \in 1 .. L
    BY <1>1
  <2> QED
    BY <1>2, <2>1, <2>2, <2>3
<1> HIDE DEF L
<1>4. \A q \in visited : /\ q \in visited' /\ body'[q] = body[q] /\ Len(body'[q]) = Len(body[q])
                         /\ DOMAIN body'[q] = DOMAIN body[q]
  BY KeptFacts
<1>5. TypeOK'
  BY <1>1, <1>2 DEF TypeOK, CallType
<1>6. Activations'
  <2>1. \A k \in DOMAIN stack' : /\ stack'[k].path \in visited'
                                 /\ stack'[k].next \in 1 .. Len(body'[stack'[k].path]) + 1
    <3> SUFFICES ASSUME NEW k \in 1 .. L + 1
                 PROVE  /\ stack'[k].path \in visited'
                        /\ stack'[k].next \in 1 .. Len(body'[stack'[k].path]) + 1
      BY <1>2
    <3>1. CASE k = L + 1
      <4>1. c.path \in visited' /\ Len(body'[c.path]) \in Nat
        OBVIOUS
      <4>2. c.path \in visited => Len(body'[c.path]) = Len(body[c.path])
        BY <1>4
      <4>3. c.next \in 1 .. Len(body'[c.path]) + 1
        BY <4>1, <4>2
      <4> QED
        BY <1>2, <3>1, <4>1, <4>3
    <3>2. CASE k = L
      <4>1. L \in 1 .. L
        BY <1>1
      <4>2. stack'[L].path = Top.path /\ stack'[L].next = Top.next + 1
        BY <1>1, <1>3, <4>1
      <4>3. Top.path \in visited' /\ Len(body'[Top.path]) = Len(body[Top.path])
        BY <1>1, <1>4
      <4>4. Top.next + 1 \in 1 .. Len(body[Top.path]) + 1
        BY <1>1
      <4> QED
        BY <3>2, <4>2, <4>3, <4>4
    <3>3. CASE k # L /\ k # L + 1
      <4>1. k \in 1 .. L /\ k \in DOMAIN stack
        BY <1>1, <3>3
      <4>2. stack'[k] = stack[k] /\ stack[k].path \in visited
        BY <1>3, <3>3, <4>1, StackFacts
      <4>3. stack[k].next \in 1 .. Len(body[stack[k].path]) + 1
        BY <4>1, StackFacts
      <4> QED
        BY <1>4, <4>2, <4>3
    <3> QED
      BY <3>1, <3>2, <3>3
  <2>2. ASSUME NEW j \in DOMAIN stack', NEW k \in DOMAIN stack', j < k, stack'[j].path = stack'[k].path
        PROVE  k = Len(stack') /\ Selecting(k)'
    <3>1. j \in 1 .. L /\ (k \in 1 .. L \/ k = L + 1)
      BY <1>1, <1>2, <2>2
    <3>2. CASE k \in 1 .. L
      <4>1. j \in DOMAIN stack /\ k \in DOMAIN stack /\ stack[j].path = stack[k].path
        BY <1>1, <1>3, <2>2, <3>1, <3>2
      <4>2. k = L /\ Selecting(k)
        BY <2>2, <4>1 DEF IInv, Activations, L
      <4>3. Top.next = Len(body[Top.path]) + 1
        BY <1>1, <4>2 DEF Selecting
      <4> QED
        BY <1>1, <4>3
    <3>3. CASE k = L + 1
      <4>1. stack'[k] = c /\ c.path = stack[j].path /\ j \in DOMAIN stack
        BY <1>1, <1>2, <1>3, <2>2, <3>1, <3>3
      <4>2. c.path \in visited
        BY <4>1, StackFacts
      <4>3. c.sym # NULL /\ c.next = Len(body'[c.path]) + 1
        BY <1>4, <4>2
      <4> QED
        BY <1>2, <3>3, <4>1, <4>3 DEF Selecting
    <3> QED
      BY <3>1, <3>2, <3>3
  <2> QED
    BY <2>1, <2>2 DEF Activations
<1>7. Callers'
  <2>1. stack' # << >> => stack'[1].sym = NULL
    <3>1. stack # << >> /\ 1 \in 1 .. L
      BY <1>1
    <3> QED
      BY <1>3, <3>1 DEF IInv, Callers
  <2>2. ASSUME NEW k \in DOMAIN stack', k > 1
        PROVE  LET d == stack'[k - 1]
               IN d.next > 1 /\ Works(stack'[k], body'[d.path][d.next - 1])
    <3>1. CASE k = L + 1
      <4>1. stack'[k] = c /\ k - 1 = L /\ L \in 1 .. L
        BY <1>1, <1>2, <3>1
      <4>2. stack'[L].next = Top.next + 1 /\ stack'[L].path = Top.path
        BY <1>1, <1>3, <4>1
      <4>3. body'[Top.path][Top.next] = Current
        BY <1>1, <1>4 DEF Current
      <4>4. \A l \in Nat : \A m : m = l + 1 /\ l > 0 => m > 1 /\ m - 1 = l
        OBVIOUS
      <4>5. Top.next \in Nat /\ Top.next > 0
        BY <1>1
      <4>6. stack'[L].next > 1 /\ stack'[L].next - 1 = Top.next
        BY <4>2, <4>4, <4>5
      <4>7. Works(stack'[k], body'[stack'[L].path][stack'[L].next - 1])
        BY <4>1, <4>2, <4>3, <4>6
      <4> QED
        BY <4>1, <4>6, <4>7
    <3>2. CASE k # L + 1
      <4>1. k - 1 \in 1 .. L /\ k - 1 # L /\ k \in 1 .. L /\ k \in DOMAIN stack /\ k - 1 \in DOMAIN stack
        BY <1>1, <1>2, <2>2, <3>2
      <4>2. stack'[k - 1] = stack[k - 1]
        BY <1>3, <4>1
      <4>3. stack[k - 1].next > 1 /\ Works(stack[k], body[stack[k - 1].path][stack[k - 1].next - 1])
        BY <2>2, <4>1 DEF IInv, Callers
      <4>4. /\ stack'[k].path = stack[k].path /\ stack'[k].sym = stack[k].sym
            /\ stack'[k].alias = stack[k].alias
        BY <1>3, <4>1
      <4>5. body'[stack[k - 1].path] = body[stack[k - 1].path]
        BY <1>4, <4>1, StackFacts
      <4> QED
        BY <4>2, <4>3, <4>4, <4>5 DEF Works
    <3> QED
      BY <3>1, <3>2
  <2> QED
    BY <2>1, <2>2 DEF Callers
<1>8. Executed'
  <2>1. ASSUME NEW p \in visited, NEW n \in DOMAIN body[p], IsImport(body[p][n])
        PROVE  Ahead(p, n)' \/ Handled(p, n)'
    <3>1. ASSUME p = Top.path, n = Top.next
          PROVE  Handled(p, n)'
      <4>1. body'[p][n] = Current /\ Current.of \in visited'
        BY <1>4, <3>1 DEF Current, Works
      <4>2. UnderWay(p, n)'
        <5>1. L \in DOMAIN stack' /\ L < Len(stack') /\ L \in 1 .. L
          BY <1>1, <1>2
        <5>2. stack'[L].path = p /\ stack'[L].next = n + 1
          BY <1>1, <1>3, <3>1, <5>1
        <5>3. n = stack'[L].next - 1
          BY <1>1, <3>1, <5>2
        <5> QED
          BY <5>1, <5>2, <5>3 DEF UnderWay
      <4> QED
        BY <4>1, <4>2 DEF Handled
    <3>2. Len(stack') >= Len(stack) /\ \A k \in 1 .. Len(stack) : stack'[k] = Advanced[k]
      BY <1>1, <1>2 DEF L
    <3> QED
      BY <1>2, <2>1, <3>1, <3>2, ExecutedKept
  <2>2. ASSUME c.path \notin visited, NEW n \in DOMAIN body'[c.path]
        PROVE  Ahead(c.path, n)'
    <3>1. L + 1 \in DOMAIN stack' /\ stack'[L + 1] = c /\ c.next = 1
      BY <1>1, <1>2, <2>2
    <3>2. n \in Nat /\ n >= 1
      <4>1. body'[c.path] \in Seq(Statements[c.path])
        OBVIOUS
      <4> QED
        BY <2>2, <4>1
    <3> QED
      BY <3>1, <3>2 DEF Ahead
  <2>3. ASSUME NEW p \in visited', NEW n \in DOMAIN body'[p], IsImport(body'[p][n])
        PROVE  Ahead(p, n)' \/ Handled(p, n)'
    <3>1. CASE p \in visited
      <4>1. n \in DOMAIN body[p] /\ IsImport(body[p][n])
        BY <1>4, <2>3, <3>1 DEF IsImport
      <4> QED
        BY <2>1, <3>1, <4>1
    <3>2. CASE p \notin visited
      BY <2>2, <2>3, <3>2
    <3> QED
      BY <3>1, <3>2
  <2> QED
    BY <2>3 DEF Executed, IsImport
<1>9. Outcome'
  BY <1>1 DEF Outcome
<1> QED
  BY <1>5, <1>6, <1>7, <1>8, <1>9 DEF IInv

(***************************************************************************)
(* The end of a call.                                                      *)
(***************************************************************************)

\* The import the activation on top works for.
LEMMA CallerFacts ==
  ASSUME IInv, stack # << >>, Top.sym # NULL
  PROVE  /\ Len(stack) > 1 /\ Len(stack) - 1 \in DOMAIN stack
         /\ LET c == stack[Len(stack) - 1]
            IN /\ c.path \in visited /\ c.next > 1 /\ c.next - 1 \in DOMAIN body[c.path]
               /\ body[c.path][c.next - 1].op = "from"
               /\ body[c.path][c.next - 1].of = Top.path
               /\ body[c.path][c.next - 1].sym = Top.sym
               /\ body[c.path][c.next - 1].alias = Top.alias
<1> DEFINE L == Len(stack)
<1>1. L \in Nat /\ DOMAIN stack = 1 .. L /\ stack \in Seq(CallType) /\ Top = stack[L]
  BY StackFacts DEF Top
<1>2. L # 0 /\ L # 1
  BY <1>1 DEF IInv, Callers
<1> HIDE DEF L
<1>3. L > 1 /\ L \in DOMAIN stack /\ L - 1 \in DOMAIN stack
  BY <1>1, <1>2
<1> DEFINE c == stack[L - 1]
<1>4. c.next > 1 /\ Works(stack[L], body[c.path][c.next - 1])
  BY <1>3 DEF IInv, Callers
<1>5. c.path \in visited /\ c.next \in Nat /\ c.next \in 1 .. Len(body[c.path]) + 1
  BY <1>3, StackFacts
<1>6. Len(body[c.path]) \in Nat /\ DOMAIN body[c.path] = 1 .. Len(body[c.path])
  BY <1>5, StackFacts
<1> HIDE DEF c
<1>7. c.next - 1 \in DOMAIN body[c.path]
  BY <1>4, <1>5, <1>6
<1> DEFINE s == body[c.path][c.next - 1]
<1>8. s.op = "from" /\ s.of = Top.path /\ s.sym = Top.sym /\ s.alias = Top.alias
  BY <1>1, <1>4 DEF Works
<1> QED
  BY <1>3, <1>4, <1>5, <1>7, <1>8 DEF L, c

\* The status when a call ends, by what its selection found.
Returned ==
  /\ status' \in {"loading", "loaded", "no export", "alias target"}
  /\ status' = "loaded" => Len(stack) = 1
  /\ status' \in {"loading", "loaded"} =>
       (Top.sym # NULL =>
          /\ Exports(Top.path, Top.sym) # {}
          /\ Top.alias => \A k \in Exports(Top.path, Top.sym) : body[Top.path][k].op # "value")
  /\ status' = "no export" => Top.sym # NULL /\ Exports(Top.path, Top.sym) = {}
  /\ status' = "alias target" =>
       /\ Top.sym # NULL /\ Top.alias
       /\ \E k \in Exports(Top.path, Top.sym) : body[Top.path][k].op = "value"

LEMMA PopStep ==
  ASSUME IInv, AtEnd, stack' = Popped, UNCHANGED <<body, visited, modules>>, Returned
  PROVE  IInv'
<1> DEFINE L == Len(stack)
<1>1. /\ stack \in Seq(CallType) /\ L \in Nat /\ DOMAIN stack = 1 .. L /\ L > 0 /\ stack # << >>
      /\ Top = stack[L] /\ status = "loading"
  <2>1. stack \in Seq(CallType) /\ L \in Nat /\ DOMAIN stack = 1 .. L
    BY StackFacts
  <2>2. stack # << >> /\ Top = stack[L] /\ status = "loading"
    BY DEF AtEnd, Running, Top
  <2> QED
    BY <2>1, <2>2
<1>2. /\ stack' \in Seq(CallType) /\ Len(stack') = L - 1 /\ DOMAIN stack' = 1 .. L - 1
      /\ \A k \in 1 .. L - 1 : stack'[k] = stack[k]
  <2>1. L - 1 \in Nat /\ L - 1 <= Len(stack)
    BY <1>1
  <2>2. stack' = SubSeq(stack, 1, L - 1)
    BY DEF Popped
  <2> QED
    BY <1>1, <2>1, <2>2
<1>3. L \in DOMAIN stack /\ Top.path \in visited /\ Top.next > Len(body[Top.path]) /\ Top.next \in Nat
      /\ Len(body[Top.path]) \in Nat
  <2>1. L \in DOMAIN stack
    BY <1>1
  <2>2. Top.path \in visited /\ Top.next \in Nat
    BY <1>1, <2>1, StackFacts
  <2> QED
    BY <2>1, <2>2, StackFacts DEF AtEnd
<1> HIDE DEF L
<1>4. body' = body /\ visited' = visited /\ modules' = modules
  OBVIOUS
<1>5. \A k \in DOMAIN stack' : k \in DOMAIN stack /\ k # L /\ k < L /\ stack'[k] = stack[k]
  <2>1. \A k \in 1 .. L - 1 : k \in 1 .. L /\ k # L /\ k < L
    BY <1>1
  <2> QED
    BY <1>1, <1>2, <2>1
<1>6. TypeOK'
  BY <1>2, <1>4 DEF IInv, TypeOK, CallType, Returned
<1>7. Recorded'
  BY <1>4 DEF IInv, Recorded
<1>8. Activations'
  <2>1. \A k \in DOMAIN stack' : /\ stack'[k].path \in visited'
                                 /\ stack'[k].next \in 1 .. Len(body'[stack'[k].path]) + 1
    BY <1>4, <1>5, StackFacts
  <2>2. ASSUME NEW j \in DOMAIN stack', NEW k \in DOMAIN stack', j < k, stack'[j].path = stack'[k].path
        PROVE  FALSE
    <3>1. k = L
      BY <1>5, <2>2 DEF IInv, Activations, L
    <3> QED
      BY <1>5, <3>1
  <2> QED
    BY <2>1, <2>2 DEF Activations
<1>9. Callers'
  <2>1. stack' # << >> => stack'[1].sym = NULL
    <3> SUFFICES ASSUME stack' # << >>
                 PROVE  stack'[1].sym = NULL
      OBVIOUS
    <3>1. 1 \in DOMAIN stack'
      <4>1. Len(stack') # 0 /\ Len(stack') \in Nat /\ DOMAIN stack' = 1 .. Len(stack')
        BY <1>2
      <4> QED
        BY <4>1
    <3> QED
      BY <1>1, <1>5, <3>1 DEF IInv, Callers
  <2>2. ASSUME NEW k \in DOMAIN stack', k > 1
        PROVE  LET d == stack'[k - 1]
               IN d.next > 1 /\ Works(stack'[k], body'[d.path][d.next - 1])
    <3>1. k - 1 \in DOMAIN stack' /\ k \in DOMAIN stack
      <4>1. k \in 1 .. L - 1
        BY <1>2, <2>2
      <4>2. k - 1 \in 1 .. L - 1
        BY <1>1, <2>2, <4>1
      <4> QED
        BY <1>2, <1>5, <4>2
    <3>2. stack[k - 1].next > 1 /\ Works(stack[k], body[stack[k - 1].path][stack[k - 1].next - 1])
      BY <2>2, <3>1 DEF IInv, Callers
    <3> QED
      BY <1>4, <1>5, <3>1, <3>2
  <2> QED
    BY <2>1, <2>2 DEF Callers
<1>10. Executed'
  <2>1. ASSUME status' \in {"loading", "loaded"},
               NEW p \in visited, NEW n \in DOMAIN body[p], IsImport(body[p][n])
        PROVE  Ahead(p, n)' \/ Handled(p, n)'
    <3>0. n \in Nat /\ n <= Len(body[p]) /\ Len(body[p]) \in Nat
      <4>1. Len(body[p]) \in Nat /\ DOMAIN body[p] = 1 .. Len(body[p])
        BY StackFacts
      <4> QED
        BY <2>1, <4>1
    <3>1. Ahead(p, n) \/ Handled(p, n)
      BY <1>1, <2>1 DEF IInv, Executed
    <3>2. CASE Ahead(p, n)
      <4>1. PICK k \in DOMAIN stack : stack[k].path = p /\ n >= stack[k].next
        BY <3>2 DEF Ahead
      <4>2. k # L
        <5>1. ASSUME k = L
              PROVE  p = Top.path /\ n >= Top.next
          BY <1>1, <4>1, <5>1
        <5> QED
          BY <1>3, <3>0, <5>1
      <4>3. k \in DOMAIN stack'
        <5>1. k \in 1 .. L
          BY <1>1
        <5>2. k \in 1 .. L - 1
          BY <1>1, <4>2, <5>1
        <5> QED
          BY <1>2, <5>2
      <4> QED
        BY <1>5, <4>1, <4>3 DEF Ahead
    <3>3. CASE Handled(p, n)
      <4>1. body[p][n].of \in visited
        BY <3>3 DEF Handled
      <4>2. ASSUME body[p][n].op = "from"
            PROVE  Found(body[p][n]) \/ UnderWay(p, n)'
        <5>1. CASE Found(body[p][n])
          BY <5>1
        <5>2. CASE UnderWay(p, n)
          <6>1. PICK k \in DOMAIN stack : k < L /\ stack[k].path = p /\ n = stack[k].next - 1
            BY <5>2 DEF UnderWay, L
          <6>2. CASE k = L - 1
            <7>1. L > 1 /\ L \in DOMAIN stack
              <8>1. k \in 1 .. L
                BY <1>1
              <8> QED
                BY <1>1, <6>2, <8>1
            <7>2. Works(Top, body[p][n])
              BY <1>1, <6>1, <6>2, <7>1 DEF IInv, Callers
            <7>3. /\ body[p][n].of = Top.path /\ body[p][n].sym = Top.sym
                  /\ body[p][n].alias = Top.alias
              BY <4>2, <7>2 DEF Works
            <7>4. Top.sym # NULL
              <8>1. body[p][n] \in Definition \cup Import \cup FromImport
                <9>1. p \in Path /\ body[p] \in Seq(Statements[p])
                  BY DEF IInv, TypeOK
                <9>2. body[p][n] \in Statements[p]
                  BY <2>1, <9>1
                <9> QED
                  BY <9>1, <9>2, BodyAssumption
              <8>2. body[p][n].sym \in Symbol
                BY <4>2, <8>1 DEF Definition, Kind, Import, FromImport
              <8> QED
                BY <7>3, <8>2, PathAssumption
            <7> QED
              BY <2>1, <7>3, <7>4 DEF Found, Returned
          <6>3. CASE k # L - 1
            <7>1. k \in DOMAIN stack' /\ k < Len(stack')
              <8>1. k \in 1 .. L
                BY <1>1
              <8>2. k \in 1 .. L - 1 /\ k < L - 1
                BY <1>1, <6>1, <6>3, <8>1
              <8> QED
                BY <1>2, <8>2
            <7> QED
              BY <1>5, <6>1, <7>1 DEF UnderWay
          <6> QED
            BY <6>2, <6>3
        <5> QED
          BY <3>3, <4>2, <5>1, <5>2 DEF Handled
      <4>3. Found(body[p][n])' <=> Found(body[p][n])
        BY <1>4 DEF Found, Exports, Defined, IsImport
      <4> QED
        BY <1>4, <4>1, <4>2, <4>3 DEF Handled
    <3> QED
      BY <3>1, <3>2, <3>3
  <2> QED
    BY <1>4, <2>1 DEF Executed, IsImport
<1>11. Outcome'
  <2>1. status' = "loaded" => stack' = << >>
    BY <1>1, <1>2 DEF L, Returned
  <2>2. ASSUME status' \in {"no export", "alias target"}
        PROVE  \E p \in visited : \E n \in DOMAIN body[p] : Refused(body[p][n], status')
    <3> DEFINE c == stack[L - 1]
    <3>1. /\ c.path \in visited /\ c.next - 1 \in DOMAIN body[c.path]
          /\ body[c.path][c.next - 1].op = "from"
          /\ body[c.path][c.next - 1].of = Top.path
          /\ body[c.path][c.next - 1].sym = Top.sym
          /\ body[c.path][c.next - 1].alias = Top.alias
      BY <1>1, <2>2, CallerFacts DEF L, Returned
    <3> HIDE DEF c
    <3>2. Refused(body[c.path][c.next - 1], status')
      BY <1>3, <2>2, <3>1 DEF Refused, Returned
    <3> QED
      BY <3>1, <3>2
  <2>3. ASSUME status' \in {"no export", "alias target"}
        PROVE  \E p \in visited' : \E n \in DOMAIN body'[p] : (Refused(body[p][n], status))'
    <3>1. PICK p \in visited : \E n \in DOMAIN body[p] : Refused(body[p][n], status')
      BY <2>2, <2>3
    <3>2. PICK n \in DOMAIN body[p] : Refused(body[p][n], status')
      BY <3>1
    <3>3. (Refused(body[p][n], status))'
      BY <1>4, <3>2 DEF Refused, Exports, Defined, IsImport
    <3> QED
      BY <1>4, <3>3
  <2> QED
    BY <2>1, <2>3 DEF Outcome
<1> QED
  BY <1>6, <1>7, <1>8, <1>9, <1>10, <1>11 DEF IInv

-----------------------------------------------------------------------------
(***************************************************************************)
(* The inductive invariant.                                                *)
(***************************************************************************)
LEMMA InitEstablishes == Init => IInv
<1> SUFFICES ASSUME Init
             PROVE  IInv
  OBVIOUS
<1>1. PICK b \in Bodies(Entry) : body = [q \in {Entry} |-> b]
  BY DEF Init
<1>2. /\ visited = {Entry} /\ modules = <<Entry>> /\ status = "loading" /\ Entry \in Path
      /\ stack = <<[path |-> Entry, sym |-> NULL, alias |-> FALSE, next |-> 1]>>
  BY PathAssumption DEF Init, Call
<1>3. /\ b \in Seq(Statements[Entry]) /\ Len(b) \in Nat /\ DOMAIN b = 1 .. Len(b)
      /\ DOMAIN body = {Entry} /\ body[Entry] = b
  <2>1. b \in Seq(Statements[Entry])
    BY <1>2, BodiesAreSequences
  <2> QED
    BY <1>1, <2>1
<1>4. /\ DOMAIN stack = {1} /\ Len(stack) = 1 /\ stack[1].path = Entry /\ stack[1].sym = NULL
      /\ stack[1].next = 1
  BY <1>2
<1>5. TypeOK
  <2>1. stack \in Seq([path : Path, sym : Symbol \cup {NULL}, alias : BOOLEAN, next : Nat])
    BY <1>2
  <2>2. modules \in Seq(Path) /\ visited \subseteq Path
    BY <1>2
  <2> QED
    BY <1>2, <1>3, <2>1, <2>2 DEF TypeOK
<1>6. Recorded
  BY <1>2 DEF Recorded
<1>7. Activations
  BY <1>2, <1>3, <1>4 DEF Activations
<1>8. Callers
  BY <1>4 DEF Callers
<1>9. Executed
  BY <1>2, <1>3, <1>4 DEF Executed, Ahead
<1>10. Outcome
  BY <1>2 DEF Outcome
<1> QED
  BY <1>5, <1>6, <1>7, <1>8, <1>9, <1>10 DEF IInv

LEMMA ImportModuleStep ==
  ASSUME IInv, ImportModule
  PROVE  IInv'
<1>1. AtStatement /\ Current.op = "import" /\ status' = status /\ IsImport(Current)
  BY DEF ImportModule, IsImport
<1>2. Current.of \in Path
  BY <1>1, StatementFacts DEF Definition, Kind, Import, FromImport
<1>3. CASE Current.of \in visited
  BY <1>1, <1>3, AdvanceStep DEF ImportModule
<1>4. CASE Current.of \notin visited
  <2> DEFINE c == Call(Current.of, NULL, FALSE)
  <2>1. Visit(Current.of) /\ stack' = Append(Advanced, c)
    BY <1>4 DEF ImportModule
  <2>2. c \in CallType /\ c.path = Current.of /\ c.next = 1 /\ c.sym = NULL
    BY <1>2 DEF Call, CallType
  <2>3. Works(c, Current)
    BY <1>1, <2>2 DEF Works
  <2> HIDE DEF c
  <2>4. /\ Keeps /\ visited' = visited \cup {c.path} /\ visited' \subseteq Path
        /\ DOMAIN body' = visited' /\ modules' \in Seq(Path) /\ Recorded'
        /\ \A q \in visited' : body'[q] \in Seq(Statements[q])
    BY <1>2, <1>4, <2>1, <2>2, VisitFacts
  <2> QED
    BY <1>1, <1>4, <2>1, <2>2, <2>3, <2>4, PushStep
<1> QED
  BY <1>3, <1>4

LEMMA ImportSymbolStep ==
  ASSUME IInv, ImportSymbol
  PROVE  IInv'
<1>1. AtStatement /\ Current.op = "from" /\ IsImport(Current)
  BY DEF ImportSymbol, IsImport
<1>2. Current.of \in Path /\ Current.sym \in Symbol /\ Current.alias \in BOOLEAN
  BY <1>1, StatementFacts DEF Definition, Kind, Import, FromImport
<1>3. status' = status
  <2>1. Current.of \in visited => \E k \in DOMAIN modules : modules[k] = Current.of
    BY DEF IInv, Recorded
  <2> QED
    BY <2>1 DEF ImportSymbol
<1> DEFINE call == Call(Current.of, Current.sym, Current.alias)
<1>4. /\ call \in CallType /\ call.path = Current.of /\ call.sym = Current.sym
      /\ call.alias = Current.alias /\ call.next = 1
  BY <1>2 DEF Call, CallType
<1>5. CASE Current.of \in visited
  <2> DEFINE c == [call EXCEPT !.next = Len(body[Current.of]) + 1]
  <2>1. /\ stack' = Append(Advanced, c)
        /\ body' = body /\ visited' = visited /\ modules' = modules
    BY <1>5 DEF ImportSymbol
  <2>2. Len(body[Current.of]) \in Nat
    BY <1>5, StackFacts
  <2>3. /\ c \in CallType /\ c.path = Current.of /\ c.sym = Current.sym
        /\ c.alias = Current.alias /\ c.next = Len(body[Current.of]) + 1
    BY <1>4, <2>2 DEF CallType
  <2> HIDE DEF c
  <2>4. Works(c, Current) /\ c.sym # NULL
    BY <1>1, <1>2, <2>3, PathAssumption DEF Works
  <2>5. Keeps /\ Recorded'
    BY <2>1 DEF Keeps, IInv, Recorded
  <2>6. /\ visited' = visited \cup {c.path} /\ visited' \subseteq Path
        /\ DOMAIN body' = visited' /\ modules' \in Seq(Path)
        /\ \A q \in visited' : body'[q] \in Seq(Statements[q])
    BY <1>5, <2>1, <2>3 DEF IInv, TypeOK
  <2> QED
    BY <1>1, <1>3, <1>5, <2>1, <2>3, <2>4, <2>5, <2>6, PushStep
<1>6. CASE Current.of \notin visited
  <2>1. Visit(Current.of) /\ stack' = Append(Advanced, call)
    BY <1>6 DEF ImportSymbol
  <2> HIDE DEF call
  <2>2. Works(call, Current)
    BY <1>1, <1>4 DEF Works
  <2>3. /\ Keeps /\ visited' = visited \cup {call.path} /\ visited' \subseteq Path
        /\ DOMAIN body' = visited' /\ modules' \in Seq(Path) /\ Recorded'
        /\ \A q \in visited' : body'[q] \in Seq(Statements[q])
    BY <1>2, <1>4, <1>6, <2>1, VisitFacts
  <2> QED
    BY <1>1, <1>3, <1>4, <1>6, <2>1, <2>2, <2>3, PushStep
<1> QED
  BY <1>5, <1>6

LEMMA CopyDefinitionStep ==
  ASSUME IInv, CopyDefinition
  PROVE  IInv'
BY AdvanceStep DEF CopyDefinition

LEMMA EndFileStep ==
  ASSUME IInv, EndFile
  PROVE  IInv'
<1>1. /\ AtEnd /\ Top.sym = NULL /\ stack' = Popped /\ status = "loading"
      /\ status' = IF Len(stack) = 1 THEN "loaded" ELSE "loading"
      /\ body' = body /\ visited' = visited /\ modules' = modules
  BY DEF EndFile, AtEnd, Running
<1>2. Returned
  BY <1>1 DEF Returned
<1> QED
  BY <1>1, <1>2, PopStep

LEMMA SelectSymbolStep ==
  ASSUME IInv, SelectSymbol
  PROVE  IInv'
<1> DEFINE none == Exports(Top.path, Top.sym) = {}
           value == \E k \in Exports(Top.path, Top.sym) : body[Top.path][k].op = "value"
<1>1. /\ AtEnd /\ Top.sym # NULL /\ stack' = Popped /\ status = "loading"
      /\ body' = body /\ visited' = visited /\ modules' = modules
  BY DEF SelectSymbol, AtEnd, Running
<1>2. /\ none => status' = "no export"
      /\ ~none /\ Top.alias /\ value => status' = "alias target"
      /\ ~none /\ ~(Top.alias /\ value) => status' = status
  BY DEF SelectSymbol
<1>3. ~value => \A k \in Exports(Top.path, Top.sym) : body[Top.path][k].op # "value"
  OBVIOUS
<1>4. Returned
  <2>1. CASE none
    BY <1>1, <1>2, <2>1 DEF Returned
  <2>2. CASE ~none /\ Top.alias /\ value
    BY <1>1, <1>2, <2>2 DEF Returned
  <2>3. CASE ~none /\ ~(Top.alias /\ value)
    BY <1>1, <1>2, <1>3, <2>3 DEF Returned
  <2> QED
    BY <2>1, <2>2, <2>3
<1> QED
  BY <1>1, <1>4, PopStep

LEMMA StutterStep ==
  ASSUME IInv, UNCHANGED vars
  PROVE  IInv'
<1> USE DEF vars
<1>1. TypeOK' /\ Recorded'
  BY DEF IInv, TypeOK, Recorded
<1>2. Activations'
  BY DEF IInv, Activations, Selecting
<1>3. Callers'
  BY DEF IInv, Callers, Works
<1>4. body' = body /\ visited' = visited /\ stack' = stack /\ status' = status
  OBVIOUS
<1> USE DEF IsImport
<1>5. \A q, sym : Exports(q, sym)' = Exports(q, sym)
  BY <1>4 DEF Exports, Defined
<1>6. \A p \in visited : \A n \in DOMAIN body[p] :
        Ahead(p, n) \/ Handled(p, n) => Ahead(p, n)' \/ Handled(p, n)'
  <2> TAKE p \in visited
  <2> TAKE n \in DOMAIN body[p]
  <2>1. Ahead(p, n) => Ahead(p, n)'
    BY <1>4 DEF Ahead
  <2>2. Found(body[p][n]) => Found(body[p][n])'
    BY <1>4, <1>5 DEF Found
  <2>3. UnderWay(p, n) => UnderWay(p, n)'
    BY <1>4 DEF UnderWay
  <2>4. Handled(p, n) => Handled(p, n)'
    BY <1>4, <2>2, <2>3 DEF Handled
  <2> QED
    BY <2>1, <2>4
<1>7. Executed'
  BY <1>4, <1>6 DEF IInv, Executed
<1>8. \A s, error : Refused(s, error) => Refused(s, error)'
  BY <1>4, <1>5 DEF Refused
<1>9. Outcome'
  BY <1>4, <1>8 DEF IInv, Outcome
<1> QED
  BY <1>1, <1>2, <1>3, <1>7, <1>9 DEF IInv

(***************************************************************************)
(* The stack of activations is the path of imports that are being executed *)
(* - each works for the statement its caller executed last, a file occurs  *)
(* once on it but for a selection on top - and an executed import has its  *)
(* file loaded and its name found, whatever the import graph.              *)
(***************************************************************************)
THEOREM Inductive == Spec => []IInv
<1>1. Init => IInv
  BY InitEstablishes
<1>2. IInv /\ [Next]_vars => IInv'
  BY ImportModuleStep, ImportSymbolStep, CopyDefinitionStep, EndFileStep, SelectSymbolStep,
     StutterStep DEF Next
<1> QED
  BY <1>1, <1>2, PTL DEF Spec

-----------------------------------------------------------------------------
(***************************************************************************)
(* What it implies.                                                        *)
(***************************************************************************)

\* A file occurs once below the top of the stack.
LEMMA DepthBounded ==
  ASSUME IInv
  PROVE  Len(stack) <= Cardinality(visited) + 1
<1> DEFINE L == Len(stack)
           f == [k \in 1 .. L - 1 |-> stack[k].path]
<1>1. L \in Nat /\ DOMAIN stack = 1 .. L
  BY StackFacts
<1>2. \A j, k \in DOMAIN stack : j < k /\ stack[j].path = stack[k].path => k = L
  BY DEF IInv, Activations
<1>3. \A k \in DOMAIN stack : stack[k].path \in visited
  BY StackFacts
<1>4. IsFiniteSet(visited)
  <2>1. visited \in SUBSET Path
    BY DEF IInv, TypeOK
  <2> QED
    BY <2>1, PathAssumption, FS_Subset
<1> HIDE DEF L
<1>5. Cardinality(visited) \in Nat
  BY <1>4, FS_CardinalityType
<1>6. \A k \in 1 .. L - 1 : k \in DOMAIN stack /\ k # L
  BY <1>1
<1>7. f \in [1 .. L - 1 -> visited]
  BY <1>3, <1>6
<1>8. ASSUME L > Cardinality(visited) + 1
      PROVE  FALSE
  <2> DEFINE S == 1 .. L - 1
  <2>1. IsFiniteSet(S) /\ Cardinality(S) = L - 1
    <3>1. L - 1 \in Int /\ 1 \in Int /\ ~(1 > L - 1) /\ L - 1 - 1 + 1 = L - 1
      BY <1>1, <1>5, <1>8
    <3> QED
      BY <3>1, FS_Interval
  <2>2. Cardinality(visited) < Cardinality(S)
    BY <1>1, <1>5, <1>8, <2>1
  <2>3. f \in [S -> visited]
    BY <1>7
  <2> HIDE DEF f, S
  <2>4. \E j, k \in S : j # k /\ f[j] = f[k]
    BY <1>4, <2>1, <2>2, <2>3, FS_PigeonHole
  <2>5. PICK j \in S, k \in S : j # k /\ f[j] = f[k]
    BY <2>4
  <2>6. /\ j \in 1 .. L - 1 /\ k \in 1 .. L - 1
        /\ stack[j].path = stack[k].path
    BY <2>5 DEF f, S
  <2>7. j < k \/ k < j
    BY <1>1, <2>5, <2>6
  <2> QED
    BY <1>2, <1>6, <2>6, <2>7
<1> QED
  BY <1>1, <1>5, <1>8 DEF L

\* Two sets whose members correspond have as many.
LEMMA Matched ==
  ASSUME NEW S, NEW T, IsFiniteSet(S), NEW f \in [S -> T],
         \A x, y \in S : f[x] = f[y] => x = y, \A z \in T : \E x \in S : f[x] = z
  PROVE  Cardinality(S) = Cardinality(T)
<1>1. f \in Bijection(S, T)
  BY Fun_IsBij
<1>2. ExistsBijection(S, T)
  BY <1>1 DEF ExistsBijection
<1> QED
  BY <1>2, FS_Bijection

\* A file has as many records as paths it was visited under.
LEMMA RecordsOfFile ==
  ASSUME IInv, NEW file
  PROVE  Cardinality({i \in DOMAIN modules : FileOf[modules[i]] = file}) =
           Cardinality({p \in visited : FileOf[p] = file})
<1> DEFINE S == {i \in DOMAIN modules : FileOf[modules[i]] = file}
           T == {p \in visited : FileOf[p] = file}
           f == [i \in S |-> modules[i]]
<1>1. /\ \A i, j \in DOMAIN modules : modules[i] = modules[j] => i = j
      /\ {modules[i] : i \in DOMAIN modules} = visited
      /\ DOMAIN modules = 1 .. Len(modules) /\ Len(modules) \in Nat
  <2>1. modules \in Seq(Path) /\ Recorded
    BY DEF IInv, TypeOK
  <2> QED
    BY <2>1 DEF Recorded
<1>2. IsFiniteSet(S)
  <2>1. 1 \in Int /\ Len(modules) \in Int
    BY <1>1
  <2>2. IsFiniteSet(DOMAIN modules) /\ S \in SUBSET DOMAIN modules
    BY <1>1, <2>1, FS_Interval
  <2> QED
    BY <2>2, FS_Subset
<1>3. f \in [S -> T]
  BY <1>1
<1>4. \A x, y \in S : f[x] = f[y] => x = y
  BY <1>1
<1>5. \A z \in T : \E x \in S : f[x] = z
  BY <1>1
<1> HIDE DEF f
<1> QED
  BY <1>2, <1>3, <1>4, <1>5, Matched

LEMMA InvariantLoads ==
  ASSUME IInv
  PROVE  LoadedOnce
<1>1. status # "tracking failed"
  BY DEF IInv, TypeOK
<1> QED
  BY <1>1, DepthBounded, RecordsOfFile DEF LoadedOnce, IInv, Recorded

(***************************************************************************)
(* Whatever the import graph, cycles included, each path is parsed and     *)
(* recorded once, and a file once for each path it is reached under;       *)
(* "module tracking failed" cannot happen, and the recursion of load_file  *)
(* and import_module_symbol is no deeper than the number of visited paths  *)
(* plus one.                                                               *)
(***************************************************************************)
THEOREM OncePerPath == Spec => []LoadedOnce
<1>1. IInv => LoadedOnce
  BY InvariantLoads
<1> QED
  BY <1>1, Inductive, PTL

\* What the import at n of p is.
LEMMA ImportFacts ==
  ASSUME IInv, NEW p \in visited, NEW n \in DOMAIN body[p], IsImport(body[p][n])
  PROVE  <<p, n>> \in Imports /\ At(<<p, n>>) = body[p][n]
BY DEF Imports, At

LEMMA InvariantResolves ==
  ASSUME IInv
  PROVE  Resolved
<1> DEFINE known == {i \in Imports : At(i).of \in visited}
           froms == {i \in known : At(i).op = "from"}
           missing == {i \in froms : \A k \in Defined(At(i).of, At(i).sym) : body[At(i).of][k].op = "enum"}
           badAlias == {i \in froms : /\ At(i).alias
                                      /\ \E k \in Defined(At(i).of, At(i).sym) :
                                           body[At(i).of][k].op = "value"}
<1>1. Loaded => \A i \in Imports : At(i).of \in visited /\ (At(i).op = "from" => Found(At(i)))
  <2> SUFFICES ASSUME Loaded, NEW i \in Imports
               PROVE  At(i).of \in visited /\ (At(i).op = "from" => Found(At(i)))
    OBVIOUS
  <2>1. status = "loaded" /\ stack = << >>
    BY DEF Loaded, IInv, Outcome
  <2>2. PICK p \in visited : i \in {p} \X DOMAIN body[p]
    BY DEF Imports
  <2>3. i[1] = p /\ i[2] \in DOMAIN body[p] /\ IsImport(body[p][i[2]]) /\ At(i) = body[p][i[2]]
    BY <2>2 DEF Imports, At
  <2>4. Ahead(p, i[2]) \/ Handled(p, i[2])
    BY <2>1, <2>3 DEF IInv, Executed
  <2>5. ~Ahead(p, i[2]) /\ ~UnderWay(p, i[2])
    BY <2>1 DEF Ahead, UnderWay
  <2> QED
    BY <2>3, <2>4, <2>5 DEF Handled
<1>2. Loaded => known = Imports /\ missing = {} /\ badAlias = {}
  <2> SUFFICES ASSUME Loaded
               PROVE  known = Imports /\ missing = {} /\ badAlias = {}
    OBVIOUS
  <2>1. known = Imports
    BY <1>1
  <2>2. \A i \in froms : Found(At(i))
    BY <1>1
  <2> QED
    BY <2>1, <2>2 DEF Found, Exports
<1>3. ASSUME status \in {"no export", "alias target"}
      PROVE  \E i \in froms : Refused(At(i), status)
  <2>1. PICK p \in visited : \E n \in DOMAIN body[p] : Refused(body[p][n], status)
    BY <1>3 DEF IInv, Outcome
  <2>2. PICK n \in DOMAIN body[p] : Refused(body[p][n], status)
    BY <2>1
  <2>3. /\ IsImport(body[p][n]) /\ body[p][n].of \in visited /\ body[p][n].op = "from"
    BY <2>2 DEF Refused, IsImport
  <2>4. <<p, n>> \in Imports /\ At(<<p, n>>) = body[p][n]
    BY <2>3, ImportFacts
  <2> QED
    BY <2>2, <2>3, <2>4
<1>4. status = "no export" => missing # {}
  BY <1>3 DEF Refused, Exports
<1>5. status = "alias target" => badAlias # {}
  BY <1>3 DEF Refused, Exports
<1> QED
  BY <1>2, <1>4, <1>5 DEF Resolved

(***************************************************************************)
(* A program is loaded only if every from import in every file found what  *)
(* it names, and an import error has a cause: a symbol its file does not   *)
(* define, or defines as nothing but an enum, or a value that is renamed.  *)
(***************************************************************************)
THEOREM ErrorsHaveCauses == Spec => []Resolved
<1>1. IInv => Resolved
  BY InvariantResolves
<1> QED
  BY <1>1, Inductive, PTL

-----------------------------------------------------------------------------
(***************************************************************************)
(* How each kind of step moves the statements that are ahead or under way. *)
(***************************************************************************)

\* A file with a statement to execute has one activation.
LEMMA TopAlone ==
  ASSUME IInv, AtStatement, NEW k \in DOMAIN stack, stack[k].path = Top.path
  PROVE  k = Len(stack)
<1>1. /\ Len(stack) \in Nat /\ DOMAIN stack = 1 .. Len(stack) /\ Len(stack) \in DOMAIN stack
      /\ Top = stack[Len(stack)] /\ Top.next \in Nat /\ Top.next \in DOMAIN body[Top.path]
      /\ Len(body[Top.path]) \in Nat /\ DOMAIN body[Top.path] = 1 .. Len(body[Top.path])
  BY StackFacts, StatementFacts
<1>2. SUFFICES ASSUME k < Len(stack)
               PROVE  FALSE
  BY <1>1
<1>3. Selecting(Len(stack))
  BY <1>1, <1>2 DEF IInv, Activations
<1> QED
  BY <1>1, <1>3 DEF Selecting

LEMMA CurrentFacts ==
  ASSUME IInv, AtStatement
  PROVE  Ahead(Top.path, Top.next) /\ ~UnderWay(Top.path, Top.next)
<1>1. /\ Len(stack) \in Nat /\ DOMAIN stack = 1 .. Len(stack) /\ Len(stack) \in DOMAIN stack
      /\ Top = stack[Len(stack)] /\ Top.next \in Nat
  BY StackFacts, StatementFacts
<1>2. \A k \in DOMAIN stack : stack[k].path = Top.path => k = Len(stack)
  BY TopAlone
<1> QED
  BY <1>1, <1>2 DEF Ahead, UnderWay

LEMMA AdvanceMoves ==
  ASSUME IInv, AtStatement, stack' = Advanced, NEW p \in visited, NEW n \in DOMAIN body[p]
  PROVE  /\ Ahead(p, n)' <=> Ahead(p, n) /\ ~(p = Top.path /\ n = Top.next)
         /\ UnderWay(p, n)' <=> UnderWay(p, n)
<1> DEFINE L == Len(stack)
<1>1. /\ L \in Nat /\ DOMAIN stack = 1 .. L /\ L \in DOMAIN stack /\ Top = stack[L]
      /\ Top.next \in Nat /\ n \in Nat
  BY StackFacts, StatementFacts
<1>2. /\ stack' \in Seq(CallType) /\ Len(stack') = L
      /\ \A k \in 1 .. L - 1 : stack'[k] = stack[k]
      /\ \A k \in 1 .. L : stack'[k].path = stack[k].path
      /\ stack'[L].next = Top.next + 1
  BY AdvancedFacts
<1>3. DOMAIN stack' = 1 .. L
  BY <1>1, <1>2
<1>4. \A k \in DOMAIN stack : stack[k].path = Top.path => k = L
  BY TopAlone
<1> HIDE DEF L
<1>5. \A k \in 1 .. L : k = L \/ k \in 1 .. L - 1
  BY <1>1
<1>6. ASSUME Ahead(p, n)'
      PROVE  Ahead(p, n) /\ ~(p = Top.path /\ n = Top.next)
  <2>1. PICK k \in 1 .. L : stack'[k].path = p /\ n >= stack'[k].next
    BY <1>3, <1>6 DEF Ahead
  <2>2. stack[k].path = p /\ k \in DOMAIN stack
    BY <1>1, <1>2, <2>1
  <2>3. CASE k = L
    <3>1. n >= Top.next + 1 /\ n >= Top.next /\ n # Top.next
      BY <1>1, <1>2, <2>1, <2>3
    <3> QED
      BY <1>1, <2>2, <2>3, <3>1 DEF Ahead
  <2>4. CASE k \in 1 .. L - 1
    <3>1. stack'[k] = stack[k] /\ k # L
      BY <1>1, <1>2, <2>4
    <3> QED
      BY <1>4, <2>1, <2>2, <3>1 DEF Ahead
  <2> QED
    BY <1>5, <2>3, <2>4
<1>7. ASSUME Ahead(p, n), ~(p = Top.path /\ n = Top.next)
      PROVE  Ahead(p, n)'
  <2>1. PICK k \in 1 .. L : stack[k].path = p /\ n >= stack[k].next
    BY <1>1, <1>7 DEF Ahead
  <2>2. CASE k = L
    <3>1. n >= Top.next + 1 /\ stack'[L].path = p
      BY <1>1, <1>2, <1>7, <2>1, <2>2
    <3> QED
      BY <1>1, <1>2, <1>3, <3>1 DEF Ahead
  <2>3. CASE k \in 1 .. L - 1
    BY <1>2, <1>3, <2>1, <2>3 DEF Ahead
  <2> QED
    BY <1>5, <2>2, <2>3
<1>8. UnderWay(p, n)' <=> UnderWay(p, n)
  <2>1. \A k \in 1 .. L : k < L => stack'[k] = stack[k]
    BY <1>1, <1>2
  <2> QED
    BY <1>1, <1>2, <1>3, <2>1 DEF UnderWay, L
<1> QED
  BY <1>6, <1>7, <1>8

LEMMA PushMoves ==
  ASSUME IInv, AtStatement, NEW c \in CallType, stack' = Append(Advanced, c),
         c.path \in visited => c.next = Len(body[c.path]) + 1,
         NEW p \in visited, NEW n \in DOMAIN body[p]
  PROVE  /\ Ahead(p, n)' <=> Ahead(p, n) /\ ~(p = Top.path /\ n = Top.next)
         /\ UnderWay(p, n)' <=> UnderWay(p, n) \/ (p = Top.path /\ n = Top.next)
<1> DEFINE L == Len(stack)
<1>1. /\ L \in Nat /\ DOMAIN stack = 1 .. L /\ L \in DOMAIN stack /\ Top = stack[L]
      /\ Top.next \in Nat /\ n \in Nat /\ n <= Len(body[p]) /\ Len(body[p]) \in Nat
  <2>1. Len(body[p]) \in Nat /\ DOMAIN body[p] = 1 .. Len(body[p])
    BY StackFacts
  <2> QED
    BY <2>1, StackFacts, StatementFacts
<1>2. /\ Advanced \in Seq(CallType) /\ Len(Advanced) = L
      /\ \A k \in 1 .. L - 1 : Advanced[k] = stack[k]
      /\ \A k \in 1 .. L : Advanced[k].path = stack[k].path
      /\ Advanced[L].next = Top.next + 1
  BY AdvancedFacts
<1>3. /\ DOMAIN stack' = 1 .. L + 1 /\ Len(stack') = L + 1 /\ stack'[L + 1] = c
      /\ \A k \in 1 .. L : stack'[k] = Advanced[k]
  BY <1>1, <1>2
<1>4. \A k \in DOMAIN stack : stack[k].path = Top.path => k = L
  BY TopAlone
<1> HIDE DEF L
<1>5. \A k \in 1 .. L : /\ k = L \/ k \in 1 .. L - 1
                        /\ k \in 1 .. L + 1 /\ k < L + 1 /\ k # L + 1
  BY <1>1
<1>6. /\ \A k \in 1 .. L + 1 : k = L + 1 \/ k \in 1 .. L
      /\ \A k \in 1 .. L - 1 : k # L /\ k < L /\ k \in 1 .. L
  BY <1>1
<1>7. /\ stack'[L].path = Top.path /\ stack'[L].next = Top.next + 1
      /\ \A k \in 1 .. L - 1 : stack'[k] = stack[k]
  <2>1. \A k \in 1 .. L - 1 : k \in 1 .. L
    BY <1>1
  <2> QED
    BY <1>1, <1>2, <1>3, <2>1
<1>8. ASSUME Ahead(p, n)'
      PROVE  Ahead(p, n) /\ ~(p = Top.path /\ n = Top.next)
  <2>1. PICK k \in 1 .. L + 1 : stack'[k].path = p /\ n >= stack'[k].next
    BY <1>3, <1>8 DEF Ahead
  <2>2. CASE k = L + 1
    <3>1. c.path = p /\ n >= Len(body[p]) + 1
      BY <1>3, <2>1, <2>2
    <3> QED
      BY <1>1, <3>1
  <2>3. CASE k = L
    <3>1. Top.path = p /\ n >= Top.next + 1
      BY <1>7, <2>1, <2>3
    <3>2. n >= Top.next /\ n # Top.next
      BY <1>1, <3>1
    <3> QED
      BY <1>1, <3>1, <3>2 DEF Ahead
  <2>4. CASE k \in 1 .. L - 1
    <3>1. stack'[k] = stack[k] /\ k # L /\ k \in DOMAIN stack
      BY <1>1, <1>6, <1>7, <2>4
    <3> QED
      BY <1>4, <2>1, <3>1 DEF Ahead
  <2> QED
    BY <1>5, <1>6, <2>2, <2>3, <2>4
<1>9. ASSUME Ahead(p, n), ~(p = Top.path /\ n = Top.next)
      PROVE  Ahead(p, n)'
  <2>1. PICK k \in 1 .. L : stack[k].path = p /\ n >= stack[k].next
    BY <1>1, <1>9 DEF Ahead
  <2>2. CASE k = L
    <3>1. p = Top.path /\ n >= Top.next /\ n # Top.next
      BY <1>1, <1>9, <2>1, <2>2
    <3>2. n >= Top.next + 1
      BY <1>1, <3>1
    <3> QED
      BY <1>1, <1>3, <1>5, <1>7, <3>1, <3>2 DEF Ahead
  <2>3. CASE k \in 1 .. L - 1
    BY <1>3, <1>5, <1>7, <2>1, <2>3 DEF Ahead
  <2> QED
    BY <1>5, <2>2, <2>3
<1>10. UnderWay(p, n)' <=> UnderWay(p, n) \/ (p = Top.path /\ n = Top.next)
  <2>1. Top.next + 1 - 1 = Top.next
    BY <1>1
  <2>2. ASSUME UnderWay(p, n)'
        PROVE  UnderWay(p, n) \/ (p = Top.path /\ n = Top.next)
    <3>1. PICK k \in 1 .. L + 1 : k < L + 1 /\ stack'[k].path = p /\ n = stack'[k].next - 1
      BY <1>3, <2>2 DEF UnderWay
    <3>2. CASE k = L
      <4>1. stack'[k].path = Top.path /\ stack'[k].next = Top.next + 1
        BY <1>7, <3>2
      <4>2. stack'[k].path = p /\ n = stack'[k].next - 1
        BY <3>1
      <4>3. \A m \in Nat : \A x, y : x = m + 1 /\ y = x - 1 => y = m
        OBVIOUS
      <4>4. n = Top.next
        BY <1>1, <4>1, <4>2, <4>3
      <4> QED
        BY <4>1, <4>2, <4>4
    <3>3. CASE k \in 1 .. L - 1
      <4>1. k < L /\ k \in DOMAIN stack /\ stack'[k] = stack[k]
        BY <1>1, <1>6, <1>7, <3>3
      <4> QED
        BY <3>1, <4>1 DEF UnderWay, L
    <3>4. k # L + 1
      BY <1>1, <3>1
    <3> QED
      BY <1>5, <1>6, <3>2, <3>3, <3>4
  <2>3. ASSUME UnderWay(p, n)
        PROVE  UnderWay(p, n)'
    <3>1. PICK k \in 1 .. L : k < L /\ stack[k].path = p /\ n = stack[k].next - 1
      BY <1>1, <2>3 DEF UnderWay, L
    <3>2. k # L /\ stack'[k] = stack[k]
      <4>1. k # L
        BY <1>1, <3>1
      <4> QED
        BY <1>5, <1>7, <4>1
    <3> QED
      BY <1>3, <1>5, <3>1, <3>2 DEF UnderWay
  <2>4. ASSUME p = Top.path, n = Top.next
        PROVE  UnderWay(p, n)'
    <3>1. n = stack'[L].next - 1
      BY <1>1, <1>7, <2>1, <2>4
    <3> QED
      BY <1>1, <1>3, <1>5, <1>7, <2>4, <3>1 DEF UnderWay
  <2> QED
    BY <2>2, <2>3, <2>4
<1> QED
  BY <1>8, <1>9, <1>10

\* The caller of the activation on top, and the import it executes.
Caller == stack[Len(stack) - 1]
IsCall(p, n) == Len(stack) > 1 /\ p = Caller.path /\ n = Caller.next - 1

LEMMA PopMoves ==
  ASSUME IInv, AtEnd, stack' = Popped, NEW p \in visited, NEW n \in DOMAIN body[p]
  PROVE  /\ Ahead(p, n)' <=> Ahead(p, n)
         /\ UnderWay(p, n)' <=> UnderWay(p, n) /\ ~IsCall(p, n)
         /\ IsCall(p, n) => UnderWay(p, n) /\ ~Ahead(p, n)
<1> DEFINE L == Len(stack)
<1>1. /\ stack \in Seq(CallType) /\ L \in Nat /\ DOMAIN stack = 1 .. L /\ L > 0 /\ Top = stack[L]
      /\ n \in Nat /\ n <= Len(body[p]) /\ Len(body[p]) \in Nat
  <2>1. stack \in Seq(CallType) /\ L \in Nat /\ DOMAIN stack = 1 .. L
    BY StackFacts
  <2>2. stack # << >> /\ Top = stack[L]
    BY DEF AtEnd, Running, Top
  <2>3. Len(body[p]) \in Nat /\ DOMAIN body[p] = 1 .. Len(body[p])
    BY StackFacts
  <2> QED
    BY <2>1, <2>2, <2>3
<1>2. /\ Len(stack') = L - 1 /\ DOMAIN stack' = 1 .. L - 1
      /\ \A k \in 1 .. L - 1 : stack'[k] = stack[k]
  <2>1. L - 1 \in Nat /\ L - 1 <= Len(stack)
    BY <1>1
  <2>2. stack' = SubSeq(stack, 1, L - 1)
    BY DEF Popped
  <2> QED
    BY <1>1, <2>1, <2>2
<1>3. Top.path = p => n < Top.next
  <2>1. Top.next > Len(body[Top.path]) /\ Top.next \in Nat
    BY <1>1, StackFacts DEF AtEnd
  <2> QED
    BY <1>1, <2>1
<1>4. \A j, k \in DOMAIN stack : j < k /\ stack[j].path = stack[k].path => k = L
  BY DEF IInv, Activations
<1>5. \A k \in DOMAIN stack : stack[k].next \in Nat
  BY StackFacts
<1> HIDE DEF L
<1>6. \A k \in 1 .. L : k = L \/ k \in 1 .. L - 1
  BY <1>1
<1>7. \A k \in 1 .. L - 1 : k \in 1 .. L /\ k < L /\ (k < L - 1 \/ k = L - 1)
  BY <1>1
<1>8. Ahead(p, n)' <=> Ahead(p, n)
  <2>1. ASSUME Ahead(p, n)
        PROVE  Ahead(p, n)'
    <3>1. PICK k \in 1 .. L : stack[k].path = p /\ n >= stack[k].next
      BY <1>1, <2>1 DEF Ahead
    <3>2. k # L
      <4>1. ASSUME k = L
            PROVE  FALSE
        <5>1. n < Top.next /\ n >= Top.next /\ Top.next \in Nat
          BY <1>1, <1>3, <1>5, <3>1, <4>1
        <5> QED
          BY <1>1, <5>1
      <4> QED
        BY <4>1
    <3> QED
      BY <1>2, <1>6, <3>1, <3>2 DEF Ahead
  <2> QED
    BY <1>1, <1>2, <1>7, <2>1 DEF Ahead
<1>9. L > 1 => L - 1 \in 1 .. L - 1 /\ L - 1 \in 1 .. L
  BY <1>1
<1>10. ASSUME IsCall(p, n)
       PROVE  UnderWay(p, n) /\ ~Ahead(p, n)
  <2>1. L > 1 /\ stack[L - 1].path = p /\ n = stack[L - 1].next - 1
    BY <1>10 DEF IsCall, Caller, L
  <2>2. UnderWay(p, n)
    BY <1>1, <1>7, <1>9, <2>1 DEF UnderWay, L
  <2>3. ASSUME NEW k \in 1 .. L, stack[k].path = p, n >= stack[k].next
        PROVE  FALSE
    <3>1. CASE k = L
      BY <1>1, <1>3, <1>5, <2>3, <3>1
    <3>2. CASE k = L - 1
      BY <1>1, <1>5, <1>9, <2>1, <2>3, <3>2
    <3>3. CASE k < L - 1
      <4>1. L - 1 = L
        BY <1>1, <1>4, <1>9, <2>1, <2>3, <3>3
      <4> QED
        BY <1>1, <4>1
    <3> QED
      BY <1>6, <1>7, <2>3, <3>1, <3>2, <3>3
  <2> QED
    BY <1>1, <2>2, <2>3 DEF Ahead
<1>11. UnderWay(p, n)' <=> UnderWay(p, n) /\ ~IsCall(p, n)
  <2>1. ASSUME UnderWay(p, n)'
        PROVE  UnderWay(p, n) /\ ~IsCall(p, n)
    <3>1. PICK k \in 1 .. L - 1 : k < L - 1 /\ stack'[k].path = p /\ n = stack'[k].next - 1
      BY <1>2, <2>1 DEF UnderWay
    <3>2. k \in DOMAIN stack /\ k < L /\ stack[k].path = p /\ n = stack[k].next - 1
      BY <1>1, <1>2, <1>7, <3>1
    <3>3. ASSUME IsCall(p, n)
          PROVE  FALSE
      <4>1. L > 1 /\ stack[L - 1].path = p
        BY <3>3 DEF IsCall, Caller, L
      <4>2. L - 1 = L
        BY <1>1, <1>4, <1>9, <3>1, <3>2, <4>1
      <4> QED
        BY <1>1, <4>2
    <3> QED
      BY <3>2, <3>3 DEF UnderWay, L
  <2>2. ASSUME UnderWay(p, n), ~IsCall(p, n)
        PROVE  UnderWay(p, n)'
    <3>1. PICK k \in 1 .. L : k < L /\ stack[k].path = p /\ n = stack[k].next - 1
      BY <1>1, <2>2 DEF UnderWay, L
    <3>2. k \in 1 .. L - 1
      BY <1>1, <3>1
    <3>3. k # L - 1
      <4>1. ASSUME k = L - 1
            PROVE  FALSE
        <5>1. L > 1
          BY <1>1, <3>2, <4>1
        <5> QED
          BY <2>2, <3>1, <4>1, <5>1 DEF IsCall, Caller, L
      <4> QED
        BY <4>1
    <3>4. k < L - 1
      BY <1>7, <3>2, <3>3
    <3> QED
      BY <1>2, <3>1, <3>2, <3>4 DEF UnderWay
  <2> QED
    BY <2>1, <2>2
<1> QED
  BY <1>8, <1>10, <1>11

-----------------------------------------------------------------------------
(***************************************************************************)
(* Counting.                                                               *)
(***************************************************************************)

\* An ordered enumeration of a finite set meets every member.
LEMMA OrderIsComplete ==
  ASSUME NEW D, IsFiniteSet(D), D \subseteq Nat, NEW sel \in InOrder(D)
  PROVE  LET n == Cardinality(D)
         IN /\ n \in Nat /\ sel \in [1 .. n -> D] /\ sel \in Seq(D) /\ Len(sel) = n
            /\ \A j, k \in 1 .. n : sel[j] = sel[k] => j = k
            /\ \A d \in D : \E k \in 1 .. n : sel[k] = d
<1> DEFINE n == Cardinality(D)
<1>1. n \in Nat
  BY FS_CardinalityType
<1>2. sel \in [1 .. n -> D] /\ \A j, k \in DOMAIN sel : j < k => sel[j] < sel[k]
  BY DEF InOrder
<1> HIDE DEF n
<1>3. sel \in Seq(D) /\ Len(sel) = n
  BY <1>1, <1>2
<1>4. \A j, k \in 1 .. n : sel[j] = sel[k] => j = k
  <2> SUFFICES ASSUME NEW j \in 1 .. n, NEW k \in 1 .. n, sel[j] = sel[k], j # k
               PROVE  FALSE
    OBVIOUS
  <2>1. j < k \/ k < j
    BY <1>1
  <2>2. sel[j] < sel[k] \/ sel[k] < sel[j]
    BY <1>2, <2>1
  <2>3. sel[j] \in Nat /\ sel[k] \in Nat
    BY <1>2
  <2> QED
    BY <2>2, <2>3
<1>5. IsFiniteSet(1 .. n) /\ Cardinality(1 .. n) = n
  BY <1>1, FS_Interval
<1>6. sel \in Injection(1 .. n, D)
  BY <1>2, <1>4 DEF Injection, IsInjective
<1>7. sel \in Surjection(1 .. n, D)
  BY <1>5, <1>6, FS_Injection DEF n
<1> QED
  BY <1>1, <1>2, <1>3, <1>4, <1>7 DEF Surjection, n

\* The places of x in a sequence.
Places(s, x) == {k \in DOMAIN s : s[k] = x}

LEMMA PlacesFinite ==
  ASSUME NEW T, NEW s \in Seq(T), NEW x
  PROVE  IsFiniteSet(Places(s, x)) /\ Cardinality(Places(s, x)) \in Nat
<1>1. DOMAIN s = 1 .. Len(s) /\ Len(s) \in Nat
  OBVIOUS
<1>2. IsFiniteSet(DOMAIN s) /\ Places(s, x) \in SUBSET DOMAIN s
  BY <1>1, FS_Interval DEF Places
<1> QED
  BY <1>2, FS_Subset, FS_CardinalityType

LEMMA PlacesOfConcatenation ==
  ASSUME NEW T, NEW s \in Seq(T), NEW t \in Seq(T), NEW x
  PROVE  Cardinality(Places(s \o t, x)) = Cardinality(Places(s, x)) + Cardinality(Places(t, x))
<1> DEFINE n == Len(s)
           m == Len(t)
           u == s \o t
           B == {k \in DOMAIN u : k > n /\ u[k] = x}
           f == [k \in Places(t, x) |-> k + n]
<1>1. n \in Nat /\ m \in Nat /\ DOMAIN s = 1 .. n /\ DOMAIN t = 1 .. m
  OBVIOUS
<1>2. /\ u \in Seq(T) /\ DOMAIN u = 1 .. n + m
      /\ \A k \in 1 .. n : u[k] = s[k]
      /\ \A k \in n + 1 .. n + m : u[k] = t[k - n]
  BY <1>1
<1> HIDE DEF n, m, u
<1>3. /\ \A k \in 1 .. n + m : k > n <=> k \notin 1 .. n
      /\ \A k \in 1 .. n + m : k > n => k \in n + 1 .. n + m /\ k - n \in 1 .. m /\ k - n + n = k
      /\ \A k \in 1 .. m : k + n \in n + 1 .. n + m /\ k + n > n /\ k + n \in 1 .. n + m /\ k + n - n = k
      /\ \A k \in 1 .. n : k \in 1 .. n + m
  BY <1>1
<1>4. Places(u, x) = Places(s, x) \cup B /\ Places(s, x) \cap B = {}
  <2>1. \A k \in Places(u, x) : k \in Places(s, x) \cup B
    BY <1>1, <1>2, <1>3 DEF Places
  <2>2. \A k \in Places(s, x) : k \in Places(u, x) /\ k \notin B
    BY <1>1, <1>2, <1>3 DEF Places
  <2>3. \A k \in B : k \in Places(u, x)
    BY DEF Places
  <2> QED
    BY <2>1, <2>2, <2>3
<1>5. Cardinality(Places(t, x)) = Cardinality(B)
  <2>1. f \in [Places(t, x) -> B]
    <3> SUFFICES ASSUME NEW k \in Places(t, x)
                 PROVE  k + n \in B
      OBVIOUS
    <3>1. k \in 1 .. m /\ t[k] = x
      BY <1>1 DEF Places
    <3>2. \E i \in n + 1 .. n + m : i = k + n /\ i - n = k
      BY <1>1, <3>1
    <3>3. PICK j \in n + 1 .. n + m : j = k + n /\ j - n = k
      BY <3>2
    <3>4. j \in 1 .. n + m /\ j > n
      BY <1>1
    <3>5. u[j] = x
      BY <1>2, <3>1, <3>3
    <3>6. j \in B
      BY <1>2, <3>4, <3>5
    <3> QED
      BY <3>3, <3>6
  <2>2. ASSUME NEW j \in Places(t, x), NEW k \in Places(t, x), f[j] = f[k]
        PROVE  j = k
    <3>1. j \in 1 .. m /\ k \in 1 .. m
      BY <1>1 DEF Places
    <3> QED
      BY <1>1, <2>2, <3>1
  <2>3. ASSUME NEW k \in B
        PROVE  \E j \in Places(t, x) : f[j] = k
    <3>1. k \in 1 .. n + m /\ k > n /\ u[k] = x
      BY <1>2
    <3>2. k \in n + 1 .. n + m /\ k - n \in 1 .. m /\ k - n + n = k
      BY <1>3, <3>1
    <3>3. t[k - n] = x
      BY <1>2, <3>1, <3>2
    <3>4. k - n \in Places(t, x)
      BY <1>1, <3>2, <3>3 DEF Places
    <3> QED
      BY <3>2, <3>4
  <2> HIDE DEF f
  <2> QED
    BY <2>1, <2>2, <2>3, PlacesFinite, Matched
<1>6. IsFiniteSet(Places(u, x)) /\ IsFiniteSet(Places(s, x)) /\ Cardinality(Places(s, x)) \in Nat
  BY <1>2, PlacesFinite
<1>7. IsFiniteSet(B) /\ Cardinality(B) \in Nat
  BY <1>4, <1>6, FS_Subset, FS_CardinalityType
<1> HIDE DEF B
<1>8. Cardinality(Places(u, x)) = Cardinality(Places(s, x)) + Cardinality(B) - Cardinality({})
  BY <1>4, <1>6, <1>7, FS_Union
<1>9. Cardinality({}) = 0
  BY FS_EmptySet
<1> QED
  BY <1>5, <1>6, <1>7, <1>8, <1>9 DEF u

\* One more.
LEMMA PlacesOfAppend ==
  ASSUME NEW T, NEW s \in Seq(T), NEW y \in T, NEW x
  PROVE  Cardinality(Places(Append(s, y), x)) =
           IF y = x THEN Cardinality(Places(s, x)) + 1 ELSE Cardinality(Places(s, x))
<1>1. Append(s, y) = s \o <<y>> /\ <<y>> \in Seq(T)
  OBVIOUS
<1>2. Places(<<y>>, x) = IF y = x THEN {1} ELSE {}
  BY DEF Places
<1>3. Cardinality({}) = 0 /\ Cardinality({1}) = 1
  BY FS_EmptySet, FS_Singleton
<1>4. Cardinality(Places(s, x)) \in Nat
  BY PlacesFinite
<1>5. Cardinality(Places(s \o <<y>>, x)) = Cardinality(Places(s, x)) + Cardinality(Places(<<y>>, x))
  BY <1>1, PlacesOfConcatenation
<1>6. CASE y = x
  <2>1. Cardinality(Places(<<y>>, x)) = 1
    BY <1>2, <1>3, <1>6
  <2> QED
    BY <1>1, <1>5, <1>6, <2>1
<1>7. CASE y # x
  <2>1. Cardinality(Places(<<y>>, x)) = 0
    BY <1>2, <1>3, <1>7
  <2> QED
    BY <1>1, <1>4, <1>5, <1>7, <2>1
<1> QED
  BY <1>6, <1>7

-----------------------------------------------------------------------------
(***************************************************************************)
(* The copies a from import makes.                                         *)
(***************************************************************************)
LEMMA Halves ==
  ASSUME NEW n \in Nat
  PROVE  /\ \A m \in 1 .. 2 * n : m % 2 = 1 => (m + 1) \div 2 \in 1 .. n /\ 2 * ((m + 1) \div 2) = m + 1
         /\ \A m \in 1 .. 2 * n : m % 2 # 1 => m \div 2 \in 1 .. n /\ 2 * (m \div 2) = m
         /\ \A k \in 1 .. n : /\ 2 * k - 1 \in 1 .. 2 * n /\ (2 * k - 1) % 2 = 1
                              /\ (2 * k - 1 + 1) \div 2 = k
                              /\ 2 * k \in 1 .. 2 * n /\ (2 * k) % 2 # 1 /\ (2 * k) \div 2 = k
<1>1. \A m \in 1 .. 2 * n : m % 2 = 1 => (m + 1) \div 2 \in 1 .. n /\ 2 * ((m + 1) \div 2) = m + 1
  OBVIOUS
<1>2. \A m \in 1 .. 2 * n : m % 2 # 1 => m \div 2 \in 1 .. n /\ 2 * (m \div 2) = m
  OBVIOUS
<1>3. \A k \in 1 .. n : /\ 2 * k - 1 \in 1 .. 2 * n /\ (2 * k - 1) % 2 = 1
                        /\ (2 * k - 1 + 1) \div 2 = k
  OBVIOUS
<1>4. \A k \in 1 .. n : 2 * k \in 1 .. 2 * n /\ (2 * k) % 2 # 1 /\ (2 * k) \div 2 = k
  OBVIOUS
<1> QED
  BY <1>1, <1>2, <1>3, <1>4

Copied == Path \X Symbol \X (Kind \cup {"wrapper"})

LEMMA ExportsFacts ==
  ASSUME IInv, NEW p \in visited, NEW sym
  PROVE  /\ Exports(p, sym) \subseteq Nat /\ IsFiniteSet(Exports(p, sym))
         /\ \A k \in Exports(p, sym) : body[p][k].op \in {"function", "value"} /\ body[p][k].sym = sym
         /\ \A kind : IsFiniteSet(OfKind(p, sym, kind)) /\ IsFiniteSet(Chosen(p, sym, kind))
         /\ \A kind : Chosen(p, sym, kind) \subseteq Exports(p, sym)
<1>1. /\ p \in Path /\ body[p] \in Seq(Statements[p]) /\ Len(body[p]) \in Nat
      /\ DOMAIN body[p] = 1 .. Len(body[p])
  BY StackFacts DEF IInv, TypeOK
<1>2. Exports(p, sym) \in SUBSET DOMAIN body[p] /\ Defined(p, sym) \in SUBSET DOMAIN body[p]
  BY DEF Exports, Defined
<1>3. /\ IsFiniteSet(Exports(p, sym)) /\ Exports(p, sym) \subseteq Nat
      /\ IsFiniteSet(Defined(p, sym))
  <2>1. 1 \in Int /\ Len(body[p]) \in Int
    BY <1>1
  <2>2. IsFiniteSet(DOMAIN body[p])
    BY <1>1, <2>1, FS_Interval
  <2> QED
    BY <1>1, <1>2, <2>2, FS_Subset
<1>4. \A k \in Exports(p, sym) : body[p][k].op \in {"function", "value"} /\ body[p][k].sym = sym
  <2> SUFFICES ASSUME NEW k \in Exports(p, sym)
               PROVE  body[p][k].op \in {"function", "value"} /\ body[p][k].sym = sym
    OBVIOUS
  <2>1. /\ ~IsImport(body[p][k]) /\ body[p][k].sym = sym /\ k \in DOMAIN body[p]
        /\ body[p][k].op # "enum"
    BY DEF Exports, Defined
  <2>2. body[p][k] \in Definition \cup Import \cup FromImport
    BY <1>1, <2>1, BodyAssumption
  <2> QED
    BY <2>1, <2>2 DEF Definition, Kind, Import, FromImport, IsImport
<1>5. \A kind : /\ OfKind(p, sym, kind) \in SUBSET Defined(p, sym)
               /\ Chosen(p, sym, kind) \in SUBSET Exports(p, sym)
  BY DEF OfKind, Chosen
<1> QED
  BY <1>3, <1>4, <1>5, FS_Subset

LEMMA CopiesCounted ==
  ASSUME IInv, Top.path \in visited, Top.sym \in Symbol,
         NEW sel \in InOrder(Exports(Top.path, Top.sym)),
         Top.alias => \A k \in Exports(Top.path, Top.sym) : body[Top.path][k].op # "value"
  PROVE  LET p == Top.path
             sym == Top.sym
         IN /\ Copies(sel) \in Seq(Copied)
            /\ \A k \in DOMAIN Copies(sel) : Copies(sel)[k][1] = p /\ Copies(sel)[k][2] = sym
            /\ \A kind \in Kind :
                 Cardinality(Places(Copies(sel), <<p, sym, kind>>)) = Cardinality(Chosen(p, sym, kind))
            /\ Cardinality(Places(Copies(sel), <<p, sym, "wrapper">>)) =
                 IF Top.alias THEN Cardinality(Exports(p, sym)) ELSE 0
<1> DEFINE p == Top.path
           sym == Top.sym
           D == Exports(p, sym)
           n == Cardinality(D)
           kindAt(k) == body[p][sel[k]].op
           c == Copies(sel)
<1>1. /\ IsFiniteSet(D) /\ D \subseteq Nat /\ p \in Path
      /\ \A k \in D : body[p][k].op \in {"function", "value"}
      /\ \A kind : IsFiniteSet(Chosen(p, sym, kind)) /\ Chosen(p, sym, kind) \subseteq D
  BY ExportsFacts DEF IInv, TypeOK
<1>2. /\ n \in Nat /\ sel \in [1 .. n -> D] /\ Len(sel) = n
      /\ \A j, k \in 1 .. n : sel[j] = sel[k] => j = k
      /\ \A d \in D : \E k \in 1 .. n : sel[k] = d
  BY <1>1, OrderIsComplete
<1>3. \A k \in 1 .. n : kindAt(k) \in {"function", "value"}
  BY <1>1, <1>2
<1>4. \A kind : \A d : d \in Chosen(p, sym, kind) <=> d \in D /\ body[p][d].op = kind
  BY DEF Chosen, OfKind, Exports
<1>5. c = IF Top.alias
          THEN [k \in 1 .. 2 * n |->
                  IF k % 2 = 1 THEN <<p, sym, kindAt((k + 1) \div 2)>> ELSE <<p, sym, "wrapper">>]
          ELSE [k \in 1 .. n |-> <<p, sym, kindAt(k)>>]
  BY <1>2 DEF Copies
<1>6. CASE ~Top.alias
  <2>1. c = [k \in 1 .. n |-> <<p, sym, kindAt(k)>>]
    BY <1>5, <1>6
  <2> HIDE DEF c, kindAt, D, n
  <2>2. c \in Seq(Copied) /\ DOMAIN c = 1 .. n
    BY <1>1, <1>2, <1>3, <2>1 DEF Copied, Kind
  <2>3. \A k \in DOMAIN c : c[k][1] = p /\ c[k][2] = sym
    BY <2>1
  <2>4. ASSUME NEW kind \in Kind
        PROVE  Cardinality(Places(c, <<p, sym, kind>>)) = Cardinality(Chosen(p, sym, kind))
    <3> DEFINE f == [k \in Places(c, <<p, sym, kind>>) |-> sel[k]]
    <3>1. \A k : k \in Places(c, <<p, sym, kind>>) <=> k \in 1 .. n /\ kindAt(k) = kind
      BY <2>1, <2>2 DEF Places
    <3>2. f \in [Places(c, <<p, sym, kind>>) -> Chosen(p, sym, kind)]
      BY <1>2, <1>4, <3>1 DEF kindAt
    <3>3. \A x, y \in Places(c, <<p, sym, kind>>) : f[x] = f[y] => x = y
      BY <1>2, <3>1
    <3>4. \A d \in Chosen(p, sym, kind) : \E k \in Places(c, <<p, sym, kind>>) : f[k] = d
      BY <1>2, <1>4, <3>1 DEF kindAt
    <3>5. IsFiniteSet(Places(c, <<p, sym, kind>>))
      BY <2>2, PlacesFinite
    <3> HIDE DEF f
    <3> QED
      BY <3>2, <3>3, <3>4, <3>5, Matched
  <2>5. Places(c, <<p, sym, "wrapper">>) = {}
    <3>1. \A k \in 1 .. n : kindAt(k) # "wrapper"
      BY <1>3 DEF kindAt
    <3> QED
      BY <2>1, <2>2, <3>1 DEF Places
  <2>6. Cardinality(Places(c, <<p, sym, "wrapper">>)) = 0
    BY <2>5, FS_EmptySet
  <2> QED
    BY <1>6, <2>2, <2>3, <2>4, <2>6 DEF c
<1>7. CASE Top.alias
  <2>1. c = [k \in 1 .. 2 * n |->
               IF k % 2 = 1 THEN <<p, sym, kindAt((k + 1) \div 2)>> ELSE <<p, sym, "wrapper">>]
    BY <1>5, <1>7
  <2> HIDE DEF c, kindAt, D, n
  <2>2. /\ \A m \in 1 .. 2 * n : m % 2 = 1 => (m + 1) \div 2 \in 1 .. n /\ 2 * ((m + 1) \div 2) = m + 1
        /\ \A m \in 1 .. 2 * n : m % 2 # 1 => m \div 2 \in 1 .. n /\ 2 * (m \div 2) = m
        /\ \A k \in 1 .. n : /\ 2 * k - 1 \in 1 .. 2 * n /\ (2 * k - 1) % 2 = 1
                             /\ (2 * k - 1 + 1) \div 2 = k
                             /\ 2 * k \in 1 .. 2 * n /\ (2 * k) % 2 # 1 /\ (2 * k) \div 2 = k
    BY <1>2, Halves
  <2>3. c \in Seq(Copied) /\ DOMAIN c = 1 .. 2 * n
    <3>1. \A m \in 1 .. 2 * n : c[m] \in Copied
      BY <1>1, <1>3, <2>1, <2>2 DEF Copied, Kind
    <3> DEFINE m == 2 * n
    <3>2. m \in Nat
      BY <1>2
    <3>3. DOMAIN c = 1 .. m /\ c = [k \in 1 .. m |-> c[k]]
      BY <2>1
    <3>4. \A k \in 1 .. m : c[k] \in Copied
      BY <3>1
    <3> HIDE DEF m
    <3>5. c \in Seq(Copied)
      BY <3>2, <3>3, <3>4
    <3> QED
      BY <3>3, <3>5 DEF m
  <2>4. \A k \in DOMAIN c : c[k][1] = p /\ c[k][2] = sym
    BY <2>1
  <2>5. ASSUME NEW kind \in Kind
        PROVE  Cardinality(Places(c, <<p, sym, kind>>)) = Cardinality(Chosen(p, sym, kind))
    <3> DEFINE P == Places(c, <<p, sym, kind>>)
               f == [m \in P |-> sel[(m + 1) \div 2]]
    <3>1. \A m : m \in P <=> m \in 1 .. 2 * n /\ m % 2 = 1 /\ kindAt((m + 1) \div 2) = kind
      BY <2>1, <2>3 DEF Places, Kind
    <3>2. f \in [P -> Chosen(p, sym, kind)]
      BY <1>2, <1>4, <2>2, <3>1 DEF kindAt
    <3>3. ASSUME NEW x \in P, NEW y \in P, f[x] = f[y]
          PROVE  x = y
      <4>1. (x + 1) \div 2 \in 1 .. n /\ (y + 1) \div 2 \in 1 .. n
        BY <2>2, <3>1
      <4>2. (x + 1) \div 2 = (y + 1) \div 2
        BY <1>2, <3>3, <4>1
      <4>3. x + 1 = y + 1 /\ x \in Int /\ y \in Int
        BY <2>2, <3>1, <4>2
      <4> QED
        BY <4>3
    <3>4. ASSUME NEW d \in Chosen(p, sym, kind)
          PROVE  \E m \in P : f[m] = d
      <4>1. PICK k \in 1 .. n : sel[k] = d
        BY <1>2, <1>4
      <4>2. kindAt(k) = kind
        BY <1>4, <4>1 DEF kindAt
      <4>3. 2 * k - 1 \in P
        BY <2>2, <3>1, <4>2
      <4> QED
        BY <2>2, <4>1, <4>3
    <3>5. IsFiniteSet(P)
      BY <2>3, PlacesFinite
    <3> HIDE DEF f, P
    <3>6. Cardinality(P) = Cardinality(Chosen(p, sym, kind))
      BY <3>2, <3>3, <3>4, <3>5, Matched
    <3> QED
      BY <3>6 DEF P
  <2>6. Cardinality(Places(c, <<p, sym, "wrapper">>)) = Cardinality(D)
    <3> DEFINE P == Places(c, <<p, sym, "wrapper">>)
               f == [m \in P |-> sel[m \div 2]]
    <3>1. \A m : m \in P <=> m \in 1 .. 2 * n /\ m % 2 # 1
      <4>1. \A m \in 1 .. 2 * n : m % 2 = 1 => kindAt((m + 1) \div 2) # "wrapper"
        BY <1>3, <2>2 DEF kindAt
      <4> QED
        BY <2>1, <2>3, <4>1 DEF Places
    <3>2. f \in [P -> D]
      BY <1>2, <2>2, <3>1
    <3>3. ASSUME NEW x \in P, NEW y \in P, f[x] = f[y]
          PROVE  x = y
      <4>1. x \div 2 \in 1 .. n /\ y \div 2 \in 1 .. n
        BY <2>2, <3>1
      <4>2. x \div 2 = y \div 2
        BY <1>2, <3>3, <4>1
      <4> QED
        BY <2>2, <3>1, <4>2
    <3>4. ASSUME NEW d \in D
          PROVE  \E m \in P : f[m] = d
      <4>1. PICK k \in 1 .. n : sel[k] = d
        BY <1>2
      <4>2. 2 * k \in P
        BY <2>2, <3>1
      <4> QED
        BY <2>2, <4>1, <4>2
    <3>5. IsFiniteSet(P)
      BY <2>3, PlacesFinite
    <3> HIDE DEF f, P
    <3>6. Cardinality(P) = Cardinality(D)
      BY <3>2, <3>3, <3>4, <3>5, Matched
    <3> QED
      BY <3>6 DEF P
  <2> QED
    BY <1>7, <2>3, <2>4, <2>5, <2>6 DEF c, D
<1> QED
  BY <1>6, <1>7

-----------------------------------------------------------------------------
(***************************************************************************)
(* The account of a file.                                                  *)
(***************************************************************************)
LEMMA ImportIs ==
  ASSUME IInv, NEW i \in Imports
  PROVE  /\ i = <<i[1], i[2]>> /\ i[1] \in visited /\ i[2] \in DOMAIN body[i[1]] /\ i[2] \in Nat
         /\ At(i) = body[i[1]][i[2]] /\ IsImport(At(i)) /\ At(i) \in Import \cup FromImport
<1>1. PICK q \in visited : i \in {q} \X DOMAIN body[q]
  BY DEF Imports
<1>2. i = <<i[1], i[2]>> /\ i[1] = q /\ i[2] \in DOMAIN body[q]
  BY <1>1
<1>3. IsImport(At(i)) /\ At(i) = body[q][i[2]]
  BY <1>2 DEF Imports, At
<1>4. q \in Path /\ body[q] \in Seq(Statements[q]) /\ DOMAIN body[q] = 1 .. Len(body[q])
  BY StackFacts DEF IInv, TypeOK
<1>5. At(i) \in Definition \cup Import \cup FromImport
  BY <1>2, <1>3, <1>4, BodyAssumption
<1> QED
  BY <1>2, <1>3, <1>4, <1>5 DEF IsImport, Definition, Kind

LEMMA ImportsFinite ==
  ASSUME IInv
  PROVE  IsFiniteSet(Imports)
<1> DEFINE Pairs == {{p} \X DOMAIN body[p] : p \in visited}
<1>1. IsFiniteSet(visited)
  <2>1. visited \in SUBSET Path
    BY DEF IInv, TypeOK
  <2> QED
    BY <2>1, PathAssumption, FS_Subset
<1>2. IsFiniteSet(Pairs)
  <2> DEFINE f == [p \in visited |-> {p} \X DOMAIN body[p]]
  <2>1. f \in Surjection(visited, Pairs)
    BY Fun_IsSurj
  <2> HIDE DEF f, Pairs
  <2> QED
    BY <1>1, <2>1, FS_Surjection
<1>3. \A T \in Pairs : IsFiniteSet(T)
  <2> SUFFICES ASSUME NEW p \in visited
               PROVE  IsFiniteSet({p} \X DOMAIN body[p])
    OBVIOUS
  <2>1. DOMAIN body[p] = 1 .. Len(body[p]) /\ 1 \in Int /\ Len(body[p]) \in Int
    BY StackFacts
  <2>2. IsFiniteSet(DOMAIN body[p])
    BY <2>1, FS_Interval
  <2>3. IsFiniteSet({p})
    BY FS_Singleton
  <2> QED
    BY <2>2, <2>3, FS_Product
<1> HIDE DEF Pairs
<1>4. IsFiniteSet(UNION Pairs)
  BY <1>2, <1>3, FS_UNION
<1>5. Imports \in SUBSET UNION Pairs
  BY DEF Imports, Pairs
<1> QED
  BY <1>4, <1>5, FS_Subset

LEMMA ServedFinite ==
  ASSUME IInv, NEW p, NEW sym
  PROVE  /\ IsFiniteSet(Served(p, sym)) /\ Cardinality(Served(p, sym)) \in Nat
         /\ IsFiniteSet(Renamed(Served(p, sym))) /\ Cardinality(Renamed(Served(p, sym))) \in Nat
<1>1. Served(p, sym) \in SUBSET Imports /\ Renamed(Served(p, sym)) \in SUBSET Imports
  BY DEF Served, FromImports, Renamed
<1> QED
  BY <1>1, ImportsFinite, FS_Subset, FS_CardinalityType

\* Imports stay, and what they are.
LEMMA ImportsKept ==
  ASSUME IInv, Keeps, NEW i \in Imports
  PROVE  i \in Imports' /\ At(i)' = At(i)
<1>1. /\ i = <<i[1], i[2]>> /\ i[1] \in visited /\ i[2] \in DOMAIN body[i[1]]
      /\ At(i) = body[i[1]][i[2]] /\ IsImport(At(i))
  BY ImportIs
<1>2. i[1] \in visited' /\ body'[i[1]] = body[i[1]]
  BY <1>1 DEF Keeps
<1>3. At(i)' = At(i)
  BY <1>1, <1>2 DEF At
<1>4. i \in UNION {{p} \X DOMAIN body'[p] : p \in visited'}
  <2>1. i \in {i[1]} \X DOMAIN body'[i[1]]
    BY <1>1, <1>2
  <2> QED
    BY <1>2, <2>1
<1> QED
  BY <1>1, <1>2, <1>3, <1>4 DEF Imports, IsImport

LEMMA NamedKept ==
  ASSUME IInv, Keeps, NEW op, NEW p, NamedBy(op, p)
  PROVE  NamedBy(op, p)'
<1>1. PICK i \in Imports : At(i).op = op /\ At(i).of = p
  BY DEF NamedBy
<1>2. i \in Imports' /\ At(i)' = At(i)
  BY ImportsKept
<1> QED
  BY <1>1, <1>2 DEF NamedBy

LEMMA CurrentImport ==
  ASSUME IInv, AtStatement, IsImport(Current)
  PROVE  <<Top.path, Top.next>> \in Imports /\ At(<<Top.path, Top.next>>) = Current
<1>1. Top.path \in visited /\ Top.next \in DOMAIN body[Top.path]
  BY StatementFacts
<1> QED
  BY <1>1, ImportFacts DEF Current

\* Files that are new have everything ahead.
NewAhead == \A q \in visited' \ visited : \A n \in DOMAIN body'[q] : Ahead(q, n)'

\* An import that is served after a step and was not before is the one in
\* call, if there is one.
LEMMA ServedAfter ==
  ASSUME IInv, Keeps, NewAhead, NEW p, NEW sym, NEW call,
         \A i \in Imports : At(i).op = "from" => (Done(i)' <=> Done(i) \/ i \in call)
  PROVE  Served(p, sym)' = Served(p, sym) \cup {i \in FromImports(p, sym) : i \in call}
<1>1. ASSUME NEW i \in Served(p, sym)'
      PROVE  i \in FromImports(p, sym) /\ (Done(i) \/ i \in call)
  <2>1. /\ i \in UNION {{q} \X DOMAIN body'[q] : q \in visited'}
        /\ IsImport(At(i)') /\ At(i)'.op = "from" /\ At(i)'.of = p /\ At(i)'.sym = sym
        /\ Done(i)'
    BY <1>1 DEF Served, FromImports, Imports, At, IsImport
  <2>2. PICK q \in visited' : i \in {q} \X DOMAIN body'[q]
    BY <2>1
  <2>3. i = <<i[1], i[2]>> /\ i[1] = q /\ i[2] \in DOMAIN body'[q]
    BY <2>2
  <2>4. q \in visited
    BY <2>1, <2>3 DEF NewAhead, Done
  <2>5. body'[q] = body[q]
    BY <2>4 DEF Keeps
  <2>6. At(i)' = At(i)
    BY <2>3, <2>5 DEF At
  <2>7. i \in {q} \X DOMAIN body[q]
    BY <2>2, <2>5
  <2>8. i \in UNION {{r} \X DOMAIN body[r] : r \in visited}
    BY <2>4, <2>7
  <2>9. i \in Imports
    BY <2>1, <2>6, <2>8 DEF Imports, At, IsImport
  <2> QED
    BY <2>1, <2>6, <2>9 DEF FromImports
<1>2. ASSUME NEW i \in FromImports(p, sym), Done(i) \/ i \in call
      PROVE  i \in Served(p, sym)'
  <2>1. i \in Imports /\ At(i).op = "from" /\ At(i).of = p /\ At(i).sym = sym
    BY <1>2 DEF FromImports
  <2>2. i \in Imports' /\ At(i)' = At(i) /\ Done(i)'
    BY <1>2, <2>1, ImportsKept
  <2>3. i \in FromImports(p, sym)'
    BY <2>1, <2>2 DEF FromImports
  <2> QED
    BY <2>2, <2>3 DEF Served
<1>3. Served(p, sym) = {i \in FromImports(p, sym) : Done(i)}
  BY DEF Served
<1> QED
  BY <1>1, <1>2, <1>3

LEMMA RenamedAfter ==
  ASSUME IInv, Keeps, NEW p, NEW sym, NEW S, S \subseteq Imports, Served(p, sym)' = S
  PROVE  Renamed(Served(p, sym))' = Renamed(S)
<1>1. \A i \in S : At(i)' = At(i)
  BY ImportsKept
<1>2. Renamed(Served(p, sym))' = {i \in S : At(i)'.alias}
  BY DEF Renamed
<1> QED
  BY <1>1, <1>2 DEF Renamed

\* What a file holds stays.
LEMMA ExportsKept ==
  ASSUME IInv, Keeps, NEW p \in visited, NEW sym, NEW kind
  PROVE  /\ Exports(p, sym)' = Exports(p, sym)
         /\ OfKind(p, sym, kind)' = OfKind(p, sym, kind)
         /\ Chosen(p, sym, kind)' = Chosen(p, sym, kind)
<1>1. body'[p] = body[p]
  BY DEF Keeps
<1>2. Defined(p, sym)' = Defined(p, sym)
  BY <1>1 DEF Defined, IsImport
<1>3. Exports(p, sym)' = Exports(p, sym) /\ OfKind(p, sym, kind)' = OfKind(p, sym, kind)
  BY <1>1, <1>2 DEF Exports, OfKind
<1> QED
  BY <1>3 DEF Chosen

\* Definitions that are ahead stay ahead.
SameAhead(p) ==
  \A n \in DOMAIN body[p] : ~IsImport(body[p][n]) => (Ahead(p, n)' <=> Ahead(p, n))

LEMMA WrittenKept ==
  ASSUME IInv, Keeps, NEW p \in visited, SameAhead(p), NEW sym, NEW kind
  PROVE  Written(p, sym, kind)' = Written(p, sym, kind)
<1>1. OfKind(p, sym, kind)' = OfKind(p, sym, kind)
  BY ExportsKept
<1>2. \A k \in OfKind(p, sym, kind) : Ahead(p, k)' <=> Ahead(p, k)
  BY DEF OfKind, Exports, Defined, SameAhead
<1>3. Written(p, sym, kind)' = {k \in OfKind(p, sym, kind)' : Ahead(p, k)' = FALSE}
  BY DEF Written
<1> QED
  BY <1>1, <1>2 DEF Written

LEMMA CardinalitiesAreNumbers ==
  ASSUME IInv, NEW p \in visited, NEW sym, NEW kind
  PROVE  /\ Cardinality(Exports(p, sym)) \in Nat /\ Cardinality(OfKind(p, sym, kind)) \in Nat
         /\ Cardinality(Chosen(p, sym, kind)) \in Nat
         /\ IsFiniteSet(Written(p, sym, kind)) /\ Cardinality(Written(p, sym, kind)) \in Nat
<1>1. /\ IsFiniteSet(Exports(p, sym)) /\ IsFiniteSet(OfKind(p, sym, kind))
      /\ IsFiniteSet(Chosen(p, sym, kind))
  BY ExportsFacts
<1>2. Written(p, sym, kind) \in SUBSET OfKind(p, sym, kind)
  BY DEF Written
<1> QED
  BY <1>1, <1>2, FS_Subset, FS_CardinalityType

LEMMA NumbersAfter ==
  IInv' => (\A p \in visited : \A sym, kind :
              /\ Cardinality(Exports(p, sym)) \in Nat
              /\ Cardinality(Chosen(p, sym, kind)) \in Nat)'
<1>1. IInv => \A p \in visited : \A sym, kind :
                /\ Cardinality(Exports(p, sym)) \in Nat
                /\ Cardinality(Chosen(p, sym, kind)) \in Nat
  BY CardinalitiesAreNumbers
<1> QED
  BY <1>1, PTL

\* What the account of p says of one symbol.
Count(p, whole, sym) ==
  /\ \A kind \in Kind :
       Cardinality(CopiesOf(p, sym, kind)) =
         whole * Cardinality(Written(p, sym, kind))
         + Cardinality(Served(p, sym)) * Cardinality(Chosen(p, sym, kind))
  /\ Cardinality(CopiesOf(p, sym, "wrapper")) =
       Cardinality(Renamed(Served(p, sym))) * Cardinality(Exports(p, sym))

\* A step that writes nothing about sym of p and completes no from import of it.
LEMMA QuietCount ==
  ASSUME IInv, IInv', Keeps, NEW p \in visited, NEW whole \in {0, 1}, NEW sym,
         Count(p, whole, sym),
         whole = 0 \/ \A kind : Written(p, sym, kind)' = Written(p, sym, kind),
         \A kind : CopiesOf(p, sym, kind)' = CopiesOf(p, sym, kind),
         Served(p, sym)' = Served(p, sym)
  PROVE  Count(p, whole, sym)'
<1>1. Renamed(Served(p, sym))' = Renamed(Served(p, sym))
  <2>1. Served(p, sym) \subseteq Imports
    BY DEF Served, FromImports
  <2> QED
    BY <2>1, RenamedAfter
<1>2. \A kind : /\ Exports(p, sym)' = Exports(p, sym)
               /\ OfKind(p, sym, kind)' = OfKind(p, sym, kind)
               /\ Chosen(p, sym, kind)' = Chosen(p, sym, kind)
  BY ExportsKept
<1>3. \A kind : whole * Cardinality(Written(p, sym, kind)') = whole * Cardinality(Written(p, sym, kind))
  <2> SUFFICES ASSUME NEW kind
               PROVE  whole * Cardinality(Written(p, sym, kind)') = whole * Cardinality(Written(p, sym, kind))
    OBVIOUS
  <2>1. CASE Written(p, sym, kind)' = Written(p, sym, kind)
    BY <2>1
  <2>2. CASE whole = 0
    <3>1. OfKind(p, sym, kind)' = OfKind(p, sym, kind) /\ IsFiniteSet(OfKind(p, sym, kind))
      BY <1>2, ExportsFacts
    <3>2. Written(p, sym, kind)' \in SUBSET (OfKind(p, sym, kind)')
      BY DEF Written
    <3>3. Cardinality(Written(p, sym, kind)') \in Nat
      BY <3>1, <3>2, FS_Subset, FS_CardinalityType
    <3>4. Cardinality(Written(p, sym, kind)) \in Nat
      BY CardinalitiesAreNumbers
    <3> QED
      BY <2>2, <3>3, <3>4
  <2> QED
    BY <2>1, <2>2
<1> QED
  BY <1>1, <1>2, <1>3 DEF Count

LEMMA BalanceIsCounts ==
  ASSUME NEW p, NEW whole
  PROVE  Balanced(p, whole) <=> \A sym \in Symbol : Count(p, whole, sym)
BY DEF Balanced, Count

\* A step that writes nothing and completes no from import.
LEMMA QuietBalance ==
  ASSUME IInv, IInv', Keeps, NewAhead, emitted' = emitted, NEW p \in visited, NEW whole \in {0, 1},
         Balanced(p, whole), whole = 0 \/ SameAhead(p),
         \A i \in Imports : At(i).op = "from" => (Done(i)' <=> Done(i))
  PROVE  Balanced(p, whole)'
<1> SUFFICES ASSUME NEW sym \in Symbol
             PROVE  Count(p, whole, sym)'
  BY BalanceIsCounts DEF Balanced, Count
<1>1. \A kind : CopiesOf(p, sym, kind)' = CopiesOf(p, sym, kind)
  BY DEF CopiesOf
<1>2. Served(p, sym)' = Served(p, sym)
  <2> DEFINE none == {}
  <2>1. \A i : i \notin none
    OBVIOUS
  <2> HIDE DEF none
  <2>2. \A i \in Imports : At(i).op = "from" => (Done(i)' <=> Done(i) \/ i \in none)
    BY <2>1
  <2>3. Served(p, sym)' = Served(p, sym) \cup {i \in FromImports(p, sym) : i \in none}
    BY <2>2, ServedAfter
  <2> QED
    BY <2>1, <2>3
<1>3. Count(p, whole, sym)
  BY BalanceIsCounts
<1>4. whole = 0 \/ \A kind : Written(p, sym, kind)' = Written(p, sym, kind)
  BY WrittenKept
<1> QED
  BY <1>1, <1>2, <1>3, <1>4, QuietCount

\* Where a file comes from, when the stack moves.
LEMMA OriginKept ==
  ASSUME IInv, Keeps, NEW p \in visited, NEW whole, Origin(p, whole),
         \A k \in DOMAIN stack' : stack'[k].path = p =>
           \/ stack'[k].sym # NULL /\ ~(stack'[k].next <= Len(body[p]))
           \/ \E j \in DOMAIN stack :
                /\ stack[j].path = p /\ stack[j].sym = stack'[k].sym
                /\ stack'[k].next <= Len(body[p]) => stack[j].next <= Len(body[p])
  PROVE  Origin(p, whole)'
<1>1. whole = 1 => p = Entry \/ NamedBy("import", p)'
  BY NamedKept DEF Origin
<1>2. whole = 0 => NamedBy("from", p)'
  BY NamedKept DEF Origin
<1>3. Len(body'[p]) = Len(body[p])
  BY KeptFacts
<1> QED
  BY <1>1, <1>2, <1>3 DEF Origin

LEMMA OriginAdvanced ==
  ASSUME IInv, AtStatement, Keeps, NEW p \in visited, NEW whole, Origin(p, whole), stack' = Advanced
  PROVE  Origin(p, whole)'
<1>1. /\ Len(stack) \in Nat /\ DOMAIN stack = 1 .. Len(stack) /\ Top = stack[Len(stack)]
      /\ Top.next \in Nat /\ Top.next <= Len(body[Top.path])
  BY StackFacts, StatementFacts DEF AtStatement
<1>2. /\ DOMAIN stack' = 1 .. Len(stack)
      /\ \A k \in 1 .. Len(stack) - 1 : stack'[k] = stack[k]
      /\ \A k \in 1 .. Len(stack) : stack'[k].path = stack[k].path /\ stack'[k].sym = stack[k].sym
  BY <1>1, AdvancedFacts
<1>3. ASSUME NEW k \in DOMAIN stack', stack'[k].path = p
      PROVE  /\ k \in DOMAIN stack /\ stack[k].path = p /\ stack[k].sym = stack'[k].sym
             /\ stack'[k].next <= Len(body[p]) => stack[k].next <= Len(body[p])
  <2>1. k \in DOMAIN stack /\ stack[k].path = p /\ stack[k].sym = stack'[k].sym
    BY <1>1, <1>2, <1>3
  <2>2. CASE k = Len(stack)
    BY <1>1, <2>1, <2>2
  <2>3. CASE k # Len(stack)
    <3>1. k \in 1 .. Len(stack) - 1
      BY <1>1, <1>2, <2>3
    <3> QED
      BY <1>2, <2>1, <3>1
  <2> QED
    BY <2>1, <2>2, <2>3
<1> QED
  BY <1>3, OriginKept

LEMMA OriginPushed ==
  ASSUME IInv, AtStatement, Keeps, NEW p \in visited, NEW whole, Origin(p, whole),
         NEW c \in CallType, stack' = Append(Advanced, c),
         c.path \in visited => c.sym # NULL /\ c.next = Len(body[c.path]) + 1
  PROVE  Origin(p, whole)'
<1> DEFINE L == Len(stack)
<1>1. /\ L \in Nat /\ DOMAIN stack = 1 .. L /\ Top = stack[L]
      /\ Top.next \in Nat /\ Top.next <= Len(body[Top.path]) /\ Len(body[p]) \in Nat
  BY StackFacts, StatementFacts DEF AtStatement
<1>2. /\ Advanced \in Seq(CallType) /\ Len(Advanced) = L
      /\ \A k \in 1 .. L - 1 : Advanced[k] = stack[k]
      /\ \A k \in 1 .. L : Advanced[k].path = stack[k].path /\ Advanced[k].sym = stack[k].sym
  BY AdvancedFacts
<1>3. DOMAIN stack' = 1 .. L + 1 /\ stack'[L + 1] = c /\ \A k \in 1 .. L : stack'[k] = Advanced[k]
  BY <1>1, <1>2
<1> HIDE DEF L
<1>4. ASSUME NEW k \in 1 .. L, stack'[k].path = p
      PROVE  /\ k \in DOMAIN stack /\ stack[k].path = p /\ stack[k].sym = stack'[k].sym
             /\ stack'[k].next <= Len(body[p]) => stack[k].next <= Len(body[p])
  <2>1. k \in DOMAIN stack /\ stack[k].path = p /\ stack[k].sym = stack'[k].sym
    BY <1>1, <1>2, <1>3, <1>4
  <2>2. CASE k = L
    BY <1>1, <2>1, <2>2
  <2>3. CASE k # L
    <3>1. k \in 1 .. L - 1
      BY <1>1, <2>3
    <3> QED
      BY <1>2, <1>3, <2>1, <3>1
  <2> QED
    BY <2>1, <2>2, <2>3
<1>5. ASSUME c.path = p
      PROVE  c.sym # NULL /\ ~(c.next <= Len(body[p]))
  BY <1>1, <1>5
<1>6. \A k \in DOMAIN stack' : k \in 1 .. L \/ k = L + 1
  BY <1>1, <1>3
<1>7. \A k \in DOMAIN stack' : stack'[k].path = p =>
        \/ stack'[k].sym # NULL /\ ~(stack'[k].next <= Len(body[p]))
        \/ \E j \in DOMAIN stack :
             /\ stack[j].path = p /\ stack[j].sym = stack'[k].sym
             /\ stack'[k].next <= Len(body[p]) => stack[j].next <= Len(body[p])
  BY <1>3, <1>4, <1>5, <1>6
<1> QED
  BY <1>7, OriginKept

LEMMA OriginPopped ==
  ASSUME IInv, AtEnd, Keeps, NEW p \in visited, NEW whole, Origin(p, whole), stack' = Popped
  PROVE  Origin(p, whole)'
<1> DEFINE L == Len(stack)
<1>1. stack \in Seq(CallType) /\ L \in Nat /\ DOMAIN stack = 1 .. L /\ L > 0
  <2>1. stack \in Seq(CallType) /\ L \in Nat /\ DOMAIN stack = 1 .. L
    BY StackFacts
  <2>2. stack # << >>
    BY DEF AtEnd, Running
  <2> QED
    BY <2>1, <2>2
<1>2. DOMAIN stack' = 1 .. L - 1 /\ \A k \in 1 .. L - 1 : stack'[k] = stack[k]
  <2>1. L - 1 \in Nat /\ L - 1 <= Len(stack)
    BY <1>1
  <2>2. stack' = SubSeq(stack, 1, L - 1)
    BY DEF Popped
  <2> QED
    BY <1>1, <2>1, <2>2
<1> HIDE DEF L
<1>3. \A k \in DOMAIN stack' : k \in DOMAIN stack /\ stack'[k] = stack[k]
  BY <1>1, <1>2
<1> QED
  BY <1>3, OriginKept

-----------------------------------------------------------------------------
(***************************************************************************)
(* Steps that write nothing.                                               *)
(***************************************************************************)
LEMMA DoneAdvanced ==
  ASSUME IInv, AtStatement, stack' = Advanced, NEW i \in Imports, At(i).op = "from",
         IsImport(Current) => Current.op = "import"
  PROVE  Done(i)' <=> Done(i)
<1>1. i = <<i[1], i[2]>> /\ i[1] \in visited /\ i[2] \in DOMAIN body[i[1]]
      /\ At(i) = body[i[1]][i[2]] /\ IsImport(At(i))
  BY ImportIs
<1>2. ~(i[1] = Top.path /\ i[2] = Top.next)
  BY <1>1 DEF Current
<1>3. /\ Ahead(i[1], i[2])' <=> Ahead(i[1], i[2])
      /\ UnderWay(i[1], i[2])' <=> UnderWay(i[1], i[2])
  BY <1>1, <1>2, AdvanceMoves
<1> QED
  BY <1>3 DEF Done

LEMMA DonePushed ==
  ASSUME IInv, AtStatement, NEW c \in CallType, stack' = Append(Advanced, c),
         c.path \in visited => c.next = Len(body[c.path]) + 1, NEW i \in Imports
  PROVE  Done(i)' <=> Done(i)
<1>1. i = <<i[1], i[2]>> /\ i[1] \in visited /\ i[2] \in DOMAIN body[i[1]]
  BY ImportIs
<1>2. /\ Ahead(i[1], i[2])' <=> Ahead(i[1], i[2]) /\ ~(i[1] = Top.path /\ i[2] = Top.next)
      /\ UnderWay(i[1], i[2])' <=> UnderWay(i[1], i[2]) \/ (i[1] = Top.path /\ i[2] = Top.next)
  BY <1>1, PushMoves
<1> QED
  BY <1>2, CurrentFacts DEF Done

LEMMA DonePopped ==
  ASSUME IInv, AtEnd, stack' = Popped, NEW i \in Imports
  PROVE  /\ Done(i)' <=> Done(i) \/ IsCall(i[1], i[2])
         /\ ~(Done(i) /\ IsCall(i[1], i[2]))
<1>1. i = <<i[1], i[2]>> /\ i[1] \in visited /\ i[2] \in DOMAIN body[i[1]]
  BY ImportIs
<1>2. /\ Ahead(i[1], i[2])' <=> Ahead(i[1], i[2])
      /\ UnderWay(i[1], i[2])' <=> UnderWay(i[1], i[2]) /\ ~IsCall(i[1], i[2])
      /\ IsCall(i[1], i[2]) => UnderWay(i[1], i[2]) /\ ~Ahead(i[1], i[2])
  BY <1>1, PopMoves
<1> QED
  BY <1>2 DEF Done

LEMMA SameAheadAdvanced ==
  ASSUME IInv, AtStatement, stack' = Advanced, NEW p \in visited, IsImport(Current) \/ p # Top.path
  PROVE  SameAhead(p)
<1> SUFFICES ASSUME NEW n \in DOMAIN body[p], ~IsImport(body[p][n])
             PROVE  Ahead(p, n)' <=> Ahead(p, n)
  BY DEF SameAhead
<1>1. ~(p = Top.path /\ n = Top.next)
  BY DEF Current
<1> QED
  BY <1>1, AdvanceMoves

LEMMA SameAheadPushed ==
  ASSUME IInv, AtStatement, NEW c \in CallType, stack' = Append(Advanced, c),
         c.path \in visited => c.next = Len(body[c.path]) + 1, NEW p \in visited, IsImport(Current)
  PROVE  SameAhead(p)
<1> SUFFICES ASSUME NEW n \in DOMAIN body[p], ~IsImport(body[p][n])
             PROVE  Ahead(p, n)' <=> Ahead(p, n)
  BY DEF SameAhead
<1>1. ~(p = Top.path /\ n = Top.next)
  BY DEF Current
<1> QED
  BY <1>1, PushMoves

LEMMA SameAheadPopped ==
  ASSUME IInv, AtEnd, stack' = Popped, NEW p \in visited
  PROVE  SameAhead(p)
BY PopMoves DEF SameAhead

\* A from import that was served has its file there.
LEMMA ServedIsVisited ==
  ASSUME IInv, status \in {"loading", "loaded"}, NEW i \in Imports, Done(i)
  PROVE  At(i).of \in visited
<1>1. /\ i[1] \in visited /\ i[2] \in DOMAIN body[i[1]]
      /\ At(i) = body[i[1]][i[2]] /\ IsImport(At(i))
  BY ImportIs
<1>2. Ahead(i[1], i[2]) \/ Handled(i[1], i[2])
  BY <1>1 DEF IInv, Executed
<1> QED
  BY <1>1, <1>2 DEF Done, Handled

\* A file that is new has an empty account.
LEMMA NewBalance ==
  ASSUME IInv, IInv', Emission, Keeps, NewAhead, emitted' = emitted, status = "loading",
         \A i \in Imports : At(i).op = "from" => (Done(i)' <=> Done(i)),
         NEW p \in visited' \ visited, NEW whole \in {0, 1}
  PROVE  Balanced(p, whole)'
<1> SUFFICES ASSUME NEW sym \in Symbol
             PROVE  Count(p, whole, sym)'
  BY DEF Balanced, Count
<1>1. \A kind : CopiesOf(p, sym, kind)' = {}
  BY DEF Emission, CopiesOf
<1>2. \A kind : Written(p, sym, kind)' = {}
  <2> SUFFICES ASSUME NEW kind, NEW k \in Written(p, sym, kind)'
               PROVE  FALSE
    OBVIOUS
  <2>1. k \in DOMAIN body'[p] /\ ~Ahead(p, k)'
    BY DEF Written, OfKind, Exports, Defined
  <2> QED
    BY <2>1 DEF NewAhead
<1>3. Served(p, sym)' = {}
  <2> DEFINE none == {}
  <2>1. \A i : i \notin none
    OBVIOUS
  <2> HIDE DEF none
  <2>2. \A i \in Imports : At(i).op = "from" => (Done(i)' <=> Done(i) \/ i \in none)
    BY <2>1
  <2>3. Served(p, sym)' = Served(p, sym) \cup {i \in FromImports(p, sym) : i \in none}
    BY <2>2, ServedAfter
  <2>4. \A i \in Served(p, sym) : At(i).of = p /\ i \in Imports /\ Done(i)
    BY DEF Served, FromImports
  <2>5. \A i \in Served(p, sym) : FALSE
    BY <2>4, ServedIsVisited
  <2> QED
    BY <2>1, <2>3, <2>5
<1>4. Renamed(Served(p, sym))' = {}
  BY <1>3 DEF Renamed
<1>5. Cardinality({}) = 0
  BY FS_EmptySet
<1>6. \A kind : Cardinality(Exports(p, sym)') \in Nat /\ Cardinality(Chosen(p, sym, kind)') \in Nat
  BY NumbersAfter
<1>7. \A n \in Nat : whole * 0 = 0 /\ 0 * n = 0 /\ 0 + 0 * n = 0
  OBVIOUS
<1> QED
  BY <1>1, <1>2, <1>3, <1>4, <1>5, <1>6, <1>7 DEF Count

LEMMA QuietEmission ==
  ASSUME IInv, IInv', Emission, Keeps, NewAhead, emitted' = emitted, status = "loading",
         \A i \in Imports : At(i).op = "from" => (Done(i)' <=> Done(i)),
         \A p \in visited : \A whole \in {0, 1} :
           Origin(p, whole) => Origin(p, whole)' /\ (whole = 0 \/ SameAhead(p)),
         \A p \in visited' \ visited : \E whole \in {0, 1} : Origin(p, whole)'
  PROVE  Emission'
<1>1. \A k \in DOMAIN emitted' : emitted'[k][1] \in visited'
  BY DEF Emission, Keeps
<1>2. ASSUME NEW p \in visited
      PROVE  Account(p)'
  <2>1. PICK whole \in {0, 1} : Origin(p, whole) /\ Balanced(p, whole)
    BY DEF Emission, Account
  <2>2. Origin(p, whole)' /\ (whole = 0 \/ SameAhead(p))
    BY <2>1
  <2>3. Balanced(p, whole)'
    BY <2>1, <2>2, QuietBalance
  <2> QED
    BY <2>2, <2>3 DEF Account
<1>3. ASSUME NEW p \in visited' \ visited
      PROVE  Account(p)'
  <2>1. PICK whole \in {0, 1} : Origin(p, whole)'
    BY <1>3
  <2>2. Balanced(p, whole)'
    BY NewBalance
  <2> QED
    BY <2>1, <2>2 DEF Account
<1> QED
  BY <1>1, <1>2, <1>3 DEF Emission

\* The statements of a file that was just parsed are ahead.
LEMMA PushedAhead ==
  ASSUME IInv, AtStatement, NEW c \in CallType, c.next = 1, stack' = Append(Advanced, c),
         visited' = visited \cup {c.path}, \A q \in visited' : body'[q] \in Seq(Statements[q])
  PROVE  NewAhead
<1>1. /\ Len(stack) \in Nat /\ Advanced \in Seq(CallType) /\ Len(Advanced) = Len(stack)
  BY StackFacts, AdvancedFacts
<1>2. Len(stack) + 1 \in DOMAIN stack' /\ stack'[Len(stack) + 1] = c
  BY <1>1
<1>3. \A n \in DOMAIN body'[c.path] : n >= 1
  <2>1. body'[c.path] \in Seq(Statements[c.path])
    OBVIOUS
  <2> QED
    BY <2>1
<1>4. \A n \in DOMAIN body'[c.path] : Ahead(c.path, n)'
  BY <1>2, <1>3 DEF Ahead
<1> QED
  BY <1>4 DEF NewAhead

\* A file that an import reaches first.
LEMMA OriginNew ==
  ASSUME IInv, AtStatement, Keeps, IsImport(Current), NEW c \in CallType, c.path = Current.of,
         c.path \notin visited, stack' = Append(Advanced, c),
         c.sym = NULL => Current.op = "import", c.sym # NULL => Current.op = "from"
  PROVE  \E whole \in {0, 1} : Origin(c.path, whole)'
<1> DEFINE p == c.path
           whole == IF c.sym = NULL THEN 1 ELSE 0
<1>1. \A op : op = Current.op => NamedBy(op, p)
  BY CurrentImport DEF NamedBy
<1>2. \A op : op = Current.op => NamedBy(op, p)'
  BY <1>1, NamedKept
<1>3. \A k \in DOMAIN stack' : stack'[k].path = p => stack'[k].sym = c.sym
  <2>1. /\ Len(stack) \in Nat /\ DOMAIN stack = 1 .. Len(stack)
        /\ \A k \in DOMAIN stack : stack[k].path \in visited
    BY StackFacts
  <2>2. /\ Advanced \in Seq(CallType) /\ Len(Advanced) = Len(stack)
        /\ \A k \in 1 .. Len(stack) : Advanced[k].path = stack[k].path
    BY AdvancedFacts
  <2>3. /\ DOMAIN stack' = 1 .. Len(stack) + 1 /\ stack'[Len(stack) + 1] = c
        /\ \A k \in 1 .. Len(stack) : stack'[k] = Advanced[k]
    BY <2>1, <2>2
  <2>4. \A k \in DOMAIN stack' : k \in 1 .. Len(stack) \/ k = Len(stack) + 1
    BY <2>1, <2>3
  <2> QED
    BY <2>1, <2>2, <2>3, <2>4
<1>4. Origin(p, whole)'
  BY <1>2, <1>3 DEF Origin
<1> QED
  BY <1>4

LEMMA ImportModuleEmits ==
  ASSUME IInv, IInv', Emission, ImportModule
  PROVE  Emission'
<1>1. /\ AtStatement /\ Current.op = "import" /\ status' = status /\ IsImport(Current)
      /\ emitted' = emitted /\ status = "loading"
  BY StatementFacts DEF ImportModule, IsImport
<1>2. Current.of \in Path
  BY <1>1, StatementFacts DEF Definition, Kind, Import, FromImport
<1>3. CASE Current.of \in visited
  <2>1. stack' = Advanced /\ visited' = visited /\ body' = body
    BY <1>3 DEF ImportModule
  <2>2. Keeps /\ NewAhead
    BY <2>1 DEF Keeps, NewAhead
  <2>3. \A i \in Imports : At(i).op = "from" => (Done(i)' <=> Done(i))
    BY <1>1, <2>1, DoneAdvanced
  <2>4. \A p \in visited : \A whole \in {0, 1} :
          Origin(p, whole) => Origin(p, whole)' /\ SameAhead(p)
    BY <1>1, <2>1, <2>2, OriginAdvanced, SameAheadAdvanced
  <2>5. visited' \ visited = {}
    BY <2>1
  <2> QED
    BY <1>1, <2>2, <2>3, <2>4, <2>5, QuietEmission
<1>4. CASE Current.of \notin visited
  <2>0. Call(Current.of, NULL, FALSE) \in CallType
    BY <1>2 DEF Call, CallType
  <2>1. PICK c \in CallType : c = Call(Current.of, NULL, FALSE)
    BY <2>0
  <2>2. /\ Visit(Current.of) /\ stack' = Append(Advanced, c)
        /\ c.path = Current.of /\ c.next = 1 /\ c.sym = NULL
    BY <1>4, <2>1 DEF ImportModule, Call
  <2>3. /\ Keeps /\ visited' = visited \cup {c.path}
        /\ \A q \in visited' : body'[q] \in Seq(Statements[q])
    BY <1>2, <1>4, <2>1, <2>2, VisitFacts
  <2>4. NewAhead
    BY <1>1, <1>4, <2>1, <2>2, <2>3, PushedAhead
  <2>5. \A i \in Imports : Done(i)' <=> Done(i)
    BY <1>1, <1>4, <2>1, <2>2, DonePushed
  <2>6. \A p \in visited : \A whole \in {0, 1} :
          Origin(p, whole) => Origin(p, whole)' /\ SameAhead(p)
    BY <1>1, <1>4, <2>1, <2>2, <2>3, OriginPushed, SameAheadPushed
  <2>7. \E whole \in {0, 1} : Origin(c.path, whole)'
    BY <1>1, <1>4, <2>1, <2>2, <2>3, OriginNew
  <2>8. \A p \in visited' \ visited : \E whole \in {0, 1} : Origin(p, whole)'
    BY <2>3, <2>7
  <2> QED
    BY <1>1, <2>3, <2>4, <2>5, <2>6, <2>8, QuietEmission
<1> QED
  BY <1>3, <1>4

LEMMA ImportSymbolEmits ==
  ASSUME IInv, IInv', Emission, ImportSymbol
  PROVE  Emission'
<1>1. /\ AtStatement /\ Current.op = "from" /\ IsImport(Current)
      /\ emitted' = emitted /\ status = "loading"
  BY StatementFacts DEF ImportSymbol, IsImport
<1>2. Current.of \in Path /\ Current.sym \in Symbol /\ Current.alias \in BOOLEAN
  BY <1>1, StatementFacts DEF Definition, Kind, Import, FromImport
<1>3. \E call \in CallType : call = Call(Current.of, Current.sym, Current.alias)
  BY <1>2 DEF Call, CallType
<1>4. PICK call \in CallType : call = Call(Current.of, Current.sym, Current.alias)
  BY <1>3
<1>5. /\ call.path = Current.of /\ call.sym = Current.sym
      /\ call.alias = Current.alias /\ call.next = 1
  BY <1>4 DEF Call
<1>6. Current.sym # NULL
  BY <1>2, PathAssumption
<1>7. CASE Current.of \in visited
  <2> DEFINE c == [call EXCEPT !.next = Len(body[Current.of]) + 1]
  <2>1. stack' = Append(Advanced, c) /\ body' = body /\ visited' = visited
    BY <1>7, <1>4 DEF ImportSymbol
  <2>2. Len(body[Current.of]) \in Nat
    BY <1>7, StackFacts
  <2>3. /\ c \in CallType /\ c.path = Current.of /\ c.sym = Current.sym
        /\ c.next = Len(body[Current.of]) + 1
    BY <1>5, <2>2 DEF CallType
  <2> HIDE DEF c
  <2>4. Keeps /\ NewAhead
    BY <2>1 DEF Keeps, NewAhead
  <2>5. \A i \in Imports : Done(i)' <=> Done(i)
    BY <1>1, <2>1, <2>3, DonePushed
  <2>6. \A p \in visited : \A whole \in {0, 1} :
          Origin(p, whole) => Origin(p, whole)' /\ SameAhead(p)
    BY <1>1, <1>6, <2>1, <2>3, <2>4, OriginPushed, SameAheadPushed
  <2>7. visited' \ visited = {}
    BY <2>1
  <2> QED
    BY <1>1, <2>4, <2>5, <2>6, <2>7, QuietEmission
<1>8. CASE Current.of \notin visited
  <2>1. Visit(Current.of) /\ stack' = Append(Advanced, call)
    BY <1>8, <1>4 DEF ImportSymbol
  <2>2. /\ Keeps /\ visited' = visited \cup {call.path}
        /\ \A q \in visited' : body'[q] \in Seq(Statements[q])
    BY <1>2, <1>5, <1>8, <2>1, VisitFacts
  <2>3. NewAhead
    BY <1>1, <1>5, <1>8, <2>1, <2>2, PushedAhead
  <2>4. \A i \in Imports : Done(i)' <=> Done(i)
    BY <1>1, <1>5, <1>8, <2>1, DonePushed
  <2>5. \A p \in visited : \A whole \in {0, 1} :
          Origin(p, whole) => Origin(p, whole)' /\ SameAhead(p)
    BY <1>1, <1>5, <1>8, <2>1, <2>2, OriginPushed, SameAheadPushed
  <2>6. \E whole \in {0, 1} : Origin(call.path, whole)'
    BY <1>1, <1>5, <1>6, <1>8, <2>1, <2>2, OriginNew
  <2>7. \A p \in visited' \ visited : \E whole \in {0, 1} : Origin(p, whole)'
    BY <2>2, <2>6
  <2> QED
    BY <1>1, <2>2, <2>3, <2>4, <2>5, <2>7, QuietEmission
<1> QED
  BY <1>7, <1>8

\* The first pass of a from import.
LEMMA SkipEmits ==
  ASSUME IInv, IInv', Emission, CopyDefinition, Top.sym # NULL
  PROVE  Emission'
<1>1. /\ AtStatement /\ ~IsImport(Current) /\ stack' = Advanced /\ emitted' = emitted
      /\ body' = body /\ visited' = visited /\ status = "loading"
  BY StatementFacts DEF CopyDefinition
<1>2. Keeps /\ NewAhead
  BY <1>1 DEF Keeps, NewAhead
<1>3. \A i \in Imports : At(i).op = "from" => (Done(i)' <=> Done(i))
  BY <1>1, DoneAdvanced
<1>4. ASSUME NEW p \in visited, NEW whole \in {0, 1}, Origin(p, whole)
      PROVE  Origin(p, whole)' /\ (whole = 0 \/ SameAhead(p))
  <2>1. Origin(p, whole)'
    BY <1>1, <1>2, <1>4, OriginAdvanced
  <2>2. CASE p # Top.path
    BY <1>1, <2>1, <2>2, SameAheadAdvanced
  <2>3. CASE p = Top.path
    <3>1. Len(stack) \in DOMAIN stack /\ Top = stack[Len(stack)] /\ Top.next <= Len(body[Top.path])
      BY <1>1, StatementFacts DEF AtStatement
    <3> QED
      BY <1>4, <2>1, <2>3, <3>1 DEF Origin
  <2> QED
    BY <2>2, <2>3
<1>5. visited' \ visited = {}
  BY <1>1
<1> QED
  BY <1>1, <1>2, <1>3, <1>4, <1>5, QuietEmission

LEMMA EndFileEmits ==
  ASSUME IInv, IInv', Emission, EndFile
  PROVE  Emission'
<1>1. /\ AtEnd /\ Top.sym = NULL /\ stack' = Popped /\ status = "loading"
      /\ body' = body /\ visited' = visited /\ emitted' = emitted
  BY DEF EndFile, AtEnd, Running
<1>2. Keeps /\ NewAhead
  BY <1>1 DEF Keeps, NewAhead
<1>3. ASSUME NEW i \in Imports, At(i).op = "from"
      PROVE  ~IsCall(i[1], i[2])
  <2> SUFFICES ASSUME IsCall(i[1], i[2])
               PROVE  FALSE
    OBVIOUS
  <2>1. Len(stack) > 1 /\ i[1] = Caller.path /\ i[2] = Caller.next - 1
    BY DEF IsCall
  <2>2. Len(stack) \in Nat /\ DOMAIN stack = 1 .. Len(stack)
    BY StackFacts
  <2>3. Len(stack) \in DOMAIN stack
    BY <2>1, <2>2
  <2>4. Works(Top, body[i[1]][i[2]])
    BY <2>1, <2>3 DEF IInv, Callers, Caller, Top
  <2>5. At(i) = body[i[1]][i[2]] /\ At(i) \in Import \cup FromImport
    BY ImportIs
  <2>6. At(i).sym \in Symbol
    BY <1>3, <2>5 DEF Import, FromImport
  <2> QED
    BY <1>1, <1>3, <2>4, <2>5, <2>6, PathAssumption DEF Works
<1>4. \A i \in Imports : At(i).op = "from" => (Done(i)' <=> Done(i))
  BY <1>1, <1>3, DonePopped
<1>5. \A p \in visited : \A whole \in {0, 1} :
        Origin(p, whole) => Origin(p, whole)' /\ SameAhead(p)
  BY <1>1, <1>2, OriginPopped, SameAheadPopped
<1>6. visited' \ visited = {}
  BY <1>1
<1> QED
  BY <1>1, <1>2, <1>4, <1>5, <1>6, QuietEmission

-----------------------------------------------------------------------------
(***************************************************************************)
(* Steps that write.                                                       *)
(***************************************************************************)
LEMMA PlacesElsewhere ==
  ASSUME NEW T, NEW s \in Seq(T), NEW t \in Seq(T), NEW x, \A k \in DOMAIN t : t[k] # x
  PROVE  Places(s \o t, x) = Places(s, x)
<1>1. /\ Len(s) \in Nat /\ Len(t) \in Nat /\ DOMAIN s = 1 .. Len(s) /\ DOMAIN t = 1 .. Len(t)
      /\ DOMAIN (s \o t) = 1 .. Len(s) + Len(t)
      /\ \A k \in 1 .. Len(s) : (s \o t)[k] = s[k]
      /\ \A k \in Len(s) + 1 .. Len(s) + Len(t) : (s \o t)[k] = t[k - Len(s)]
  OBVIOUS
<1>2. /\ \A k \in 1 .. Len(s) : k \in 1 .. Len(s) + Len(t)
      /\ \A k \in 1 .. Len(s) + Len(t) : k \notin 1 .. Len(s) =>
           k \in Len(s) + 1 .. Len(s) + Len(t) /\ k - Len(s) \in 1 .. Len(t)
  BY <1>1
<1> QED
  BY <1>1, <1>2 DEF Places

\* A copied statement is in the emission root, and of a visited file.
LEMMA EmittedGrows ==
  ASSUME Emission, Keeps, NEW p \in visited, NEW t \in Seq(Copied), emitted' = emitted \o t,
         \A k \in DOMAIN t : t[k][1] = p
  PROVE  /\ emitted' \in Seq(Copied)
         /\ \A k \in DOMAIN emitted' : emitted'[k][1] \in visited'
<1>1. emitted \in Seq(Copied)
  BY DEF Emission, Copied
<1>2. /\ Len(emitted) \in Nat /\ Len(t) \in Nat /\ DOMAIN emitted = 1 .. Len(emitted)
      /\ DOMAIN t = 1 .. Len(t) /\ emitted' \in Seq(Copied)
      /\ DOMAIN emitted' = 1 .. Len(emitted) + Len(t)
      /\ \A k \in 1 .. Len(emitted) : emitted'[k] = emitted[k]
      /\ \A k \in Len(emitted) + 1 .. Len(emitted) + Len(t) : emitted'[k] = t[k - Len(emitted)]
  BY <1>1
<1>3. \A k \in 1 .. Len(emitted) + Len(t) : k \notin 1 .. Len(emitted) =>
        k \in Len(emitted) + 1 .. Len(emitted) + Len(t) /\ k - Len(emitted) \in 1 .. Len(t)
  BY <1>2
<1>4. \A k \in DOMAIN emitted' : emitted'[k][1] \in visited
  BY <1>2, <1>3 DEF Emission
<1> QED
  BY <1>2, <1>4 DEF Keeps

\* load_file copies the definition at d of p.
LEMMA CopyCount ==
  ASSUME IInv, IInv', Emission, CopyDefinition, Keeps, NEW p \in visited, NEW d \in DOMAIN body[p],
         p = Top.path, d = Top.next, NEW sym \in Symbol, NEW kind \in Kind,
         sym = Current.sym, kind = Current.op, emitted' = Append(emitted, <<p, sym, kind>>),
         Count(p, 1, sym), Served(p, sym)' = Served(p, sym)
  PROVE  Count(p, 1, sym)'
<1>1. AtStatement /\ ~IsImport(Current) /\ stack' = Advanced
  BY DEF CopyDefinition
<1>2. emitted \in Seq(Copied) /\ <<p, sym, kind>> \in Copied /\ p \in Path
  BY DEF Emission, Copied, Kind, IInv, TypeOK
<1>3. \A k : Cardinality(CopiesOf(p, sym, k)') =
               IF k = kind THEN Cardinality(CopiesOf(p, sym, k)) + 1 ELSE Cardinality(CopiesOf(p, sym, k))
  <2> SUFFICES ASSUME NEW k
               PROVE  Cardinality(CopiesOf(p, sym, k)') =
                        IF k = kind THEN Cardinality(CopiesOf(p, sym, k)) + 1
                        ELSE Cardinality(CopiesOf(p, sym, k))
    OBVIOUS
  <2>1. CopiesOf(p, sym, k) = Places(emitted, <<p, sym, k>>)
    BY DEF CopiesOf, Places
  <2>2. CopiesOf(p, sym, k)' = Places(Append(emitted, <<p, sym, kind>>), <<p, sym, k>>)
    BY DEF CopiesOf, Places
  <2>3. Cardinality(Places(Append(emitted, <<p, sym, kind>>), <<p, sym, k>>)) =
          IF <<p, sym, kind>> = <<p, sym, k>> THEN Cardinality(Places(emitted, <<p, sym, k>>)) + 1
          ELSE Cardinality(Places(emitted, <<p, sym, k>>))
    <3> DEFINE y == <<p, sym, kind>>
               x == <<p, sym, k>>
    <3>1. emitted \in Seq(Copied) /\ y \in Copied
      BY <1>2
    <3> HIDE DEF x, y
    <3>2. Cardinality(Places(Append(emitted, y), x)) =
            IF y = x THEN Cardinality(Places(emitted, x)) + 1 ELSE Cardinality(Places(emitted, x))
      BY <3>1, PlacesOfAppend
    <3> QED
      BY <3>2 DEF x, y
  <2>4. <<p, sym, kind>> = <<p, sym, k>> <=> k = kind
    OBVIOUS
  <2> QED
    BY <2>1, <2>2, <2>3, <2>4
<1>4. \A k : /\ Exports(p, sym)' = Exports(p, sym) /\ OfKind(p, sym, k)' = OfKind(p, sym, k)
             /\ Chosen(p, sym, k)' = Chosen(p, sym, k)
  BY ExportsKept
<1>5. Renamed(Served(p, sym))' = Renamed(Served(p, sym))
  <2>1. Served(p, sym) \subseteq Imports
    BY DEF Served, FromImports
  <2> QED
    BY <2>1, RenamedAfter
<1>6. \A n \in DOMAIN body[p] : Ahead(p, n)' <=> Ahead(p, n) /\ n # d
  BY <1>1, AdvanceMoves
<1>7. Ahead(p, d)
  BY <1>1, CurrentFacts
<1>8. \A k : d \in OfKind(p, sym, k) <=> k = kind
  BY <1>1 DEF OfKind, Exports, Defined, Current
<1>9. \A k : \A n : n \in Written(p, sym, k)' <=> n \in OfKind(p, sym, k) /\ ~Ahead(p, n)'
  BY <1>4 DEF Written
<1>10. \A k : \A n \in OfKind(p, sym, k) : n \in DOMAIN body[p]
  BY DEF OfKind, Exports, Defined
<1>11. \A k : Written(p, sym, k)' = IF k = kind THEN Written(p, sym, k) \cup {d} ELSE Written(p, sym, k)
  <2> SUFFICES ASSUME NEW k
               PROVE  /\ k = kind => Written(p, sym, k)' = Written(p, sym, k) \cup {d}
                      /\ k # kind => Written(p, sym, k)' = Written(p, sym, k)
    OBVIOUS
  <2>1. \A n : n \in Written(p, sym, k) <=> n \in OfKind(p, sym, k) /\ ~Ahead(p, n)
    BY DEF Written
  <2>2. \A n : n \in Written(p, sym, k)' <=> n \in Written(p, sym, k) \/ (k = kind /\ n = d)
    BY <1>6, <1>8, <1>9, <1>10, <2>1
  <2> QED
    BY <2>2
<1>12. d \notin Written(p, sym, kind)
  BY <1>7 DEF Written
<1>13. \A k : IsFiniteSet(Written(p, sym, k)) /\ Cardinality(Written(p, sym, k)) \in Nat
  BY CardinalitiesAreNumbers
<1>14. Cardinality(Written(p, sym, kind) \cup {d}) = Cardinality(Written(p, sym, kind)) + 1
  BY <1>12, <1>13, FS_AddElement
<1>15. \A k : Cardinality(Chosen(p, sym, k)) \in Nat
  BY CardinalitiesAreNumbers
<1>16. Cardinality(Served(p, sym)) \in Nat
  BY ServedFinite
<1>17. \A k \in Kind :
         Cardinality(CopiesOf(p, sym, k)') =
           1 * Cardinality(Written(p, sym, k)') + Cardinality(Served(p, sym)) * Cardinality(Chosen(p, sym, k))
  <2> SUFFICES ASSUME NEW k \in Kind
               PROVE  Cardinality(CopiesOf(p, sym, k)') =
                        1 * Cardinality(Written(p, sym, k)')
                        + Cardinality(Served(p, sym)) * Cardinality(Chosen(p, sym, k))
    OBVIOUS
  <2> DEFINE w == Cardinality(Written(p, sym, k))
             m == Cardinality(Served(p, sym)) * Cardinality(Chosen(p, sym, k))
             a == Cardinality(CopiesOf(p, sym, k))
             v == Cardinality(Written(p, sym, k)')
             b == Cardinality(CopiesOf(p, sym, k)')
  <2>1. a = 1 * w + m
    BY DEF Count
  <2>2. w \in Nat /\ m \in Nat
    BY <1>13, <1>15, <1>16
  <2>3. k = kind => v = w + 1 /\ b = a + 1
    BY <1>3, <1>11, <1>14
  <2>4. k # kind => v = w /\ b = a
    BY <1>3, <1>11
  <2> HIDE DEF w, m, a, v, b
  <2>5. b = 1 * v + m
    BY <2>1, <2>2, <2>3, <2>4
  <2> QED
    BY <2>5 DEF b, v, m
<1>18. Cardinality(CopiesOf(p, sym, "wrapper")') = Cardinality(CopiesOf(p, sym, "wrapper"))
  BY <1>3 DEF Kind
<1> QED
  BY <1>4, <1>5, <1>17, <1>18 DEF Count

LEMMA CopyEmits ==
  ASSUME IInv, IInv', Emission, CopyDefinition, Top.sym = NULL
  PROVE  Emission'
<1>1. /\ AtStatement /\ ~IsImport(Current) /\ stack' = Advanced /\ status = "loading"
      /\ body' = body /\ visited' = visited
      /\ emitted' = Append(emitted, <<Top.path, Current.sym, Current.op>>)
  BY StatementFacts DEF CopyDefinition
<1>2. Keeps /\ NewAhead
  BY <1>1 DEF Keeps, NewAhead
<1>3. /\ Top.path \in visited /\ Top.next \in DOMAIN body[Top.path]
      /\ Current.sym \in Symbol /\ Current.op \in Kind
  BY <1>1, StatementFacts DEF IsImport, Definition, Kind, Import, FromImport
<1>4. PICK p \in visited, d \in DOMAIN body[Top.path], sym \in Symbol, kind \in Kind :
        p = Top.path /\ d = Top.next /\ sym = Current.sym /\ kind = Current.op
  BY <1>3
<1>5. emitted' = Append(emitted, <<p, sym, kind>>) /\ d \in DOMAIN body[p]
  BY <1>1, <1>4
<1>6. /\ emitted \in Seq(Copied) /\ <<p, sym, kind>> \in Copied
      /\ emitted' = emitted \o <<<<p, sym, kind>>>>
      /\ <<<<p, sym, kind>>>> \in Seq(Copied)
  <2>1. emitted \in Seq(Copied) /\ <<p, sym, kind>> \in Copied
    BY DEF Emission, Copied, Kind, IInv, TypeOK
  <2> DEFINE t == <<p, sym, kind>>
  <2> HIDE DEF t
  <2>2. emitted \in Seq(Copied) /\ t \in Copied /\ emitted' = Append(emitted, t)
    BY <1>5, <2>1 DEF t
  <2>3. emitted' = emitted \o <<t>> /\ <<t>> \in Seq(Copied)
    BY <2>2
  <2> QED
    BY <2>1, <2>3 DEF t
<1>7. /\ emitted' \in Seq(Copied)
      /\ \A k \in DOMAIN emitted' : emitted'[k][1] \in visited'
  <2>1. \A k \in DOMAIN <<<<p, sym, kind>>>> : <<<<p, sym, kind>>>>[k][1] = p
    OBVIOUS
  <2> HIDE <1>5
  <2> QED
    BY <1>2, <1>6, <2>1, EmittedGrows
<1>8. \A i \in Imports : At(i).op = "from" => (Done(i)' <=> Done(i))
  BY <1>1, DoneAdvanced
<1>9. \A q, s : Served(q, s)' = Served(q, s)
  <2> SUFFICES ASSUME NEW q, NEW s
               PROVE  Served(q, s)' = Served(q, s)
    OBVIOUS
  <2> DEFINE none == {}
  <2>1. \A i : i \notin none
    OBVIOUS
  <2> HIDE DEF none
  <2>2. \A i \in Imports : At(i).op = "from" => (Done(i)' <=> Done(i) \/ i \in none)
    BY <1>8, <2>1
  <2>3. Served(q, s)' = Served(q, s) \cup {i \in FromImports(q, s) : i \in none}
    BY <1>2, <2>2, ServedAfter
  <2> QED
    BY <2>1, <2>3
<1>10. ASSUME NEW q \in visited
       PROVE  Account(q)'
  <2>1. PICK whole \in {0, 1} : Origin(q, whole) /\ Balanced(q, whole)
    BY <1>1 DEF Emission, Account
  <2>2. Origin(q, whole)'
    BY <1>1, <1>2, <2>1, OriginAdvanced
  <2>3. ASSUME NEW s \in Symbol
        PROVE  Count(q, whole, s)'
    <3>1. Count(q, whole, s)
      BY <2>1, BalanceIsCounts
    <3>2. CASE q = p /\ s = sym
      <4>1. whole = 1
        <5>1. Len(stack) \in DOMAIN stack /\ Top = stack[Len(stack)]
          BY <1>1, StatementFacts
        <5> QED
          BY <1>4, <2>1, <3>2, <5>1 DEF Origin
      <4>2. Count(p, 1, sym)'
        BY <1>2, <1>4, <1>5, <1>9, <3>1, <3>2, <4>1, CopyCount
      <4> QED
        BY <3>2, <4>1, <4>2
    <3>3. CASE ~(q = p /\ s = sym)
      <4>1. \A k : CopiesOf(q, s, k)' = CopiesOf(q, s, k)
        <5> SUFFICES ASSUME NEW k
                     PROVE  CopiesOf(q, s, k)' = CopiesOf(q, s, k)
          OBVIOUS
        <5>1. \A j \in DOMAIN <<<<p, sym, kind>>>> : <<<<p, sym, kind>>>>[j] # <<q, s, k>>
          BY <3>3
        <5>2. Places(emitted \o <<<<p, sym, kind>>>>, <<q, s, k>>) = Places(emitted, <<q, s, k>>)
          BY <1>6, <5>1, PlacesElsewhere
        <5>3. CopiesOf(q, s, k)' = Places(emitted', <<q, s, k>>)
          BY DEF CopiesOf, Places
        <5> QED
          BY <1>6, <5>2, <5>3 DEF CopiesOf, Places
      <4>2. \A k : Written(q, s, k)' = Written(q, s, k)
        <5> SUFFICES ASSUME NEW k
                     PROVE  Written(q, s, k)' = Written(q, s, k)
          OBVIOUS
        <5>1. CASE q # p
          BY <1>1, <1>2, <1>4, <5>1, SameAheadAdvanced, WrittenKept
        <5>2. CASE q = p /\ s # sym
          <6>1. OfKind(q, s, k)' = OfKind(q, s, k)
            BY <1>2, ExportsKept
          <6>2. \A n \in OfKind(q, s, k) : n \in DOMAIN body[q] /\ ~(q = Top.path /\ n = Top.next)
            BY <1>4, <5>2 DEF OfKind, Exports, Defined, Current
          <6>3. \A n \in OfKind(q, s, k) : Ahead(q, n)' <=> Ahead(q, n)
            BY <1>1, <6>2, AdvanceMoves
          <6>4. \A n : n \in Written(q, s, k)' <=> n \in OfKind(q, s, k) /\ ~Ahead(q, n)'
            BY <6>1 DEF Written
          <6> QED
            BY <6>3, <6>4 DEF Written
        <5> QED
          BY <3>3, <5>1, <5>2
      <4> QED
        BY <1>2, <1>9, <3>1, <4>1, <4>2, QuietCount
    <3> QED
      BY <3>2, <3>3
  <2>4. Balanced(q, whole)'
    BY <2>3 DEF Balanced, Count
  <2> QED
    BY <2>2, <2>4 DEF Account
<1> QED
  BY <1>1, <1>7, <1>10 DEF Emission, Copied

\* What a selection adds to the account of its file.
LEMMA SelectCount ==
  ASSUME IInv, IInv', Emission, AtEnd, stack' = Popped, Keeps,
         NEW p \in visited, NEW sym \in Symbol, p = Top.path, sym = Top.sym,
         NEW t \in Seq(Copied), emitted' = emitted \o t,
         \A kind \in Kind :
           Cardinality(Places(t, <<p, sym, kind>>)) = Cardinality(Chosen(p, sym, kind)),
         Cardinality(Places(t, <<p, sym, "wrapper">>)) =
           IF Top.alias THEN Cardinality(Exports(p, sym)) ELSE 0,
         NEW call \in FromImports(p, sym), call \notin Served(p, sym),
         At(call).alias = Top.alias, Served(p, sym)' = Served(p, sym) \cup {call},
         NEW whole \in {0, 1}, Count(p, whole, sym)
  PROVE  Count(p, whole, sym)'
<1>1. emitted \in Seq(Copied)
  BY DEF Emission, Copied
<1>2. \A k : Cardinality(CopiesOf(p, sym, k)') =
               Cardinality(CopiesOf(p, sym, k)) + Cardinality(Places(t, <<p, sym, k>>))
  <2> SUFFICES ASSUME NEW k
               PROVE  Cardinality(CopiesOf(p, sym, k)') =
                        Cardinality(CopiesOf(p, sym, k)) + Cardinality(Places(t, <<p, sym, k>>))
    OBVIOUS
  <2>1. CopiesOf(p, sym, k) = Places(emitted, <<p, sym, k>>)
    BY DEF CopiesOf, Places
  <2>2. CopiesOf(p, sym, k)' = Places(emitted \o t, <<p, sym, k>>)
    BY DEF CopiesOf, Places
  <2> QED
    BY <1>1, <2>1, <2>2, PlacesOfConcatenation
<1>3. \A k : /\ Exports(p, sym)' = Exports(p, sym) /\ Chosen(p, sym, k)' = Chosen(p, sym, k)
             /\ Written(p, sym, k)' = Written(p, sym, k)
  BY ExportsKept, SameAheadPopped, WrittenKept
<1>4. /\ IsFiniteSet(Served(p, sym)) /\ Cardinality(Served(p, sym)) \in Nat
      /\ IsFiniteSet(Renamed(Served(p, sym))) /\ Cardinality(Renamed(Served(p, sym))) \in Nat
  BY ServedFinite
<1>5. Cardinality(Served(p, sym) \cup {call}) = Cardinality(Served(p, sym)) + 1
  BY <1>4, FS_AddElement
<1>6. Renamed(Served(p, sym))' = Renamed(Served(p, sym) \cup {call})
  <2>1. Served(p, sym) \cup {call} \subseteq Imports
    BY DEF Served, FromImports
  <2> QED
    BY <2>1, RenamedAfter
<1>7. Cardinality(Renamed(Served(p, sym))') =
        IF Top.alias THEN Cardinality(Renamed(Served(p, sym))) + 1
        ELSE Cardinality(Renamed(Served(p, sym)))
  <2>1. CASE Top.alias
    <3>1. Renamed(Served(p, sym) \cup {call}) = Renamed(Served(p, sym)) \cup {call}
      BY <2>1 DEF Renamed
    <3>2. call \notin Renamed(Served(p, sym))
      BY DEF Renamed
    <3> DEFINE R == Renamed(Served(p, sym))
    <3>3. IsFiniteSet(R) /\ call \notin R
      BY <1>4, <3>2
    <3> HIDE DEF R
    <3>4. Cardinality(R \cup {call}) = Cardinality(R) + 1
      BY <3>3, FS_AddElement
    <3>5. Cardinality(Renamed(Served(p, sym)) \cup {call}) = Cardinality(Renamed(Served(p, sym))) + 1
      BY <3>4 DEF R
    <3> QED
      BY <1>6, <2>1, <3>1, <3>5
  <2>2. CASE ~Top.alias
    <3>1. Renamed(Served(p, sym) \cup {call}) = Renamed(Served(p, sym))
      BY <2>2 DEF Renamed
    <3> QED
      BY <1>6, <2>2, <3>1
  <2> QED
    BY <2>1, <2>2
<1>8. \A k : /\ Cardinality(Exports(p, sym)) \in Nat /\ Cardinality(Chosen(p, sym, k)) \in Nat
             /\ Cardinality(Written(p, sym, k)) \in Nat
  BY CardinalitiesAreNumbers
<1>9. \A s, m \in Nat : (s + 1) * m = s * m + m
  OBVIOUS
<1>10. ASSUME NEW k \in Kind
       PROVE  Cardinality(CopiesOf(p, sym, k)') =
                whole * Cardinality(Written(p, sym, k)')
                + Cardinality(Served(p, sym)') * Cardinality(Chosen(p, sym, k)')
  <2> DEFINE s == Cardinality(Served(p, sym))
             m == Cardinality(Chosen(p, sym, k))
             a == Cardinality(CopiesOf(p, sym, k))
             w == whole * Cardinality(Written(p, sym, k))
  <2>1. a = w + s * m
    BY DEF Count
  <2>2. Cardinality(CopiesOf(p, sym, k)') = a + m
    BY <1>2
  <2>3. Cardinality(Served(p, sym)') = s + 1
    BY <1>5
  <2>4. s \in Nat /\ m \in Nat /\ w \in Nat
    BY <1>4, <1>8
  <2>5. s * m \in Nat /\ (s + 1) * m = s * m + m
    BY <1>9, <2>4
  <2> HIDE DEF s, m, a, w
  <2>6. a + m = w + (s + 1) * m
    BY <2>1, <2>4, <2>5
  <2> QED
    BY <1>3, <2>2, <2>3, <2>6 DEF m, w
<1>11. Cardinality(CopiesOf(p, sym, "wrapper")') =
         Cardinality(Renamed(Served(p, sym))') * Cardinality(Exports(p, sym)')
  <2> DEFINE s == Cardinality(Renamed(Served(p, sym)))
             m == Cardinality(Exports(p, sym))
             a == Cardinality(CopiesOf(p, sym, "wrapper"))
             x == Cardinality(Places(t, <<p, sym, "wrapper">>))
  <2>1. a = s * m
    BY DEF Count
  <2>2. Cardinality(CopiesOf(p, sym, "wrapper")') = a + x
    BY <1>2
  <2>3. s \in Nat /\ m \in Nat
    BY <1>4, <1>8
  <2>4. s * m \in Nat /\ (s + 1) * m = s * m + m
    BY <1>9, <2>3
  <2>5. x = IF Top.alias THEN m ELSE 0
    OBVIOUS
  <2>6. Cardinality(Renamed(Served(p, sym))') = IF Top.alias THEN s + 1 ELSE s
    BY <1>7
  <2> HIDE DEF s, m, a, x
  <2>7. a + x = Cardinality(Renamed(Served(p, sym))') * m
    <3>1. CASE Top.alias
      BY <2>1, <2>4, <2>5, <2>6, <3>1
    <3>2. CASE ~Top.alias
      <4>1. a + x = s * m
        BY <2>1, <2>4, <2>5, <3>2
      <4> QED
        BY <2>6, <3>2, <4>1
    <3> QED
      BY <3>1, <3>2
  <2> QED
    BY <1>3, <2>2, <2>7 DEF m
<1> QED
  BY <1>10, <1>11 DEF Count

LEMMA SelectEmits ==
  ASSUME IInv, IInv', Emission, SelectSymbol
  PROVE  Emission'
<1> DEFINE D == Exports(Top.path, Top.sym)
           value == \E k \in D : body[Top.path][k].op = "value"
<1>1. /\ AtEnd /\ Top.sym # NULL /\ stack' = Popped /\ status = "loading" /\ stack # << >>
      /\ body' = body /\ visited' = visited
  BY DEF SelectSymbol, AtEnd, Running
<1>2. Keeps /\ NewAhead
  BY <1>1 DEF Keeps, NewAhead
<1>3. CASE D = {} \/ (Top.alias /\ value)
  <2>1. emitted' = emitted /\ status' \in {"no export", "alias target"}
    BY <1>3 DEF SelectSymbol
  <2> QED
    BY <1>2, <2>1 DEF Emission, Keeps
<1>4. CASE ~(D = {} \/ (Top.alias /\ value))
  <2>1. /\ \E sel \in InOrder(D) : emitted' = emitted \o Copies(sel)
        /\ status' = status
    BY <1>4 DEF SelectSymbol
  <2>2. PICK sel \in InOrder(D) : emitted' = emitted \o Copies(sel)
    BY <2>1
  <2>3. /\ Len(stack) > 1 /\ Caller.path \in visited /\ Caller.next - 1 \in DOMAIN body[Caller.path]
        /\ body[Caller.path][Caller.next - 1].op = "from"
        /\ body[Caller.path][Caller.next - 1].of = Top.path
        /\ body[Caller.path][Caller.next - 1].sym = Top.sym
        /\ body[Caller.path][Caller.next - 1].alias = Top.alias
    BY <1>1, CallerFacts DEF Caller
  <2> DEFINE i == <<Caller.path, Caller.next - 1>>
  <2>4. i \in Imports /\ At(i) = body[Caller.path][Caller.next - 1]
    BY <2>3, ImportFacts DEF IsImport
  <2>5. /\ i \in FromImports(Top.path, Top.sym) /\ At(i).alias = Top.alias
        /\ Top.sym \in Symbol
    <3>1. At(i) \in Import \cup FromImport
      BY <2>4, ImportIs
    <3> QED
      BY <2>3, <2>4, <3>1 DEF FromImports, Import, FromImport
  <2>6. Top.path \in visited
    <3>1. Len(stack) \in DOMAIN stack /\ Top = stack[Len(stack)]
      BY <2>3, StackFacts DEF Top
    <3> QED
      BY <3>1, StackFacts
  <2>7. PICK p \in visited, sym \in Symbol, call \in Imports, t \in Seq(Copied) :
          p = Top.path /\ sym = Top.sym /\ call = i /\ t = Copies(sel)
    <3>1. Copies(sel) \in Seq(Copied)
      BY <1>4, <2>5, <2>6, CopiesCounted
    <3> QED
      BY <2>4, <2>5, <2>6, <3>1
  <2>8. /\ call \in FromImports(p, sym) /\ At(call).alias = Top.alias
        /\ \A j \in Imports : IsCall(j[1], j[2]) <=> j = call
    <3>1. \A j \in Imports : j = <<j[1], j[2]>>
      BY ImportIs
    <3> QED
      BY <2>3, <2>5, <2>7, <3>1 DEF IsCall
  <2>9. /\ \A j \in DOMAIN t : t[j][1] = p /\ t[j][2] = sym
        /\ \A kind \in Kind :
             Cardinality(Places(t, <<p, sym, kind>>)) = Cardinality(Chosen(p, sym, kind))
        /\ Cardinality(Places(t, <<p, sym, "wrapper">>)) =
             IF Top.alias THEN Cardinality(Exports(p, sym)) ELSE 0
    BY <1>4, <2>5, <2>6, <2>7, CopiesCounted
  <2>10. emitted' = emitted \o t
    BY <2>2, <2>7
  <2> HIDE DEF i
  <2>11. /\ emitted' \in Seq(Copied)
         /\ \A k \in DOMAIN emitted' : emitted'[k][1] \in visited'
    BY <1>2, <2>9, <2>10, EmittedGrows
  <2> DEFINE only == {call}
  <2>12. /\ \A j \in Imports : At(j).op = "from" => (Done(j)' <=> Done(j) \/ j \in only)
         /\ ~Done(call)
    BY <1>1, <2>8, DonePopped
  <2>13. \A j : j \in only <=> j = call
    OBVIOUS
  <2> HIDE DEF only
  <2>14. \A q, s : Served(q, s)' = Served(q, s) \cup {j \in FromImports(q, s) : j \in only}
    BY <1>2, <2>12, ServedAfter
  <2>15. Served(p, sym)' = Served(p, sym) \cup {call} /\ call \notin Served(p, sym)
    BY <2>8, <2>12, <2>13, <2>14 DEF Served
  <2>16. ASSUME NEW q, NEW s, ~(q = p /\ s = sym)
         PROVE  Served(q, s)' = Served(q, s)
    <3>1. call \notin FromImports(q, s)
      BY <2>8, <2>16 DEF FromImports
    <3> QED
      BY <2>13, <2>14, <3>1
  <2>17. ASSUME NEW q \in visited
         PROVE  Account(q)'
    <3>1. PICK whole \in {0, 1} : Origin(q, whole) /\ Balanced(q, whole)
      BY <1>1 DEF Emission, Account
    <3>2. Origin(q, whole)'
      BY <1>1, <1>2, <3>1, OriginPopped
    <3>3. ASSUME NEW s \in Symbol
          PROVE  Count(q, whole, s)'
      <4>1. Count(q, whole, s)
        BY <3>1, BalanceIsCounts
      <4>2. CASE q = p /\ s = sym
        <5>1. Count(p, whole, sym)
          BY <4>1, <4>2
        <5>2. Count(p, whole, sym)'
          BY <1>1, <1>2, <2>7, <2>8, <2>9, <2>10, <2>15, <5>1, SelectCount
        <5> QED
          BY <4>2, <5>2
      <4>3. CASE ~(q = p /\ s = sym)
        <5>1. \A k : CopiesOf(q, s, k)' = CopiesOf(q, s, k)
          <6> SUFFICES ASSUME NEW k
                       PROVE  CopiesOf(q, s, k)' = CopiesOf(q, s, k)
            OBVIOUS
          <6>1. \A j \in DOMAIN t : t[j] # <<q, s, k>>
            BY <2>9, <4>3
          <6>2. emitted \in Seq(Copied)
            BY DEF Emission, Copied
          <6>3. Places(emitted \o t, <<q, s, k>>) = Places(emitted, <<q, s, k>>)
            BY <6>1, <6>2, PlacesElsewhere
          <6>4. CopiesOf(q, s, k)' = Places(emitted', <<q, s, k>>)
            BY DEF CopiesOf, Places
          <6> QED
            BY <2>10, <6>3, <6>4 DEF CopiesOf, Places
        <5>2. \A k : Written(q, s, k)' = Written(q, s, k)
          BY <1>1, <1>2, SameAheadPopped, WrittenKept
        <5>3. Served(q, s)' = Served(q, s)
          BY <2>16, <4>3
        <5> QED
          BY <1>2, <4>1, <5>1, <5>2, <5>3, QuietCount
      <4> QED
        BY <4>2, <4>3
    <3>4. Balanced(q, whole)'
      BY <3>3 DEF Balanced, Count
    <3> QED
      BY <3>2, <3>4 DEF Account
  <2> QED
    BY <1>1, <2>11, <2>17 DEF Emission, Copied
<1> QED
  BY <1>3, <1>4

LEMMA StutterEmits ==
  ASSUME Emission, UNCHANGED vars
  PROVE  Emission'
<1>1. UNCHANGED <<body, visited, emitted, stack, status>>
  BY DEF vars
<1>2. \A p, n : (Ahead(p, n)' <=> Ahead(p, n)) /\ (UnderWay(p, n)' <=> UnderWay(p, n))
  BY <1>1 DEF Ahead, UnderWay
<1>3. Imports' = Imports /\ \A i : At(i)' = At(i)
  BY <1>1 DEF Imports, At, IsImport
<1>4. \A p, sym : Served(p, sym)' = Served(p, sym)
  BY <1>2, <1>3 DEF Served, FromImports, Done
<1>5. \A p, sym : Renamed(Served(p, sym))' = Renamed(Served(p, sym))
  BY <1>3, <1>4 DEF Renamed
<1>6. \A p, sym, kind : /\ Exports(p, sym)' = Exports(p, sym)
                        /\ OfKind(p, sym, kind)' = OfKind(p, sym, kind)
                        /\ Chosen(p, sym, kind)' = Chosen(p, sym, kind)
  <2>1. \A p, sym : Defined(p, sym)' = Defined(p, sym)
    BY <1>1 DEF Defined, IsImport
  <2>2. \A p, sym, kind : /\ Exports(p, sym)' = Exports(p, sym)
                          /\ OfKind(p, sym, kind)' = OfKind(p, sym, kind)
    BY <1>1, <2>1 DEF Exports, OfKind
  <2> QED
    BY <2>2 DEF Chosen
<1>7. \A p, sym, kind : /\ Written(p, sym, kind)' = Written(p, sym, kind)
                        /\ CopiesOf(p, sym, kind)' = CopiesOf(p, sym, kind)
  BY <1>1, <1>2, <1>6 DEF Written, CopiesOf
<1>8. \A p, whole : Balanced(p, whole)' <=> Balanced(p, whole)
  BY <1>4, <1>5, <1>6, <1>7 DEF Balanced
<1>9. \A p, whole : Origin(p, whole)' <=> Origin(p, whole)
  BY <1>1, <1>3 DEF Origin, NamedBy
<1>10. \A p : Account(p)' <=> Account(p)
  BY <1>8, <1>9 DEF Account
<1> QED
  BY <1>1, <1>10 DEF Emission

LEMMA InitEmits ==
  ASSUME Init, IInv
  PROVE  Emission
<1>1. /\ visited = {Entry} /\ emitted = << >> /\ DOMAIN stack = {1}
      /\ stack[1].path = Entry /\ stack[1].sym = NULL /\ stack[1].next = 1 /\ Entry \in Path
  BY PathAssumption DEF Init, Call
<1>2. \A n \in DOMAIN body[Entry] : Ahead(Entry, n)
  <2>1. DOMAIN body[Entry] = 1 .. Len(body[Entry])
    BY <1>1, StackFacts
  <2> QED
    BY <1>1, <2>1 DEF Ahead
<1>3. Origin(Entry, 1)
  BY <1>1 DEF Origin
<1>4. ASSUME NEW sym \in Symbol
      PROVE  Count(Entry, 1, sym)
  <2>1. \A kind : CopiesOf(Entry, sym, kind) = {}
    BY <1>1 DEF CopiesOf
  <2>2. \A kind : Written(Entry, sym, kind) = {}
    BY <1>2 DEF Written, OfKind, Exports, Defined
  <2>3. Served(Entry, sym) = {}
    <3> SUFFICES ASSUME NEW i \in Served(Entry, sym)
                 PROVE  FALSE
      OBVIOUS
    <3>1. i \in Imports /\ Done(i)
      BY DEF Served, FromImports
    <3>2. i[1] = Entry /\ i[2] \in DOMAIN body[Entry]
      BY <1>1, <3>1, ImportIs
    <3> QED
      BY <1>2, <3>1, <3>2 DEF Done
  <2>4. Renamed(Served(Entry, sym)) = {}
    BY <2>3 DEF Renamed
  <2>5. Cardinality({}) = 0
    BY FS_EmptySet
  <2>6. \A kind : /\ Cardinality(Exports(Entry, sym)) \in Nat
                  /\ Cardinality(Chosen(Entry, sym, kind)) \in Nat
    BY <1>1, CardinalitiesAreNumbers
  <2>7. 1 * 0 = 0 /\ \A n \in Nat : 0 * n = 0 /\ 0 + 0 * n = 0
    OBVIOUS
  <2> QED
    BY <2>1, <2>2, <2>3, <2>4, <2>5, <2>6, <2>7 DEF Count
<1>5. Account(Entry)
  BY <1>3, <1>4, BalanceIsCounts DEF Account
<1> QED
  BY <1>1, <1>5 DEF Emission

\* What the account says of a loaded program.
LEMMA InvariantEmits ==
  ASSUME IInv, Emission
  PROVE  EmissionExact
<1> SUFFICES ASSUME Loaded, NEW p \in visited
             PROVE  \E whole \in {0, 1} :
                      /\ ~NamedBy("from", p) => whole = 1
                      /\ p # Entry /\ ~NamedBy("import", p) => whole = 0
                      /\ \A sym \in Symbol :
                           LET froms == FromImports(p, sym)
                           IN /\ \A kind \in Kind :
                                   Cardinality(CopiesOf(p, sym, kind)) =
                                     whole * Cardinality(OfKind(p, sym, kind))
                                     + Cardinality(froms) * Cardinality(Chosen(p, sym, kind))
                              /\ Cardinality(CopiesOf(p, sym, "wrapper")) =
                                   Cardinality(Renamed(froms)) * Cardinality(Exports(p, sym))
  BY DEF EmissionExact
<1>1. status = "loaded" /\ stack = << >>
  BY DEF Loaded, IInv, Outcome
<1>2. PICK whole \in {0, 1} : Origin(p, whole) /\ Balanced(p, whole)
  BY <1>1 DEF Emission, Account
<1>3. \A q, n : ~Ahead(q, n) /\ ~UnderWay(q, n)
  BY <1>1 DEF Ahead, UnderWay
<1>4. \A sym : Served(p, sym) = FromImports(p, sym)
  BY <1>3 DEF Served, Done
<1>5. \A sym, kind : Written(p, sym, kind) = OfKind(p, sym, kind)
  BY <1>3 DEF Written
<1>6. ASSUME NEW sym \in Symbol, NEW kind \in Kind
      PROVE  Cardinality(CopiesOf(p, sym, kind)) =
               whole * Cardinality(OfKind(p, sym, kind))
               + Cardinality(FromImports(p, sym)) * Cardinality(Chosen(p, sym, kind))
  BY <1>2, <1>4, <1>5 DEF Balanced
<1>7. \A sym \in Symbol : Cardinality(CopiesOf(p, sym, "wrapper")) =
                            Cardinality(Renamed(FromImports(p, sym))) * Cardinality(Exports(p, sym))
  BY <1>2, <1>4 DEF Balanced
<1> QED
  BY <1>2, <1>6, <1>7 DEF Origin

(***************************************************************************)
(* The emission root holds exactly what the imports ask for: what is       *)
(* parsed under a path is copied whole or not at all, and every from       *)
(* import adds one copy of each exported definition of its symbol and a    *)
(* wrapper if it renames it, whatever the import graph and however often a *)
(* path is visited.                                                        *)
(***************************************************************************)
THEOREM EmissionAsImported == Spec => []EmissionExact
<1>1. Init => IInv /\ Emission
  BY InitEstablishes, InitEmits
<1>2. IInv /\ Emission /\ [Next]_vars => (IInv /\ Emission)'
  <2> SUFFICES ASSUME IInv, Emission, [Next]_vars
               PROVE  IInv' /\ Emission'
    OBVIOUS
  <2>1. IInv'
    BY ImportModuleStep, ImportSymbolStep, CopyDefinitionStep, EndFileStep, SelectSymbolStep,
       StutterStep DEF Next
  <2>2. Emission'
    BY <2>1, ImportModuleEmits, ImportSymbolEmits, SkipEmits, CopyEmits, EndFileEmits, SelectEmits,
       StutterEmits DEF Next
  <2> QED
    BY <2>1, <2>2
<1>3. IInv /\ Emission => EmissionExact
  BY InvariantEmits
<1> QED
  BY <1>1, <1>2, <1>3, PTL DEF Spec

-----------------------------------------------------------------------------
(***************************************************************************)
(* What a file imports, directly or not.                                   *)
(***************************************************************************)
LEMMA ImportedDirectly ==
  ASSUME NEW i \in Imports, At(i).of \in visited
  PROVE  At(i).of \in Imported(i[1])
<1>1. At(i).of \in ImportedBy(i[1])
  BY DEF ImportedBy
<1> QED
  BY <1>1 DEF Imported

LEMMA ImportedThrough ==
  ASSUME NEW p, NEW i \in Imports, i[1] \in Imported(p), At(i).of \in visited
  PROVE  At(i).of \in Imported(p)
<1>1. At(i).of \in ImportedBy(i[1])
  BY DEF ImportedBy
<1> QED
  BY <1>1 DEF Imported, Closed

\* Files that come later take nothing away.
LEMMA ImportedKept ==
  ASSUME IInv, Keeps, NEW p, NEW q \in Imported(p)
  PROVE  q \in Imported(p)'
<1>1. visited \subseteq visited'
  BY DEF Keeps
<1>2. ASSUME NEW r
      PROVE  ImportedBy(r) \subseteq ImportedBy(r)'
  <2> SUFFICES ASSUME NEW i \in Imports, i[1] = r, At(i).of \in visited
               PROVE  At(i).of \in ImportedBy(r)'
    BY DEF ImportedBy
  <2>1. i \in Imports' /\ At(i)' = At(i)
    BY ImportsKept
  <2> QED
    BY <1>1, <2>1 DEF ImportedBy
<1>3. q \in visited'
  BY <1>1 DEF Imported
<1> SUFFICES ASSUME NEW C \in SUBSET visited', ImportedBy(p)' \subseteq C, Closed(C)'
             PROVE  q \in C
  BY <1>3 DEF Imported
<1> DEFINE D == C \cap visited
<1>4. ImportedBy(p) \subseteq D
  BY <1>2 DEF ImportedBy
<1>5. Closed(D)
  <2>1. \A r \in C : ImportedBy(r)' \subseteq C
    BY DEF Closed
  <2>2. \A r : ImportedBy(r) \subseteq visited
    BY DEF ImportedBy
  <2> QED
    BY <1>2, <2>1, <2>2 DEF Closed
<1> HIDE DEF D
<1>6. D \in SUBSET visited
  BY DEF D
<1>7. q \in D
  BY <1>4, <1>5, <1>6 DEF Imported
<1> QED
  BY <1>7 DEF D

\* A set of numbers that is not empty has a least element.
LEMMA Smallest ==
  ASSUME NEW T \in SUBSET Nat, T # {}
  PROVE  \E x \in T : \A y \in T : x <= y
<1> DEFINE R == OpToRel(<, Nat)
<1>1. IsWellFoundedOn(R, Nat)
  BY NatLessThanWellFounded
<1>2. PICK x \in T : \A y \in T : ~ (<<y, x>> \in R)
  BY <1>1, WFMin
<1>3. \A y \in T : ~(y < x)
  BY <1>2 DEF OpToRel
<1> QED
  BY <1>3

\* The import that the activation at k works for.
LEMMA CallerImports ==
  ASSUME IInv, NEW k \in DOMAIN stack, k > 1
  PROVE  LET c == stack[k - 1]
             i == <<c.path, c.next - 1>>
         IN /\ k - 1 \in DOMAIN stack /\ i \in Imports /\ Works(stack[k], At(i))
<1> DEFINE c == stack[k - 1]
           n == c.next - 1
<1>1. k - 1 \in DOMAIN stack
  BY StackFacts
<1>2. c.path \in visited /\ c.next \in 1 .. Len(body[c.path]) + 1 /\ Len(body[c.path]) \in Nat
      /\ DOMAIN body[c.path] = 1 .. Len(body[c.path]) /\ c.next \in Nat
  BY <1>1, StackFacts
<1>3. c.next > 1 /\ Works(stack[k], body[c.path][n])
  BY DEF IInv, Callers
<1>4. n \in DOMAIN body[c.path]
  BY <1>2, <1>3
<1>5. IsImport(body[c.path][n])
  BY <1>3 DEF Works, IsImport
<1> HIDE DEF c, n
<1>6. <<c.path, n>> \in Imports /\ At(<<c.path, n>>) = body[c.path][n]
  BY <1>2, <1>4, <1>5, ImportFacts
<1> QED
  BY <1>1, <1>3, <1>6 DEF c, n

\* What is above a file on the stack is imported by it.
LEMMA StackIsPath ==
  ASSUME IInv, NEW j \in DOMAIN stack, NEW k \in DOMAIN stack, j < k
  PROVE  stack[k].path \in Imported(stack[j].path)
<1> DEFINE T == {n \in DOMAIN stack : j < n /\ stack[n].path \notin Imported(stack[j].path)}
<1>0. DOMAIN stack = 1 .. Len(stack) /\ Len(stack) \in Nat
  BY StackFacts
<1> SUFFICES ASSUME T # {}
             PROVE  FALSE
  OBVIOUS
<1>1. T \in SUBSET Nat /\ T # {}
  BY <1>0
<1> HIDE DEF T
<1>2. PICK n \in T : \A m \in T : n <= m
  BY <1>1, Smallest
<1>3. n \in DOMAIN stack /\ j < n /\ stack[n].path \notin Imported(stack[j].path)
  BY <1>2 DEF T
<1>4. n - 1 \in DOMAIN stack /\ n > 1 /\ n - 1 \notin T
  BY <1>0, <1>2, <1>3
<1> DEFINE c == stack[n - 1]
           i == <<c.path, c.next - 1>>
<1>5. i \in Imports /\ Works(stack[n], At(i)) /\ i[1] = c.path
  BY <1>3, <1>4, CallerImports
<1>6. At(i).of = stack[n].path /\ At(i).of \in visited
  BY <1>3, <1>5, StackFacts DEF Works
<1> HIDE DEF i
<1>7. CASE j = n - 1
  BY <1>3, <1>5, <1>6, <1>7, ImportedDirectly
<1>8. CASE j # n - 1
  <2>1. c.path \in Imported(stack[j].path)
    BY <1>0, <1>3, <1>4, <1>8 DEF T
  <2> QED
    BY <1>3, <1>5, <1>6, <2>1, ImportedThrough
<1> QED
  BY <1>7, <1>8

\* An activation that selects works for a from import.
LEMMA UndividedCopied ==
  ASSUME IInv, NEW k \in DOMAIN stack, Undivided(stack[k].path)
  PROVE  stack[k].sym = NULL
<1>1. DOMAIN stack = 1 .. Len(stack) /\ Len(stack) \in Nat /\ stack # << >>
  BY StackFacts
<1>2. CASE k = 1
  BY <1>1, <1>2 DEF IInv, Callers
<1>3. CASE k # 1
  <2> DEFINE c == stack[k - 1]
             i == <<c.path, c.next - 1>>
  <2>1. i \in Imports /\ Works(stack[k], At(i))
    BY <1>1, <1>3, CallerImports
  <2> HIDE DEF i
  <2>2. At(i).of = stack[k].path /\ At(i).op # "from"
    BY <2>1 DEF Works, Undivided, NamedBy
  <2> QED
    BY <2>1, <2>2 DEF Works
<1> QED
  BY <1>2, <1>3

-----------------------------------------------------------------------------
(***************************************************************************)
(* The order of the emission root.                                         *)
(***************************************************************************)

\* A definition that was executed is behind every import before it.
LEMMA DoneBefore ==
  ASSUME IInv, NEW i \in Imports, NEW j \in DOMAIN body[i[1]], j > i[2], ~Ahead(i[1], j)
  PROVE  Done(i)
<1>1. /\ i[1] \in visited /\ i[2] \in Nat /\ j \in Nat
      /\ \A k \in DOMAIN stack : stack[k].next \in Nat
  BY ImportIs, StackFacts
<1>2. ~Ahead(i[1], i[2])
  BY <1>1 DEF Ahead
<1>3. ~UnderWay(i[1], i[2])
  BY <1>1 DEF Ahead, UnderWay
<1> QED
  BY <1>2, <1>3 DEF Done

\* Copies that are there keep their places.
LEMMA PlacesKept ==
  ASSUME IInv, Keeps, Emission, NEW t \in Seq(Copied), emitted' = emitted \o t,
         NEW q \in visited, NEW j, NEW k \in DOMAIN emitted
  PROVE  /\ k \in DOMAIN emitted' /\ emitted'[k] = emitted[k]
         /\ IsCopy(k, q, j)' <=> IsCopy(k, q, j)
<1>1. emitted \in Seq(Copied) /\ body'[q] = body[q]
  BY DEF Emission, Copied, Keeps
<1>2. /\ Len(emitted) \in Nat /\ Len(t) \in Nat /\ DOMAIN emitted = 1 .. Len(emitted)
      /\ DOMAIN emitted' = 1 .. Len(emitted) + Len(t)
      /\ \A m \in 1 .. Len(emitted) : emitted'[m] = emitted[m]
  BY <1>1
<1>3. k \in DOMAIN emitted' /\ emitted'[k] = emitted[k]
  BY <1>2
<1>4. \A m \in 1 .. k : emitted'[m] = emitted[m]
  BY <1>2
<1>5. {m \in 1 .. k : emitted'[m][1] = q} = {m \in 1 .. k : emitted[m][1] = q}
  BY <1>4
<1>6. Rank(q, j)' = Rank(q, j)
  BY <1>1 DEF Rank, IsImport
<1> QED
  BY <1>3, <1>5, <1>6 DEF IsCopy

LEMMA PrecedesKept ==
  ASSUME IInv, Keeps, Emission, NEW t \in Seq(Copied), emitted' = emitted \o t,
         NEW p, NEW q \in visited, NEW j, Precedes(p, q, j),
         \A k \in DOMAIN t : t[k][1] # p
  PROVE  Precedes(p, q, j)'
<1> SUFFICES ASSUME NEW k \in DOMAIN emitted', NEW m \in DOMAIN emitted',
                    IsCopy(k, q, j)', emitted'[m][1] = p
             PROVE  m < k
  BY DEF Precedes
<1>1. emitted \in Seq(Copied)
  BY DEF Emission, Copied
<1>2. /\ Len(emitted) \in Nat /\ Len(t) \in Nat /\ DOMAIN emitted = 1 .. Len(emitted)
      /\ DOMAIN t = 1 .. Len(t) /\ DOMAIN emitted' = 1 .. Len(emitted) + Len(t)
      /\ \A n \in Len(emitted) + 1 .. Len(emitted) + Len(t) : emitted'[n] = t[n - Len(emitted)]
  BY <1>1
<1>3. m \in DOMAIN emitted
  <2> SUFFICES ASSUME m \notin DOMAIN emitted
               PROVE  FALSE
    OBVIOUS
  <2>1. m \in Len(emitted) + 1 .. Len(emitted) + Len(t) /\ m - Len(emitted) \in 1 .. Len(t)
    BY <1>2
  <2> QED
    BY <1>2, <2>1
<1>4. CASE k \in DOMAIN emitted
  BY <1>3, <1>4, PlacesKept DEF Precedes
<1>5. CASE k \notin DOMAIN emitted
  BY <1>2, <1>3, <1>5
<1> QED
  BY <1>4, <1>5

\* Copies of other files do not count.
LEMMA InTurnKept ==
  ASSUME IInv, Keeps, Emission, NEW t \in Seq(Copied), emitted' = emitted \o t,
         NEW q \in visited, \A k \in DOMAIN t : t[k][1] # q, SameAhead(q), InTurn(q)
  PROVE  InTurn(q)'
<1>1. emitted \in Seq(Copied) /\ body'[q] = body[q]
  BY DEF Emission, Copied, Keeps
<1>2. /\ Len(emitted) \in Nat /\ Len(t) \in Nat /\ DOMAIN emitted = 1 .. Len(emitted)
      /\ DOMAIN t = 1 .. Len(t) /\ DOMAIN emitted' = 1 .. Len(emitted) + Len(t)
      /\ \A n \in 1 .. Len(emitted) : emitted'[n] = emitted[n]
      /\ \A n \in Len(emitted) + 1 .. Len(emitted) + Len(t) : emitted'[n] = t[n - Len(emitted)]
  BY <1>1
<1>3. \A n \in DOMAIN emitted' : emitted'[n][1] = q => n \in DOMAIN emitted
  <2> SUFFICES ASSUME NEW n \in DOMAIN emitted', n \notin DOMAIN emitted
               PROVE  emitted'[n][1] # q
    OBVIOUS
  <2>1. n \in Len(emitted) + 1 .. Len(emitted) + Len(t) /\ n - Len(emitted) \in 1 .. Len(t)
    BY <1>2
  <2> QED
    BY <1>2, <2>1
<1>4. {k \in DOMAIN emitted' : emitted'[k][1] = q} = {k \in DOMAIN emitted : emitted[k][1] = q}
  BY <1>2, <1>3
<1> DEFINE S == {j \in DOMAIN body[q] : ~IsImport(body[q][j]) /\ ~Ahead(q, j)}
<1>5. S' = S
  <2>1. S' = {j \in DOMAIN body[q] : ~IsImport(body[q][j]) /\ ~Ahead(q, j)'}
    BY <1>1 DEF IsImport
  <2> QED
    BY <2>1 DEF SameAhead
<1>6. Cardinality({k \in DOMAIN emitted : emitted[k][1] = q}) = Cardinality(S)
  BY DEF InTurn
<1> HIDE DEF S
<1>7. Cardinality({k \in DOMAIN emitted' : emitted'[k][1] = q}) = Cardinality(S')
  BY <1>4, <1>5, <1>6
<1> QED
  BY <1>7 DEF InTurn, S

\* Nothing of a new file is executed or copied.
LEMMA NewInTurn ==
  ASSUME IInv, Emission, NewAhead, NEW t \in Seq(Copied), emitted' = emitted \o t,
         NEW q \in visited' \ visited, \A k \in DOMAIN t : t[k][1] # q
  PROVE  InTurn(q)'
<1>1. emitted \in Seq(Copied) /\ \A k \in DOMAIN emitted : emitted[k][1] # q
  BY DEF Emission, Copied
<1>2. /\ Len(emitted) \in Nat /\ Len(t) \in Nat /\ DOMAIN emitted = 1 .. Len(emitted)
      /\ DOMAIN t = 1 .. Len(t) /\ DOMAIN emitted' = 1 .. Len(emitted) + Len(t)
      /\ \A n \in 1 .. Len(emitted) : emitted'[n] = emitted[n]
      /\ \A n \in Len(emitted) + 1 .. Len(emitted) + Len(t) : emitted'[n] = t[n - Len(emitted)]
  BY <1>1
<1>3. \A n \in DOMAIN emitted' : emitted'[n][1] # q
  <2> SUFFICES ASSUME NEW n \in DOMAIN emitted', n \notin DOMAIN emitted
               PROVE  emitted'[n][1] # q
    BY <1>1, <1>2
  <2>1. n \in Len(emitted) + 1 .. Len(emitted) + Len(t) /\ n - Len(emitted) \in 1 .. Len(t)
    BY <1>2
  <2> QED
    BY <1>2, <2>1
<1>4. {k \in DOMAIN emitted' : emitted'[k][1] = q} = {}
  BY <1>3
<1>5. {j \in DOMAIN body'[q] : ~IsImport(body[q][j])' /\ ~(Ahead(q, j)')} = {}
  BY DEF NewAhead
<1> QED
  BY <1>4, <1>5 DEF InTurn

\* The imports of a file that was there were there.
LEMMA OldImport ==
  ASSUME IInv, Keeps, NEW i \in Imports', i[1] \in visited
  PROVE  i \in Imports /\ At(i)' = At(i)
<1>1. PICK q \in visited' : i \in {q} \X DOMAIN body'[q]
  BY DEF Imports
<1>2. i = <<i[1], i[2]>> /\ i[1] = q /\ i[2] \in DOMAIN body'[q] /\ body'[q] = body[q]
  BY <1>1 DEF Keeps
<1>3. At(i)' = At(i)
  BY <1>2 DEF At
<1>4. IsImport(At(i))
  <2>1. IsImport(At(i))'
    BY DEF Imports, At
  <2> QED
    BY <1>3, <2>1 DEF IsImport
<1>5. i \in {q} \X DOMAIN body[q]
  BY <1>2
<1> QED
  BY <1>2, <1>3, <1>4, <1>5 DEF Imports, At

\* An import that becomes done leaves its file complete, or was made by it.
Completes ==
  \A i \in Imports, p \in Path : p = At(i).of /\ Undivided(p)' /\ Done(i)' /\ OnStack(p)' =>
    (Done(i) /\ OnStack(p)) \/ i[1] \in Imported(p)

\* A step that copies nothing of a file that is copied whole.
LEMMA QuietOrder ==
  ASSUME IInv, Emission, Order, Keeps, NewAhead, status = "loading",
         NEW t \in Seq(Copied), emitted' = emitted \o t,
         \A k \in DOMAIN t : ~(Undivided(t[k][1])'),
         \A q \in visited : Undivided(q) => SameAhead(q),
         Completes
  PROVE  Order'
<1>1. \A q : Undivided(q)' => Undivided(q)
  BY NamedKept DEF Undivided
<1>2. ASSUME NEW q \in visited', Undivided(q)'
      PROVE  InTurn(q)'
  <2>1. \A k \in DOMAIN t : t[k][1] # q
    BY <1>2
  <2>2. CASE q \in visited
    BY <1>1, <1>2, <2>1, <2>2, InTurnKept DEF Order
  <2>3. CASE q \notin visited
    BY <2>1, <2>3, NewInTurn
  <2> QED
    BY <2>2, <2>3
<1>3. ASSUME NEW i \in Imports', Undivided(At(i).of)', i[1] \in visited
      PROVE  Settled(i)' /\ Ordered(i)'
  <2>1. i \in Imports /\ At(i)' = At(i)
    BY <1>3, OldImport
  <2>2. At(i).of \in Path
    BY <2>1, ImportIs DEF Import, FromImport
  <2>3. PICK p \in Path : p = At(i).of
    BY <2>2
  <2>4. At(i)'.of = p
    BY <2>1, <2>3
  <2>5. Undivided(p)'
    BY <1>3, <2>4 DEF Undivided, NamedBy
  <2>6. Settled(i) /\ Ordered(i)
    BY <1>1, <2>1, <2>3, <2>5 DEF Order
  <2> DEFINE q == i[1]
  <2>7. Settled(i)'
    <3> SUFFICES ASSUME Done(i)', OnStack(p)'
                 PROVE  q \in Imported(p)'
      BY <2>4 DEF Settled
    <3>1. q \in Imported(p)
      BY <2>1, <2>3, <2>5, <2>6 DEF Settled, Completes
    <3> QED
      BY <3>1, ImportedKept
  <2>8. Ordered(i)'
    <3> SUFFICES ASSUME Undivided(q)', q \notin Imported(p)', NEW j \in DOMAIN body'[q],
                        j > i[2], ~IsImport(body[q][j])', ~(Ahead(q, j)')
                 PROVE  Precedes(p, q, j)'
      BY <2>4 DEF Ordered
    <3>1. body'[q] = body[q] /\ Undivided(q) /\ q \notin Imported(p)
      BY <1>1, <1>3, ImportedKept DEF Keeps
    <3>2. ~IsImport(body[q][j]) /\ ~Ahead(q, j)
      BY <1>3, <3>1 DEF SameAhead, IsImport
    <3>3. Precedes(p, q, j)
      BY <2>3, <2>6, <3>1, <3>2 DEF Ordered
    <3>4. \A k \in DOMAIN t : t[k][1] # p
      BY <2>5
    <3> QED
      BY <1>3, <3>3, <3>4, PrecedesKept
  <2> QED
    BY <2>7, <2>8
<1>4. ASSUME NEW i \in Imports', i[1] \notin visited
      PROVE  Settled(i)' /\ Ordered(i)'
  <2>1. i[1] \in visited' \ visited /\ i[2] \in DOMAIN body'[i[1]]
    BY <1>4 DEF Imports
  <2>2. \A n \in DOMAIN body'[i[1]] : Ahead(i[1], n)'
    BY <2>1 DEF NewAhead
  <2> QED
    BY <2>1, <2>2 DEF Settled, Ordered, Done
<1> QED
  BY <1>2, <1>3, <1>4 DEF Order

-----------------------------------------------------------------------------
(***************************************************************************)
(* One lemma per action.                                                   *)
(***************************************************************************)

\* A file that is on the stack has imported the one on top.
LEMMA TopImported ==
  ASSUME IInv, AtStatement, IsImport(Current), OnStack(Current.of)
  PROVE  Top.path \in Imported(Current.of)
<1> DEFINE i == <<Top.path, Top.next>>
<1>1. /\ Len(stack) \in DOMAIN stack /\ Len(stack) \in Nat /\ DOMAIN stack = 1 .. Len(stack)
      /\ Top = stack[Len(stack)]
  BY StatementFacts, StackFacts
<1>2. i \in Imports /\ At(i) = Current /\ i[1] = Top.path
  BY CurrentImport
<1>3. PICK k \in DOMAIN stack : stack[k].path = Current.of
  BY DEF OnStack
<1>4. Current.of \in visited
  BY <1>3, StackFacts
<1> HIDE DEF i
<1>5. CASE k = Len(stack)
  BY <1>1, <1>2, <1>3, <1>4, <1>5, ImportedDirectly
<1>6. CASE k # Len(stack)
  BY <1>1, <1>3, <1>6, StackIsPath
<1> QED
  BY <1>5, <1>6

LEMMA NothingCopied ==
  ASSUME IInv, Emission, Order, Keeps, NewAhead, status = "loading", emitted' = emitted,
         \A q \in visited : Undivided(q) => SameAhead(q), Completes
  PROVE  Order'
<1> DEFINE none == << >>
<1>1. none \in Seq(Copied) /\ emitted' = emitted \o none /\ DOMAIN none = {}
  BY DEF Emission, Copied
<1> HIDE DEF none
<1> QED
  BY <1>1, QuietOrder

\* A statement that is passed is the only one that becomes done.
LEMMA DoneAfter ==
  ASSUME IInv, AtStatement, stack' = Advanced, NEW i \in Imports, Done(i)'
  PROVE  Done(i) \/ i = <<Top.path, Top.next>>
<1>1. i = <<i[1], i[2]>> /\ i[1] \in visited /\ i[2] \in DOMAIN body[i[1]]
  BY ImportIs
<1>2. /\ Ahead(i[1], i[2])' <=> Ahead(i[1], i[2]) /\ ~(i[1] = Top.path /\ i[2] = Top.next)
      /\ UnderWay(i[1], i[2])' <=> UnderWay(i[1], i[2])
  BY <1>1, AdvanceMoves
<1> QED
  BY <1>1, <1>2 DEF Done

LEMMA OnStackAdvanced ==
  ASSUME IInv, AtStatement, stack' = Advanced, NEW p
  PROVE  OnStack(p)' <=> OnStack(p)
<1>1. /\ Len(stack) \in Nat /\ DOMAIN stack = 1 .. Len(stack) /\ DOMAIN stack' = 1 .. Len(stack)
      /\ \A k \in 1 .. Len(stack) : stack'[k].path = stack[k].path
  BY StackFacts, AdvancedFacts
<1> QED
  BY <1>1 DEF OnStack

LEMMA OnStackPushed ==
  ASSUME IInv, AtStatement, NEW c \in CallType, stack' = Append(Advanced, c), NEW p, OnStack(p)'
  PROVE  OnStack(p) \/ p = c.path
<1>1. /\ Len(stack) \in Nat /\ DOMAIN stack = 1 .. Len(stack) /\ DOMAIN stack' = 1 .. Len(stack) + 1
      /\ \A k \in 1 .. Len(stack) : stack'[k].path = stack[k].path
      /\ stack'[Len(stack) + 1] = c
  BY StackFacts, AdvancedFacts
<1>2. PICK k \in 1 .. Len(stack) + 1 : stack'[k].path = p
  BY <1>1 DEF OnStack
<1> QED
  BY <1>1, <1>2 DEF OnStack

\* An import that calls: nothing is done that was not, and the file that is
\* entered is a new one, or one that a from import names.
LEMMA PushOrder ==
  ASSUME IInv, Emission, Order, AtStatement, Keeps, NewAhead, emitted' = emitted, IsImport(Current),
         NEW c \in CallType, stack' = Append(Advanced, c),
         c.path \in visited => c.next = Len(body[c.path]) + 1 /\ NamedBy("from", c.path)
  PROVE  Order'
<1>1. status = "loading"
  BY StatementFacts
<1>2. \A q \in visited : SameAhead(q)
  BY SameAheadPushed
<1>3. ASSUME NEW i \in Imports, NEW p \in Path, p = At(i).of, Undivided(p)', Done(i)', OnStack(p)'
      PROVE  Done(i) /\ OnStack(p)
  <2>1. Done(i)
    BY <1>3, DonePushed
  <2>2. p \in visited
    BY <1>1, <1>3, <2>1, ServedIsVisited
  <2>3. ~NamedBy("from", p)
    BY <1>3, NamedKept DEF Undivided
  <2> QED
    BY <1>3, <2>1, <2>2, <2>3, OnStackPushed
<1>4. Completes
  BY <1>3 DEF Completes
<1> QED
  BY <1>1, <1>2, <1>4, NothingCopied

LEMMA ImportModuleOrders ==
  ASSUME IInv, Emission, Order, ImportModule
  PROVE  Order'
<1>1. /\ AtStatement /\ Current.op = "import" /\ IsImport(Current) /\ emitted' = emitted
      /\ status = "loading"
  BY StatementFacts DEF ImportModule, IsImport
<1>2. Current.of \in Path
  BY <1>1, StatementFacts DEF Definition, Kind, Import, FromImport
<1>3. CASE Current.of \in visited
  <2>1. stack' = Advanced /\ visited' = visited /\ body' = body
    BY <1>3 DEF ImportModule
  <2>2. Keeps /\ NewAhead
    BY <2>1 DEF Keeps, NewAhead
  <2>4. \A q \in visited : SameAhead(q)
    BY <1>1, <2>1, SameAheadAdvanced
  <2>5. ASSUME NEW i \in Imports, NEW p \in Path, p = At(i).of, Undivided(p)', Done(i)', OnStack(p)'
        PROVE  (Done(i) /\ OnStack(p)) \/ i[1] \in Imported(p)
    <3>1. OnStack(p)
      BY <1>1, <2>1, <2>5, OnStackAdvanced
    <3>2. CASE Done(i)
      BY <3>1, <3>2
    <3>3. CASE i = <<Top.path, Top.next>>
      <4>1. At(i) = Current /\ i[1] = Top.path
        BY <1>1, <3>3, CurrentImport
      <4> QED
        BY <1>1, <2>5, <3>1, <4>1, TopImported
    <3> QED
      BY <1>1, <2>1, <2>5, <3>2, <3>3, DoneAfter
  <2>6. Completes
    BY <2>5 DEF Completes
  <2> QED
    BY <1>1, <2>2, <2>4, <2>6, NothingCopied
<1>4. CASE Current.of \notin visited
  <2>1. \E call \in CallType : call = Call(Current.of, NULL, FALSE)
    BY <1>2 DEF Call, CallType
  <2>2. PICK call \in CallType : call = Call(Current.of, NULL, FALSE)
    BY <2>1
  <2>3. call.path = Current.of /\ call.next = 1
    BY <2>2 DEF Call
  <2>4. Visit(Current.of) /\ stack' = Append(Advanced, call)
    BY <1>4, <2>2 DEF ImportModule
  <2>5. /\ Keeps /\ visited' = visited \cup {call.path}
        /\ \A q \in visited' : body'[q] \in Seq(Statements[q])
    BY <1>2, <1>4, <2>3, <2>4, VisitFacts
  <2>6. NewAhead
    BY <1>1, <2>3, <2>4, <2>5, PushedAhead
  <2> QED
    BY <1>1, <1>4, <2>3, <2>4, <2>5, <2>6, PushOrder
<1> QED
  BY <1>3, <1>4

LEMMA ImportSymbolOrders ==
  ASSUME IInv, Emission, Order, ImportSymbol
  PROVE  Order'
<1>1. /\ AtStatement /\ Current.op = "from" /\ IsImport(Current) /\ emitted' = emitted
  BY DEF ImportSymbol, IsImport
<1>2. Current.of \in Path /\ Current.sym \in Symbol /\ Current.alias \in BOOLEAN
  BY <1>1, StatementFacts DEF Definition, Kind, Import, FromImport
<1>3. NamedBy("from", Current.of)
  BY <1>1, CurrentImport DEF NamedBy
<1>4. \E call \in CallType : call = Call(Current.of, Current.sym, Current.alias)
  BY <1>2 DEF Call, CallType
<1>5. PICK call \in CallType : call = Call(Current.of, Current.sym, Current.alias)
  BY <1>4
<1>6. call.path = Current.of /\ call.next = 1
  BY <1>5 DEF Call
<1>7. CASE Current.of \in visited
  <2> DEFINE c == [call EXCEPT !.next = Len(body[Current.of]) + 1]
  <2>1. stack' = Append(Advanced, c) /\ visited' = visited /\ body' = body
    BY <1>5, <1>7 DEF ImportSymbol
  <2>2. c \in CallType /\ c.path = Current.of /\ c.next = Len(body[c.path]) + 1
    BY <1>6, <1>7, StackFacts DEF CallType
  <2>3. Keeps /\ NewAhead
    BY <2>1 DEF Keeps, NewAhead
  <2> HIDE DEF c
  <2> QED
    BY <1>1, <1>3, <2>1, <2>2, <2>3, PushOrder
<1>8. CASE Current.of \notin visited
  <2>1. Visit(Current.of) /\ stack' = Append(Advanced, call)
    BY <1>5, <1>8 DEF ImportSymbol
  <2>2. /\ Keeps /\ visited' = visited \cup {call.path}
        /\ \A q \in visited' : body'[q] \in Seq(Statements[q])
    BY <1>2, <1>6, <1>8, <2>1, VisitFacts
  <2>3. NewAhead
    BY <1>1, <1>6, <2>1, <2>2, PushedAhead
  <2> QED
    BY <1>1, <1>6, <1>8, <2>1, <2>2, <2>3, PushOrder
<1> QED
  BY <1>7, <1>8

\* The first pass of a from import copies nothing.
LEMMA SkipOrders ==
  ASSUME IInv, Emission, Order, CopyDefinition, Top.sym # NULL
  PROVE  Order'
<1>1. /\ AtStatement /\ ~IsImport(Current) /\ stack' = Advanced /\ emitted' = emitted
      /\ body' = body /\ visited' = visited /\ status = "loading"
  BY StatementFacts DEF CopyDefinition
<1>2. Keeps /\ NewAhead
  BY <1>1 DEF Keeps, NewAhead
<1>4. ~Undivided(Top.path)
  BY <1>1, StatementFacts, UndividedCopied
<1>5. \A q \in visited : Undivided(q) => SameAhead(q)
  BY <1>1, <1>4, SameAheadAdvanced
<1>6. ASSUME NEW i \in Imports, NEW p \in Path, Done(i)', OnStack(p)'
      PROVE  Done(i) /\ OnStack(p)
  <2>1. IsImport(At(i)) /\ At(i) = body[i[1]][i[2]]
    BY ImportIs
  <2>2. i # <<Top.path, Top.next>>
    BY <1>1, <2>1 DEF Current
  <2> QED
    BY <1>1, <1>6, <2>2, DoneAfter, OnStackAdvanced
<1>7. Completes
  BY <1>6 DEF Completes
<1> QED
  BY <1>1, <1>2, <1>5, <1>7, NothingCopied

\* A call that returns takes its file off the stack, unless it selected.
LEMMA PopOrder ==
  ASSUME IInv, Emission, Order, AtEnd, stack' = Popped, body' = body, visited' = visited,
         NEW t \in Seq(Copied), emitted' = emitted \o t,
         \A k \in DOMAIN t : NamedBy("from", t[k][1])
  PROVE  Order'
<1>1. Keeps /\ NewAhead /\ status = "loading"
  BY DEF Keeps, NewAhead, AtEnd, Running
<1>2. \A k \in DOMAIN t : ~(Undivided(t[k][1])')
  <2> SUFFICES ASSUME NEW k \in DOMAIN t
               PROVE  NamedBy("from", t[k][1])'
    BY DEF Undivided
  <2> QED
    BY <1>1, NamedKept
<1>3. \A q \in visited : SameAhead(q)
  BY SameAheadPopped
<1>4. /\ Len(stack) \in Nat /\ DOMAIN stack = 1 .. Len(stack) /\ Len(stack) > 0
      /\ Top = stack[Len(stack)] /\ Len(stack) \in DOMAIN stack
  <2>1. Len(stack) \in Nat /\ DOMAIN stack = 1 .. Len(stack) /\ stack \in Seq(CallType)
    BY StackFacts
  <2>2. stack # << >> /\ Top = stack[Len(stack)]
    BY DEF AtEnd, Running, Top
  <2> QED
    BY <2>1, <2>2
<1>5. DOMAIN stack' = 1 .. Len(stack) - 1 /\ \A k \in 1 .. Len(stack) - 1 : stack'[k] = stack[k]
  BY <1>4, StackFacts DEF Popped
<1>6. ASSUME NEW i \in Imports, NEW p \in Path, p = At(i).of, Undivided(p)', Done(i)', OnStack(p)'
      PROVE  Done(i) /\ OnStack(p)
  <2>1. PICK k \in 1 .. Len(stack) - 1 : stack[k].path = p
    <3>1. PICK k \in DOMAIN stack' : stack'[k].path = p
      BY <1>6 DEF OnStack
    <3> QED
      BY <1>5, <3>1
  <2>2. OnStack(p)
    <3>1. k \in DOMAIN stack
      BY <1>4, <2>1
    <3> QED
      BY <2>1, <3>1 DEF OnStack
  <2>3. ~IsCall(i[1], i[2])
    <3> SUFFICES ASSUME IsCall(i[1], i[2])
                 PROVE  FALSE
      OBVIOUS
    <3>1. Works(Top, At(i))
      <4>1. At(i) = body[i[1]][i[2]]
        BY ImportIs
      <4> QED
        BY <1>4, <4>1 DEF IsCall, Caller, IInv, Callers
    <3>2. Top.path = p
      BY <1>6, <3>1 DEF Works
    <3>3. Undivided(p)
      BY <1>1, <1>6, NamedKept DEF Undivided
    <3>4. Top.sym = NULL
      BY <1>4, <3>2, <3>3, UndividedCopied
    <3>5. Selecting(Len(stack))
      <4>1. k \in DOMAIN stack /\ k < Len(stack) /\ stack[k].path = stack[Len(stack)].path
        BY <1>4, <2>1, <3>2
      <4> QED
        BY <1>4, <4>1 DEF IInv, Activations
    <3> QED
      BY <1>4, <3>4, <3>5 DEF Selecting
  <2> QED
    BY <1>6, <2>2, <2>3, DonePopped
<1>7. Completes
  BY <1>6 DEF Completes
<1> QED
  BY <1>1, <1>2, <1>3, <1>7, QuietOrder

LEMMA EndFileOrders ==
  ASSUME IInv, Emission, Order, EndFile
  PROVE  Order'
<1>1. /\ AtEnd /\ stack' = Popped /\ body' = body /\ visited' = visited /\ emitted' = emitted
  BY DEF EndFile
<1> DEFINE none == << >>
<1>2. none \in Seq(Copied) /\ emitted' = emitted \o none /\ DOMAIN none = {}
  BY <1>1 DEF Emission, Copied
<1> HIDE DEF none
<1> QED
  BY <1>1, <1>2, PopOrder

LEMMA SelectOrders ==
  ASSUME IInv, Emission, Order, SelectSymbol
  PROVE  Order'
<1> DEFINE D == Exports(Top.path, Top.sym)
           value == \E k \in D : body[Top.path][k].op = "value"
<1>1. AtEnd /\ Top.sym # NULL /\ stack' = Popped /\ body' = body /\ visited' = visited /\ stack # << >>
  BY DEF SelectSymbol, AtEnd, Running
<1>0. Len(stack) \in DOMAIN stack /\ Top = stack[Len(stack)] /\ stack \in Seq(CallType)
  <2>1. Len(stack) > 1 /\ Len(stack) \in Nat /\ DOMAIN stack = 1 .. Len(stack) /\ stack \in Seq(CallType)
    BY <1>1, CallerFacts, StackFacts
  <2> QED
    BY <2>1 DEF Top
<1>2. CASE D = {} \/ (Top.alias /\ value)
  <2>1. status' \in {"no export", "alias target"}
    BY <1>2 DEF SelectSymbol
  <2> QED
    BY <2>1 DEF Order
<1>3. CASE ~(D = {} \/ (Top.alias /\ value))
  <2>1. PICK sel \in InOrder(D) : emitted' = emitted \o Copies(sel)
    BY <1>3 DEF SelectSymbol
  <2>2. NamedBy("from", Top.path)
    BY <1>0, <1>1, UndividedCopied DEF Undivided
  <2>3. Top.path \in visited /\ Top.sym \in Symbol
    <3>1. Top \in CallType
      BY <1>0
    <3> QED
      BY <1>0, <1>1, <3>1, StackFacts DEF CallType
  <2>4. PICK t : t = Copies(sel)
    OBVIOUS
  <2>5. t \in Seq(Copied) /\ \A k \in DOMAIN t : t[k][1] = Top.path
    BY <1>3, <2>3, <2>4, CopiesCounted
  <2> QED
    BY <1>1, <2>1, <2>2, <2>4, <2>5, PopOrder
<1> QED
  BY <1>2, <1>3

\* The definitions of the file on top that were executed are those before
\* its statement.
LEMMA WrittenSoFar ==
  ASSUME IInv, AtStatement
  PROVE  LET q == Top.path
             d == Top.next
         IN /\ \A j \in DOMAIN body[q] : Ahead(q, j) <=> j >= d
            /\ Rank(q, d) = Cardinality({j \in DOMAIN body[q] : ~IsImport(body[q][j]) /\ ~Ahead(q, j)})
                            + (IF IsImport(Current) THEN 0 ELSE 1)
            /\ Rank(q, d) \in Nat
<1> DEFINE q == Top.path
           d == Top.next
           S == {j \in DOMAIN body[q] : ~IsImport(body[q][j]) /\ ~Ahead(q, j)}
           R == {n \in 1 .. d : ~IsImport(body[q][n])}
<1>1. /\ Len(stack) \in DOMAIN stack /\ Top = stack[Len(stack)] /\ q \in visited
      /\ d \in DOMAIN body[q] /\ d \in Nat /\ DOMAIN body[q] = 1 .. Len(body[q]) /\ Len(body[q]) \in Nat
  BY StatementFacts, StackFacts
<1>2. ASSUME NEW j \in DOMAIN body[q]
      PROVE  Ahead(q, j) <=> j >= d
  <2>1. \A k \in DOMAIN stack : stack[k].path = q => k = Len(stack)
    BY TopAlone
  <2> QED
    BY <1>1, <2>1 DEF Ahead
<1>3. S = {n \in 1 .. d - 1 : ~IsImport(body[q][n])}
  <2>1. \A j \in DOMAIN body[q] : ~Ahead(q, j) <=> j \in 1 .. d - 1
    BY <1>1, <1>2
  <2>2. 1 .. d - 1 \subseteq DOMAIN body[q]
    BY <1>1
  <2> QED
    BY <2>1, <2>2
<1>4. IsFiniteSet(S) /\ d \notin S /\ Cardinality(S) \in Nat
  <2>1. IsFiniteSet(1 .. d - 1)
    <3>1. 1 \in Int /\ d - 1 \in Int
      BY <1>1
    <3> HIDE DEF d
    <3> QED
      BY <3>1, FS_Interval
  <2>2. S \in SUBSET (1 .. d - 1) /\ d \notin 1 .. d - 1
    BY <1>1, <1>3
  <2> HIDE DEF S
  <2> QED
    BY <2>1, <2>2, FS_Subset, FS_CardinalityType
<1>5. R = IF IsImport(Current) THEN S ELSE S \cup {d}
  <2>1. \A n \in 1 .. d : n = d \/ n \in 1 .. d - 1
    BY <1>1
  <2>2. d \in 1 .. d /\ 1 .. d - 1 \subseteq 1 .. d
    BY <1>1
  <2> QED
    BY <1>3, <2>1, <2>2 DEF Current
<1> HIDE DEF S
<1>6. Cardinality(S \cup {d}) = Cardinality(S) + 1
  BY <1>4, FS_AddElement
<1> HIDE DEF R
<1>7. Cardinality(R) = Cardinality(S) + (IF IsImport(Current) THEN 0 ELSE 1)
  <2>1. CASE IsImport(Current)
    BY <1>4, <1>5, <2>1
  <2>2. CASE ~IsImport(Current)
    BY <1>5, <1>6, <2>2
  <2> QED
    BY <2>1, <2>2
<1>8. Rank(q, d) = Cardinality(R)
  BY DEF Rank, R
<1>9. Rank(q, d) = Cardinality(S) + (IF IsImport(Current) THEN 0 ELSE 1) /\ Rank(q, d) \in Nat
  BY <1>4, <1>7, <1>8
<1> QED
  BY <1>2, <1>9 DEF S

\* The copy of a definition takes the next place of its file.
LEMMA CopiedInTurn ==
  ASSUME IInv, Emission, CopyDefinition, Top.sym = NULL, InTurn(Top.path)
  PROVE  \A q : q = Top.path => InTurn(q)'
<1> SUFFICES ASSUME NEW q, q = Top.path
             PROVE  InTurn(q)'
  OBVIOUS
<1> DEFINE d == Top.next
           x == <<q, Current.sym, Current.op>>
           S == {j \in DOMAIN body[q] : ~IsImport(body[q][j]) /\ ~Ahead(q, j)}
           C == {k \in DOMAIN emitted : emitted[k][1] = q}
<1>1. /\ AtStatement /\ ~IsImport(Current) /\ stack' = Advanced
      /\ body' = body /\ emitted' = Append(emitted, x)
  BY DEF CopyDefinition
<1>2. emitted \in Seq(Copied) /\ Len(emitted) \in Nat /\ DOMAIN emitted = 1 .. Len(emitted)
  BY DEF Emission, Copied
<1>3. /\ DOMAIN emitted' = 1 .. Len(emitted) + 1 /\ emitted'[Len(emitted) + 1] = x
      /\ \A k \in 1 .. Len(emitted) : emitted'[k] = emitted[k]
  BY <1>1, <1>2
<1>4. {k \in DOMAIN emitted' : emitted'[k][1] = q} = C \cup {Len(emitted) + 1}
  <2>1. 1 .. Len(emitted) + 1 = 1 .. Len(emitted) \cup {Len(emitted) + 1}
    BY <1>2
  <2>2. x[1] = q
    OBVIOUS
  <2> HIDE DEF x
  <2> QED
    BY <1>2, <1>3, <2>1, <2>2
<1>5. IsFiniteSet(C) /\ Len(emitted) + 1 \notin C
  <2>1. IsFiniteSet(DOMAIN emitted) /\ C \in SUBSET DOMAIN emitted
    BY <1>2, FS_Interval
  <2> QED
    BY <1>2, <2>1, FS_Subset
<1>6. q \in visited /\ d \in DOMAIN body[q] /\ body[q][d] = Current
  BY <1>1, StatementFacts DEF Current
<1>7. {j \in DOMAIN body[q] : ~IsImport(body[q][j]) /\ ~(Ahead(q, j)')} = S \cup {d}
  <2>1. \A j \in DOMAIN body[q] : Ahead(q, j)' <=> Ahead(q, j) /\ j # d
    BY <1>1, <1>6, AdvanceMoves
  <2> QED
    BY <1>1, <1>6, <2>1
<1>8. IsFiniteSet(S) /\ d \notin S
  <2>1. IsFiniteSet(DOMAIN body[q]) /\ S \in SUBSET DOMAIN body[q]
    BY <1>6, StackFacts, FS_Interval
  <2>2. Ahead(q, d)
    BY <1>1, CurrentFacts
  <2> QED
    BY <2>1, <2>2, FS_Subset
<1>9. Cardinality(C) = Cardinality(S)
  BY DEF InTurn
<1> HIDE DEF C, S
<1>10. Cardinality(C \cup {Len(emitted) + 1}) = Cardinality(C) + 1
       /\ Cardinality(S \cup {d}) = Cardinality(S) + 1
  BY <1>5, <1>8, FS_AddElement
<1>11. {j \in DOMAIN body'[q] : ~IsImport(body[q][j])' /\ ~(Ahead(q, j)')} = S \cup {d}
  BY <1>1, <1>7 DEF IsImport
<1> QED
  BY <1>4, <1>9, <1>10, <1>11 DEF InTurn

\* The new copy comes after all copies of another file.
LEMMA CopiedLast ==
  ASSUME IInv, Emission, CopyDefinition, Top.sym = NULL, InTurn(Top.path),
         NEW q, q = Top.path, NEW p, p # q
  PROVE  \A d : d = Top.next => Precedes(p, q, d)'
<1> DEFINE x == <<q, Current.sym, Current.op>>
           N == Len(emitted)
           C == {k \in DOMAIN emitted : emitted[k][1] = q}
<1> SUFFICES ASSUME NEW d, d = Top.next, NEW k \in DOMAIN emitted', NEW m \in DOMAIN emitted',
                    IsCopy(k, q, d)', emitted'[m][1] = p
             PROVE  m < k
  BY DEF Precedes
<1>1. /\ AtStatement /\ ~IsImport(Current) /\ stack' = Advanced
      /\ body' = body /\ emitted' = Append(emitted, x)
  BY DEF CopyDefinition
<1>2. emitted \in Seq(Copied) /\ N \in Nat /\ DOMAIN emitted = 1 .. N
  BY DEF Emission, Copied
<1>3. /\ DOMAIN emitted' = 1 .. N + 1 /\ emitted'[N + 1] = x
      /\ \A n \in 1 .. N : emitted'[n] = emitted[n]
  BY <1>1, <1>2
<1>4. m \in 1 .. N
  <2>1. x[1] = q
    OBVIOUS
  <2> HIDE DEF x
  <2> QED
    BY <1>2, <1>3, <2>1
<1>5. IsFiniteSet(C) /\ Cardinality(C) \in Nat
  <2>1. IsFiniteSet(DOMAIN emitted) /\ C \in SUBSET DOMAIN emitted
    BY <1>2, FS_Interval
  <2> QED
    BY <2>1, FS_Subset, FS_CardinalityType
<1>6. Rank(q, d) = Cardinality(C) + 1
  BY <1>1, WrittenSoFar DEF InTurn
<1>7. Rank(q, d)' = Rank(q, d)
  BY <1>1 DEF Rank, IsImport
<1>8. k = N + 1
  <2> SUFFICES ASSUME k \in 1 .. N
               PROVE  FALSE
    BY <1>2, <1>3
  <2> DEFINE K == {n \in 1 .. k : emitted'[n][1] = q}
  <2>1. K \subseteq C
    BY <1>2, <1>3
  <2>2. Cardinality(K) = Cardinality(C) + 1
    BY <1>6, <1>7 DEF IsCopy
  <2> HIDE DEF K, C
  <2>3. Cardinality(K) <= Cardinality(C)
    BY <1>5, <2>1, FS_Subset
  <2> QED
    BY <1>5, <2>2, <2>3
<1> QED
  BY <1>2, <1>4, <1>8

LEMMA CopyOrders ==
  ASSUME IInv, Emission, Order, CopyDefinition, Top.sym = NULL
  PROVE  Order'
<1> SUFFICES ASSUME NEW r, r = Top.path
             PROVE  Order'
  OBVIOUS
<1> DEFINE d == Top.next
           x == <<r, Current.sym, Current.op>>
<1>1. /\ AtStatement /\ ~IsImport(Current) /\ stack' = Advanced /\ status = "loading"
      /\ body' = body /\ visited' = visited /\ emitted' = Append(emitted, x)
  BY StatementFacts DEF CopyDefinition
<1>2. r \in visited /\ d \in DOMAIN body[r] /\ OnStack(r)
  BY <1>1, StatementFacts DEF OnStack
<1>3. Keeps /\ NewAhead
  BY <1>1 DEF Keeps, NewAhead
<1>4. PICK t : t = <<x>>
  OBVIOUS
<1>5. t \in Seq(Copied) /\ emitted' = emitted \o t /\ \A k \in DOMAIN t : t[k][1] = r
  <2>1. x \in Copied
    BY <1>1, StatementFacts DEF Copied, Definition, Kind, Import, FromImport, IsImport
  <2>2. x[1] = r /\ emitted \in Seq(Copied)
    BY DEF Emission, Copied
  <2> HIDE DEF x
  <2> QED
    BY <1>1, <1>4, <2>1, <2>2
<1>6. \A q \in visited : q # r => SameAhead(q)
  BY <1>1, SameAheadAdvanced
<1>7. /\ Imports' = Imports /\ \A i : At(i)' = At(i)
      /\ \A q : Undivided(q)' <=> Undivided(q)
      /\ \A q, p : q \in Imported(p)' <=> q \in Imported(p)
  <2>1. Imports' = Imports /\ \A i : At(i)' = At(i)
    BY <1>1 DEF Imports, At, IsImport
  <2>2. \A q : Undivided(q)' <=> Undivided(q)
    BY <2>1 DEF Undivided, NamedBy
  <2>3. \A q : ImportedBy(q)' = ImportedBy(q)
    BY <1>1, <2>1 DEF ImportedBy
  <2>4. \A q, p : q \in Imported(p)' <=> q \in Imported(p)
    BY <1>1, <2>3 DEF Imported, Closed
  <2> QED
    BY <2>1, <2>2, <2>4
<1>8. ASSUME NEW q \in visited, Undivided(q)
      PROVE  InTurn(q)'
  <2>1. InTurn(q)
    BY <1>1, <1>8 DEF Order
  <2>2. CASE q = r
    BY <2>1, <2>2, CopiedInTurn
  <2>3. CASE q # r
    BY <1>3, <1>5, <1>6, <2>1, <2>3, InTurnKept
  <2> QED
    BY <2>2, <2>3
<1>9. ASSUME NEW i \in Imports, NEW p \in Path, p = At(i).of, Undivided(p)
      PROVE  Settled(i)' /\ Ordered(i)'
  <2> DEFINE q == i[1]
  <2>1. Settled(i) /\ Ordered(i)
    BY <1>1, <1>9 DEF Order
  <2>2. At(i)'.of = p /\ q \in visited /\ body'[q] = body[q] /\ IsImport(At(i))
        /\ At(i) = body[i[1]][i[2]]
    BY <1>1, <1>7, <1>9, ImportIs
  <2>3. Settled(i)'
    <3> SUFFICES ASSUME Done(i)', OnStack(p)'
                 PROVE  q \in Imported(p)'
      BY <2>2 DEF Settled
    <3>1. i # <<Top.path, Top.next>>
      BY <1>1, <2>2 DEF Current
    <3>2. Done(i) /\ OnStack(p)
      BY <1>1, <3>1, DoneAfter, OnStackAdvanced
    <3> QED
      BY <1>7, <1>9, <2>1, <3>2 DEF Settled
  <2>4. Ordered(i)'
    <3> SUFFICES ASSUME Undivided(q)', q \notin Imported(p)', NEW j \in DOMAIN body[q],
                        j > i[2], ~IsImport(body[q][j])', ~(Ahead(q, j)')
                 PROVE  Precedes(p, q, j)'
      BY <2>2 DEF Ordered
    <3>1. Undivided(q) /\ q \notin Imported(p) /\ ~IsImport(body[q][j])
      BY <1>1, <1>7 DEF IsImport
    <3>2. p # q
      <4>1. p \in visited => p \in Imported(q)
        BY <1>9, ImportedDirectly
      <4> QED
        BY <2>2, <3>1, <4>1
    <3>3. CASE q = r /\ j = d
      <4>1. InTurn(r)
        BY <1>1, <1>2, <3>1, <3>3 DEF Order
      <4> QED
        BY <3>2, <3>3, <4>1, CopiedLast
    <3>4. CASE ~(q = r /\ j = d)
      <4>1. ~Ahead(q, j)
        BY <1>1, <2>2, <3>4, AdvanceMoves
      <4>2. Done(i)
        BY <4>1, DoneBefore
      <4>3. p # r
        BY <1>2, <1>9, <2>1, <3>1, <4>2 DEF Settled
      <4>4. Precedes(p, q, j)
        BY <1>9, <2>1, <3>1, <4>1 DEF Ordered
      <4> QED
        BY <1>3, <1>5, <2>2, <4>3, <4>4, PrecedesKept
    <3> QED
      BY <3>3, <3>4
  <2> QED
    BY <2>3, <2>4
<1>10. ASSUME NEW i \in Imports, Undivided(At(i).of)
       PROVE  Settled(i)' /\ Ordered(i)'
  <2>1. At(i).of \in Path
    BY ImportIs DEF Import, FromImport
  <2> QED
    BY <1>9, <1>10, <2>1
<1>11. \A q \in visited' : Undivided(q)' => InTurn(q)'
  BY <1>1, <1>7, <1>8
<1>12. \A i \in Imports' : Undivided(At(i).of)' => Settled(i)' /\ Ordered(i)'
  <2>1. \A i : Undivided(At(i).of)' => Undivided(At(i).of)
    BY <1>7 DEF Undivided, NamedBy
  <2> QED
    BY <1>7, <1>10, <2>1
<1> QED
  BY <1>11, <1>12 DEF Order

LEMMA StutterOrders ==
  ASSUME Order, UNCHANGED vars
  PROVE  Order'
<1>1. UNCHANGED <<body, visited, emitted, stack, status>>
  BY DEF vars
<1>2. \A p, n : (Ahead(p, n)' <=> Ahead(p, n)) /\ (UnderWay(p, n)' <=> UnderWay(p, n))
  BY <1>1 DEF Ahead, UnderWay
<1>3. Imports' = Imports /\ \A i : At(i)' = At(i)
  BY <1>1 DEF Imports, At, IsImport
<1>4. \A q : (Undivided(q)' <=> Undivided(q)) /\ ImportedBy(q)' = ImportedBy(q)
             /\ (OnStack(q)' <=> OnStack(q))
  BY <1>1, <1>3 DEF Undivided, NamedBy, ImportedBy, OnStack
<1>5. \A q, p : q \in Imported(p)' <=> q \in Imported(p)
  BY <1>1, <1>4 DEF Imported, Closed
<1>6. \A q : InTurn(q)' <=> InTurn(q)
  BY <1>1, <1>2 DEF InTurn, IsImport
<1>7. \A p, q, j : Precedes(p, q, j)' <=> Precedes(p, q, j)
  BY <1>1 DEF Precedes, IsCopy, Rank, IsImport
<1>8. ASSUME NEW i \in Imports, NEW p, p = At(i).of
      PROVE  /\ Settled(i)' <=> Settled(i)
             /\ Ordered(i)' <=> Ordered(i)
             /\ Undivided(At(i).of)' <=> Undivided(p)
  <2>1. At(i)'.of = p
    BY <1>3, <1>8
  <2>2. Settled(i)' <=> Settled(i)
    BY <1>2, <1>4, <1>5, <1>8, <2>1 DEF Settled, Done
  <2>3. Ordered(i)' <=> Ordered(i)
    BY <1>1, <1>2, <1>4, <1>5, <1>7, <1>8, <2>1 DEF Ordered, IsImport
  <2>4. Undivided(At(i).of)' <=> Undivided(p)
    BY <1>3, <1>8 DEF Undivided, NamedBy
  <2> QED
    BY <2>2, <2>3, <2>4
<1> QED
  BY <1>1, <1>3, <1>4, <1>6, <1>8 DEF Order

LEMMA InitOrders ==
  ASSUME Init, IInv
  PROVE  Order
<1>1. /\ visited = {Entry} /\ emitted = << >> /\ DOMAIN stack = {1}
      /\ stack[1].path = Entry /\ stack[1].next = 1 /\ Entry \in Path
  BY PathAssumption DEF Init, Call
<1>2. \A n \in DOMAIN body[Entry] : Ahead(Entry, n)
  <2>1. DOMAIN body[Entry] = 1 .. Len(body[Entry])
    BY <1>1, StackFacts
  <2> QED
    BY <1>1, <2>1 DEF Ahead
<1>3. InTurn(Entry)
  <2>1. {k \in DOMAIN emitted : emitted[k][1] = Entry} = {}
    BY <1>1
  <2>2. {j \in DOMAIN body[Entry] : ~IsImport(body[Entry][j]) /\ ~Ahead(Entry, j)} = {}
    BY <1>2
  <2> QED
    BY <2>1, <2>2 DEF InTurn
<1>4. ASSUME NEW i \in Imports
      PROVE  Settled(i) /\ Ordered(i)
  <2>1. i[1] = Entry /\ i[2] \in DOMAIN body[Entry]
    BY <1>1, ImportIs
  <2> QED
    BY <1>2, <2>1 DEF Settled, Ordered, Done
<1> QED
  BY <1>1, <1>3, <1>4 DEF Order

\* What the order is when nothing is left to execute.
LEMMA InvariantOrders ==
  ASSUME IInv, Order
  PROVE  ImportsFirst
<1> SUFFICES ASSUME Loaded, NEW i \in Imports, Undivided(At(i).of), Undivided(i[1]),
                    i[1] \notin Imported(At(i).of), NEW j \in DOMAIN body[i[1]], j > i[2],
                    ~IsImport(body[i[1]][j])
             PROVE  Precedes(At(i).of, i[1], j)
  BY DEF ImportsFirst
<1>1. status = "loaded" /\ stack = << >>
  BY DEF Loaded, IInv, Outcome
<1>2. ~Ahead(i[1], j)
  BY <1>1 DEF Ahead
<1>3. Ordered(i)
  BY <1>1 DEF Order
<1> QED
  BY <1>2, <1>3 DEF Ordered

(***************************************************************************)
(* What a file imports is emitted before the definitions that follow the   *)
(* import, unless the two import each other, for any number of files and   *)
(* any import graph.                                                       *)
(***************************************************************************)
THEOREM EmissionInOrder == Spec => []ImportsFirst
<1>1. Init => IInv /\ Emission /\ Order
  BY InitEstablishes, InitEmits, InitOrders
<1>2. IInv /\ Emission /\ Order /\ [Next]_vars => (IInv /\ Emission /\ Order)'
  <2> SUFFICES ASSUME IInv, Emission, Order, [Next]_vars
               PROVE  IInv' /\ Emission' /\ Order'
    OBVIOUS
  <2>1. IInv'
    BY ImportModuleStep, ImportSymbolStep, CopyDefinitionStep, EndFileStep, SelectSymbolStep,
       StutterStep DEF Next
  <2>2. Emission'
    BY <2>1, ImportModuleEmits, ImportSymbolEmits, SkipEmits, CopyEmits, EndFileEmits, SelectEmits,
       StutterEmits DEF Next
  <2>3. Order'
    BY ImportModuleOrders, ImportSymbolOrders, SkipOrders, CopyOrders, EndFileOrders, SelectOrders,
       StutterOrders DEF Next
  <2> QED
    BY <2>1, <2>2, <2>3
<1>3. IInv /\ Order => ImportsFirst
  BY InvariantOrders
<1> QED
  BY <1>1, <1>2, <1>3, PTL DEF Spec
=============================================================================
