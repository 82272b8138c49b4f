---------------------------- MODULE NamesProofs ----------------------------
(***************************************************************************)
(* GlobalMeaning, CallMeaning and CapturesPassed hold for any programs     *)
(* and for bodies of any length.  IInv is inductive; CallMeaning also      *)
(* needs what the loop over the registered functions computes, an          *)
(* induction on the functions it has considered.                           *)
(***************************************************************************)
EXTENDS Names, TLAPS, FiniteSetTheorems, NaturalsInduction, WellFoundedInduction

\* What phase says of the collection and of the place in the root.
Stages ==
  /\ prog \in Programs /\ index \in Nat \ {0}
  /\ phase \in {"collect", "root", "body", "done", "refused"}
  /\ phase \in {"root", "body", "done"} =>
       functions = Registered /\ ~DuplicateImport /\ ~DuplicateFunction
  /\ phase = "body" => index = prog.run
  /\ phase = "done" => index > Len(prog.root)

\* A name that the global scope binds is that of an emitted variable, which
\* has a declaration in C.
GlobalScope ==
  \A x \in DOMAIN global :
    Emitted(global[x].module, x) /\ <<global[x].module, x>> \in declared

\* So has every variable that has been walked over, but for homonyms.
Walked ==
  \A i \in DOMAIN prog.root : i < index /\ IsVariable(i) =>
    LET m == prog.root[i].module
        x == prog.root[i].name
    IN <<m, x>> \in declared \/ Homonym(m, x)

\* The suites of the body: that of the function, perhaps that of the nested
\* function defined last, and blocks.
Owners  == Nat \cup {NULL}
Binding == [type : Type, module : {NULL}, owner : Owners]
ScopeType  == [owner : Owners, vars : UNION {[N -> Binding] : N \in SUBSET Name}]
Suites ==
  phase = "body" =>
    /\ scopes \in Seq(ScopeType) /\ Len(scopes) >= 1 /\ scopes[1].owner = 0
    /\ \A d \in 2 .. Len(scopes) : scopes[d].owner # NULL =>
         d = 2 /\ scopes[d].owner = defined /\ defined >= 1
    /\ \A d \in 1 .. Len(scopes) : \A x \in DOMAIN scopes[d].vars :
         scopes[d].vars[x].owner = scopes[d].owner

Variables == DOMAIN scopes[1].vars

\* A nested function captures variables of the enclosing suite.
Captured ==
  /\ captured \in [NestedIds -> SUBSET Name] /\ defined \in 0 .. Len(Run.nested)
  /\ \A j \in NestedIds : j > defined => captured[j] = {}
  /\ phase = "collect" \/ (phase = "root" /\ index <= prog.run) => defined = 0 /\ calls = {}
  /\ phase = "body" => \A j \in NestedIds : captured[j] \subseteq Variables

\* A call of a nested function whose suite is still open has seen every
\* variable that this suite can capture from now on.
Calls ==
  \A c \in calls :
    /\ c.to \in NestedIds
    /\ c.after => c.to <= defined /\ captured[c.to] \subseteq c.sees \cup c.hidden
    /\ phase = "body" /\ c.after /\ Current = c.to => Variables \subseteq c.sees \cup c.hidden

IInv == Stages /\ GlobalScope /\ Walked /\ Suites /\ Captured /\ Calls

-----------------------------------------------------------------------------
(***************************************************************************)
(* The program does not change.                                            *)
(***************************************************************************)
LEMMA ProgramFacts ==
  ASSUME Stages
  PROVE  /\ prog.root \in Seq(Global \cup Function) /\ prog.globals \in Seq(Global)
         /\ DOMAIN prog.root = 1 .. Len(prog.root) /\ Len(prog.root) \in Nat
         /\ prog.run \in 1 .. Len(prog.root) /\ Run \in Function
         /\ Run.nested \in Seq(Nested) /\ Len(Run.nested) \in Nat /\ NestedIds = 1 .. Len(Run.nested)
         /\ Here \in Module /\ prog.imports[Here] \in Seq(Import)
         /\ NULL \notin Name /\ NULL \notin Module /\ NULL \notin Nat
         /\ prog.words \subseteq Name
         /\ \A b \in Range(prog.imports[Here]), g \in Range(prog.globals) :
              g.module = b.module /\ g.name = b.symbol => b.local = b.symbol
<1>1. prog \in Programs
  BY DEF Stages
<1>2. /\ prog.root \in Seq(Global \cup Function) /\ prog.globals \in Seq(Global)
      /\ DOMAIN prog.imports = Module /\ \A m \in Module : prog.imports[m] \in Seq(Import)
      /\ prog.run \in DOMAIN prog.root /\ prog.root[prog.run] \in Function
      /\ prog.words \subseteq Name
  BY <1>1, ProgramAssumption
<1>3. \A m \in Module : \A i \in DOMAIN prog.imports[m], g \in Range(prog.globals) :
        g.module = prog.imports[m][i].module /\ g.name = prog.imports[m][i].symbol
          => prog.imports[m][i].local = prog.imports[m][i].symbol
  BY <1>1, ProgramAssumption
<1>4. Run \in Function /\ Run.nested \in Seq(Nested) /\ Here \in Module
  BY <1>2 DEF Run, Here, Function
<1>5. DOMAIN prog.root = 1 .. Len(prog.root) /\ Len(prog.root) \in Nat
  BY <1>2
<1>6. Len(Run.nested) \in Nat /\ NestedIds = 1 .. Len(Run.nested)
  BY <1>4 DEF NestedIds
<1>7. \A b \in Range(prog.imports[Here]), g \in Range(prog.globals) :
        g.module = b.module /\ g.name = b.symbol => b.local = b.symbol
  BY <1>3, <1>4 DEF Range
<1>8. NULL \notin Name /\ NULL \notin Module /\ NULL \notin Nat
  BY ProgramAssumption
<1> QED
  BY <1>2, <1>4, <1>5, <1>6, <1>7, <1>8

LEMMA SameProgram ==
  ASSUME prog' = prog
  PROVE  /\ Registered' = Registered /\ DuplicateImport' = DuplicateImport
         /\ DuplicateFunction' = DuplicateFunction
         /\ Run' = Run /\ Here' = Here /\ NestedIds' = NestedIds
         /\ \A i : IsVariable(i)' <=> IsVariable(i)
         /\ \A m, x : Emitted(m, x)' <=> Emitted(m, x)
         /\ \A m, x : Homonym(m, x)' <=> Homonym(m, x)
<1>1. Registered' = Registered
  BY DEF Registered, Infos, Info
<1>2. DuplicateImport' = DuplicateImport
  BY DEF DuplicateImport, Twice
<1>3. DuplicateFunction' = DuplicateFunction
  BY <1>1 DEF DuplicateFunction, Twice
<1>4. Run' = Run /\ Here' = Here /\ NestedIds' = NestedIds
  BY DEF Run, Here, NestedIds
<1>5. /\ \A i : IsVariable(i)' <=> IsVariable(i)
      /\ \A m, x : Emitted(m, x)' <=> Emitted(m, x)
      /\ \A m, x : Homonym(m, x)' <=> Homonym(m, x)
  BY DEF IsVariable, Emitted, Homonym
<1> QED
  BY <1>1, <1>2, <1>3, <1>4, <1>5

\* Steps that leave the root alone.
LEMMA RootKept ==
  ASSUME Stages, GlobalScope, Walked, UNCHANGED <<prog, functions, index, global, declared>>,
         phase' = phase \/ phase' = "refused"
  PROVE  Stages' /\ GlobalScope' /\ Walked'
<1>1. Stages'
  BY SameProgram DEF Stages
<1>2. GlobalScope'
  BY SameProgram DEF GlobalScope
<1>3. Walked'
  BY SameProgram DEF Walked
<1> QED
  BY <1>1, <1>2, <1>3

LEMMA RefuseKeeps ==
  ASSUME IInv, Refuse
  PROVE  IInv'
<1>1. Stages' /\ GlobalScope' /\ Walked'
  BY RootKept DEF IInv, Refuse
<1>2. Suites' /\ Captured' /\ Calls'
  BY SameProgram DEF IInv, Refuse, Suites, Captured, Calls
<1> QED
  BY <1>1, <1>2 DEF IInv

-----------------------------------------------------------------------------
(***************************************************************************)
(* The root.                                                               *)
(***************************************************************************)
\* While no body is checked, the names of nested functions do not change.
LEMMA NoBodyKept ==
  ASSUME Captured, Calls, UNCHANGED <<prog, scopes, defined, captured, calls>>,
         phase # "body", phase' # "body",
         phase' = "collect" \/ (phase' = "root" /\ index' <= prog.run) =>
           phase = "collect" \/ (phase = "root" /\ index <= prog.run)
  PROVE  Suites' /\ Captured' /\ Calls'
BY SameProgram DEF Suites, Captured, Calls

LEMMA CollectKeeps ==
  ASSUME IInv, Collect
  PROVE  IInv'
<1>1. /\ Stages /\ GlobalScope /\ Walked /\ Captured /\ Calls
      /\ phase = "collect" /\ phase' \in {"refused", "root"}
      /\ UNCHANGED <<prog, index, global, declared, scopes, defined, captured, calls>>
      /\ phase' = "root" => functions' = Registered /\ ~DuplicateImport /\ ~DuplicateFunction'
  <2>1. /\ phase = "collect" /\ phase' \in {"refused", "root"}
        /\ UNCHANGED <<prog, index, global, declared, scopes, defined, captured, calls>>
        /\ phase' = "root" => functions' = Registered /\ ~DuplicateImport /\ ~DuplicateFunction
    BY DEF Collect
  <2> QED
    BY <2>1, SameProgram DEF IInv
<1>2. Stages'
  BY <1>1, SameProgram DEF Stages
<1>3. GlobalScope' /\ Walked'
  BY <1>1, SameProgram DEF GlobalScope, Walked
<1>4. Suites' /\ Captured' /\ Calls'
  BY <1>1, NoBodyKept
<1> QED
  BY <1>2, <1>3, <1>4 DEF IInv

\* A step of the walk over the root.
LEMMA WalkKeeps ==
  ASSUME IInv, phase = "root", index <= Len(prog.root),
         UNCHANGED <<prog, functions, scopes, defined, captured, calls>>,
         phase' = "root", index' = index + 1, index # prog.run,
         declared \subseteq declared', GlobalScope',
         IsVariable(index) =>
           \/ <<prog.root[index].module, prog.root[index].name>> \in declared'
           \/ Homonym(prog.root[index].module, prog.root[index].name)
  PROVE  IInv'
<1>1. Stages /\ Walked /\ Captured /\ Calls
  BY DEF IInv
<1>2. index \in Nat \ {0} /\ index' \in Nat \ {0} /\ prog.run \in Nat
      /\ \A i \in DOMAIN prog.root : i \in Nat
  <2>1. index \in Nat \ {0} /\ DOMAIN prog.root = 1 .. Len(prog.root) /\ Len(prog.root) \in Nat
        /\ prog.run \in 1 .. Len(prog.root)
    BY <1>1, ProgramFacts DEF Stages
  <2> QED
    BY <2>1
<1>3. Stages'
  BY <1>1, <1>2, SameProgram DEF Stages
<1>4. Walked'
  <2>1. \A i \in DOMAIN prog.root : i < index + 1 => i < index \/ i = index
    BY <1>2
  <2> QED
    BY <1>1, <2>1, SameProgram DEF Walked
<1>5. Suites' /\ Captured' /\ Calls'
  <2>1. index' <= prog.run => index <= prog.run
    BY <1>2
  <2> QED
    BY <1>1, <2>1, NoBodyKept
<1> QED
  BY <1>3, <1>4, <1>5 DEF IInv

\* Refused at the root.
LEMMA RootRefuseKeeps ==
  ASSUME IInv, phase = "root", phase' = "refused",
         UNCHANGED <<prog, functions, index, global, declared, scopes, defined, captured, calls>>
  PROVE  IInv'
<1>1. Stages' /\ GlobalScope' /\ Walked'
  BY RootKept DEF IInv
<1>2. Suites' /\ Captured' /\ Calls'
  BY NoBodyKept DEF IInv
<1> QED
  BY <1>1, <1>2 DEF IInv

\* The variable at index is bound, unless its name is.
LEMMA GlobalBound ==
  ASSUME GlobalScope, NEW item, item = prog.root[index], index \in DOMAIN prog.root, IsVariable(index),
         prog' = prog, BindGlobal(item), declared' = declared \cup {<<item.module, item.name>>}
  PROVE  GlobalScope'
<1> DEFINE b == [type |-> item.type, module |-> item.module, owner |-> NULL]
<1>1. global' = Bind(global, item.name, b)
  BY DEF BindGlobal
<1>2. Emitted(item.module, item.name)
  BY DEF Emitted
<1>3. ASSUME NEW x \in DOMAIN global'
      PROVE  \/ x = item.name /\ global'[x] = b
             \/ x \in DOMAIN global /\ global'[x] = global[x]
  <2>1. CASE item.name \in DOMAIN global
    <3>1. global' = global
      BY <1>1, <2>1 DEF Bind
    <3> QED
      BY <1>3, <3>1
  <2>2. CASE item.name \notin DOMAIN global
    <3> HIDE DEF b
    <3>1. global' = [y \in DOMAIN global \cup {item.name} |-> IF y = item.name THEN b ELSE global[y]]
      BY <1>1, <2>2 DEF Bind
    <3> QED
      BY <1>3, <3>1
  <2> QED
    BY <2>1, <2>2
<1> QED
  BY <1>2, <1>3, SameProgram DEF GlobalScope

LEMMA CheckTypedKeeps ==
  ASSUME IInv, CheckTyped
  PROVE  IInv'
<1> DEFINE item == prog.root[index]
<1>1. /\ phase = "root" /\ index <= Len(prog.root) /\ item.op = "typed"
      /\ UNCHANGED <<prog, functions, scopes, defined, captured, calls>>
  BY DEF CheckTyped, AtRoot
<1>2. index \in DOMAIN prog.root /\ IsVariable(index) /\ index # prog.run
  <2>1. Stages
    BY DEF IInv
  <2>2. index \in Nat \ {0} /\ DOMAIN prog.root = 1 .. Len(prog.root) /\ Len(prog.root) \in Nat
    BY <2>1, ProgramFacts DEF Stages
  <2>3. Run.op = "function"
    BY <2>1, ProgramFacts DEF Function
  <2> QED
    BY <1>1, <2>2, <2>3 DEF IsVariable, Run
<1>3. \/ phase' = "refused" /\ UNCHANGED <<index, global, declared>>
      \/ /\ BindGlobal(item) /\ declared' = declared \cup {<<item.module, item.name>>}
         /\ index' = index + 1 /\ phase' = "root"
  BY <1>1 DEF CheckTyped
<1>4. CASE phase' = "refused" /\ UNCHANGED <<index, global, declared>>
  BY <1>1, <1>4, RootRefuseKeeps
<1>5. CASE /\ BindGlobal(item) /\ declared' = declared \cup {<<item.module, item.name>>}
           /\ index' = index + 1 /\ phase' = "root"
  <2>1. GlobalScope'
    BY <1>1, <1>2, <1>5, GlobalBound DEF IInv
  <2> QED
    BY <1>1, <1>2, <1>5, <2>1, WalkKeeps
<1> QED
  BY <1>3, <1>4, <1>5

LEMMA CheckInferredKeeps ==
  ASSUME IInv, CheckInferred
  PROVE  IInv'
<1> DEFINE item == prog.root[index]
<1>1. /\ phase = "root" /\ index <= Len(prog.root) /\ item.op = "inferred"
      /\ UNCHANGED <<prog, functions, scopes, defined, captured, calls>>
  BY DEF CheckInferred, AtRoot
<1>2. /\ index \in DOMAIN prog.root /\ IsVariable(index) /\ index # prog.run
      /\ \A i \in DOMAIN prog.root : IsVariable(i) => prog.root[i].module \in Module
  <2>1. Stages
    BY DEF IInv
  <2>2. /\ index \in Nat \ {0} /\ DOMAIN prog.root = 1 .. Len(prog.root) /\ Len(prog.root) \in Nat
        /\ prog.root \in Seq(Global \cup Function)
    BY <2>1, ProgramFacts DEF Stages
  <2>3. Run.op = "function"
    BY <2>1, ProgramFacts DEF Function
  <2>4. \A i \in DOMAIN prog.root : prog.root[i] \in Global \cup Function
    BY <2>2
  <2> QED
    BY <1>1, <2>2, <2>3, <2>4 DEF IsVariable, Run, Global, Function
<1>3. \/ phase' = "refused" /\ UNCHANGED <<index, global, declared>>
      \/ /\ BindGlobal(item) /\ declared' = declared \cup {<<item.module, item.name>>}
         /\ index' = index + 1 /\ phase' = "root"
      \/ /\ item.name \in DOMAIN global /\ UNCHANGED <<global, declared>>
         /\ index' = index + 1 /\ phase' = "root"
  BY <1>1 DEF CheckInferred
<1>4. CASE phase' = "refused" /\ UNCHANGED <<index, global, declared>>
  BY <1>1, <1>4, RootRefuseKeeps
<1>5. CASE /\ BindGlobal(item) /\ declared' = declared \cup {<<item.module, item.name>>}
           /\ index' = index + 1 /\ phase' = "root"
  <2>1. GlobalScope'
    BY <1>1, <1>2, <1>5, GlobalBound DEF IInv
  <2> QED
    BY <1>1, <1>2, <1>5, <2>1, WalkKeeps
<1>6. CASE /\ item.name \in DOMAIN global /\ UNCHANGED <<global, declared>>
           /\ index' = index + 1 /\ phase' = "root"
  <2>1. GlobalScope
    BY DEF IInv
  <2>2. GlobalScope'
    BY <1>1, <1>6, <2>1, SameProgram DEF GlobalScope
  <2>3. \/ <<item.module, item.name>> \in declared
        \/ Homonym(item.module, item.name)
    <3> DEFINE m == global[item.name].module
    <3>1. Emitted(m, item.name) /\ <<m, item.name>> \in declared
      BY <1>6, <2>1 DEF GlobalScope
    <3>2. m \in Module
      BY <1>2, <3>1 DEF Emitted
    <3> QED
      BY <3>1, <3>2 DEF Homonym
  <2> QED
    BY <1>1, <1>2, <1>6, <2>2, <2>3, WalkKeeps
<1> QED
  BY <1>3, <1>4, <1>5, <1>6

LEMMA CheckOtherKeeps ==
  ASSUME IInv, CheckOther
  PROVE  IInv'
<1>1. /\ phase = "root" /\ index <= Len(prog.root) /\ prog.root[index].op = "function" /\ index # prog.run
      /\ UNCHANGED <<prog, functions, global, declared, scopes, defined, captured, calls>>
      /\ phase' = "root" /\ index' = index + 1
  BY DEF CheckOther, AtRoot, Unchanged
<1>2. GlobalScope'
  BY <1>1, SameProgram DEF IInv, GlobalScope
<1>3. ~IsVariable(index)
  BY <1>1 DEF IsVariable
<1> QED
  BY <1>1, <1>2, <1>3, WalkKeeps

LEMMA FinishKeeps ==
  ASSUME IInv, Finish
  PROVE  IInv'
<1>1. /\ Stages /\ GlobalScope /\ Walked /\ Captured /\ Calls
      /\ phase = "root" /\ index > Len(prog.root) /\ phase' = "done"
      /\ UNCHANGED <<prog, functions, index, global, declared, scopes, defined, captured, calls>>
  BY DEF IInv, Finish, Unchanged
<1>2. Stages' /\ GlobalScope' /\ Walked'
  BY <1>1, SameProgram DEF Stages, GlobalScope, Walked
<1>3. Suites' /\ Captured' /\ Calls'
  BY <1>1, NoBodyKept
<1> QED
  BY <1>2, <1>3 DEF IInv

-----------------------------------------------------------------------------
(***************************************************************************)
(* Suites.                                                                 *)
(***************************************************************************)
LEMMA Elements ==
  ASSUME NEW S, NEW s \in Seq(S)
  PROVE  /\ Len(s) \in Nat /\ DOMAIN s = 1 .. Len(s)
         /\ \A i \in DOMAIN s : s[i] \in S
OBVIOUS

LEMMA Smallest ==
  ASSUME NEW T \in SUBSET Nat, T # {}
  PROVE  \E x \in T : \A y \in T : x <= y
<1> DEFINE R == OpToRel(<, Nat)
<1>1. IsWellFoundedOn(R, Nat)
  BY NatLessThanWellFounded
<1>2. PICK x \in T : \A y \in T : ~ (<<y, x>> \in R)
  BY <1>1, WFMin
<1>3. \A y \in T : ~(y < x)
  BY <1>2 DEF OpToRel
<1> QED
  BY <1>3

\* Max of places in a sequence is the last of them.
LEMMA MaxFacts ==
  ASSUME NEW m \in Nat, NEW T \in SUBSET (1 .. m), T # {}
  PROVE  Max(T) \in T /\ \A y \in T : y <= Max(T)
<1> DEFINE U == {m - x : x \in T}
<1>1. U \in SUBSET Nat /\ U # {}
  <2>1. \A x \in T : m - x \in Nat
    OBVIOUS
  <2> QED
    BY <2>1
<1>2. PICK u \in U : \A y \in U : u <= y
  BY <1>1, Smallest
<1>3. PICK x \in T : u = m - x
  BY <1>2
<1>4. \A y \in T : m - x <= m - y
  BY <1>2, <1>3
<1>5. \A y \in T : x >= y
  BY <1>4
<1>6. Max(T) \in T /\ \A y \in T : Max(T) >= y
  BY <1>3, <1>5 DEF Max
<1>7. \A y \in T : y \in Nat
  OBVIOUS
<1> QED
  BY <1>6, <1>7

LEMMA SuiteFacts ==
  ASSUME Stages, Suites, phase = "body"
  PROVE  /\ scopes \in Seq(ScopeType) /\ Len(scopes) \in Nat /\ Len(scopes) >= 1
         /\ DOMAIN scopes = 1 .. Len(scopes)
         /\ \A d \in 1 .. Len(scopes) : /\ scopes[d] \in ScopeType /\ scopes[d].owner \in Owners
                                        /\ DOMAIN scopes[d].vars \subseteq Name
                                        /\ scopes[d].vars \in [DOMAIN scopes[d].vars -> Binding]
                                        /\ scopes[d] = [owner |-> scopes[d].owner, vars |-> scopes[d].vars]
         /\ Inner = scopes[Len(scopes)]
<1>1. /\ scopes \in Seq(ScopeType) /\ Len(scopes) \in Nat /\ Len(scopes) >= 1
      /\ DOMAIN scopes = 1 .. Len(scopes)
  BY DEF Suites
<1>2. ASSUME NEW s \in ScopeType
      PROVE  /\ s.owner \in Owners /\ DOMAIN s.vars \subseteq Name /\ s.vars \in [DOMAIN s.vars -> Binding]
             /\ s = [owner |-> s.owner, vars |-> s.vars]
  <2>1. s.owner \in Owners /\ s = [owner |-> s.owner, vars |-> s.vars]
        /\ s.vars \in UNION {[N -> Binding] : N \in SUBSET Name}
    BY DEF ScopeType
  <2>2. PICK N \in SUBSET Name : s.vars \in [N -> Binding]
    BY <2>1
  <2> QED
    BY <2>1, <2>2
<1> QED
  BY <1>1, <1>2 DEF Inner

\* The function whose suite is open.
LEMMA CurrentIs ==
  ASSUME Stages, Suites, phase = "body"
  PROVE  Current = IF Len(scopes) >= 2 /\ scopes[2].owner # NULL THEN defined ELSE 0
<1> DEFINE T == {d \in DOMAIN scopes : scopes[d].owner # NULL}
<1>1. /\ Len(scopes) \in Nat /\ Len(scopes) >= 1 /\ DOMAIN scopes = 1 .. Len(scopes)
      /\ NULL \notin Nat
  BY SuiteFacts, ProgramFacts
<1>2. scopes[1].owner = 0 /\ \A d \in 2 .. Len(scopes) : scopes[d].owner # NULL => d = 2 /\ scopes[d].owner = defined
  BY DEF Suites
<1>3. 1 \in T /\ T \in SUBSET (1 .. Len(scopes)) /\ T # {}
  BY <1>1, <1>2
<1>4. Max(T) \in T /\ \A y \in T : y <= Max(T)
  BY <1>1, <1>3, MaxFacts
<1>5. Current = scopes[Max(T)].owner
  BY DEF Current
<1>6. CASE Len(scopes) >= 2 /\ scopes[2].owner # NULL
  <2>1. 2 \in T
    BY <1>1, <1>6
  <2>2. \A y \in T : y = 1 \/ y = 2
    BY <1>1, <1>2
  <2>3. Max(T) = 2
    BY <1>4, <2>1, <2>2
  <2> QED
    BY <1>2, <1>1, <1>5, <1>6, <2>3
<1>7. CASE ~(Len(scopes) >= 2 /\ scopes[2].owner # NULL)
  <2>1. \A y \in T : y = 1
    BY <1>1, <1>2, <1>7
  <2> QED
    BY <1>2, <1>4, <1>5, <1>7, <2>1
<1> QED
  BY <1>6, <1>7

LEMMA CurrentIsSo ==
  Stages /\ Suites /\ phase = "body" =>
    Current = IF Len(scopes) >= 2 /\ scopes[2].owner # NULL THEN defined ELSE 0
BY CurrentIs

LEMMA CurrentIsNext ==
  (Stages /\ Suites /\ phase = "body" =>
    Current = IF Len(scopes) >= 2 /\ scopes[2].owner # NULL THEN defined ELSE 0)'
BY CurrentIsSo, PTL

\* A local name means the innermost variable that has it.
LEMMA VariableIs ==
  ASSUME Stages, Suites, phase = "body", NEW x, IsLocal(x)
  PROVE  \E d \in 1 .. Len(scopes) :
           /\ x \in DOMAIN scopes[d].vars /\ Variable(x) = scopes[d].vars[x]
           /\ Variable(x) \in Binding /\ Variable(x).owner = scopes[d].owner
<1>1. /\ Len(scopes) \in Nat /\ DOMAIN scopes = 1 .. Len(scopes)
      /\ \A d \in 1 .. Len(scopes) : scopes[d].vars \in [DOMAIN scopes[d].vars -> Binding]
  BY SuiteFacts
<1>2. Levels(x) \in SUBSET (1 .. Len(scopes)) /\ Levels(x) # {}
  BY <1>1 DEF Levels, IsLocal
<1>3. Max(Levels(x)) \in Levels(x)
  BY <1>1, <1>2, MaxFacts
<1> DEFINE d == Max(Levels(x))
<1>4. d \in 1 .. Len(scopes) /\ x \in DOMAIN scopes[d].vars
  BY <1>2, <1>3 DEF Levels
<1>5. Variable(x) = scopes[d].vars[x]
  BY DEF Variable
<1> HIDE DEF d
<1>6. Variable(x) \in Binding /\ Variable(x).owner = scopes[d].owner
  BY <1>1, <1>4, <1>5 DEF Suites
<1> QED
  BY <1>4, <1>5, <1>6

\* A nested function captures the variables of the enclosing suite.
LEMMA CaptureIsVariable ==
  ASSUME Stages, Suites, phase = "body", NEW x, IsLocal(x), IsCapture(Variable(x))
  PROVE  x \in Variables /\ Current = defined /\ defined >= 1
<1>1. PICK d \in 1 .. Len(scopes) :
        /\ x \in DOMAIN scopes[d].vars /\ Variable(x).owner = scopes[d].owner
  BY VariableIs
<1>2. Current # 0 /\ scopes[d].owner # NULL /\ scopes[d].owner # Current
  BY <1>1 DEF IsCapture
<1>3. Current = defined /\ Len(scopes) >= 2 /\ scopes[2].owner # NULL
  BY <1>2, CurrentIs
<1>4. \A e \in 2 .. Len(scopes) : scopes[e].owner # NULL => scopes[e].owner = defined /\ defined >= 1
  BY DEF Suites
<1>5. Len(scopes) \in Nat
  BY SuiteFacts
<1>6. d = 1
  BY <1>1, <1>2, <1>3, <1>4, <1>5
<1> QED
  BY <1>1, <1>3, <1>4, <1>5, <1>6 DEF Variables

-----------------------------------------------------------------------------
(***************************************************************************)
(* Statements of the body.                                                 *)
(***************************************************************************)

\* What the rest of the body leaves as it is.
LEMMA BodyRoot ==
  ASSUME IInv, phase = "body", phase' = "body",
         UNCHANGED <<prog, functions, index, global, declared>>
  PROVE  Stages' /\ GlobalScope' /\ Walked'
BY RootKept DEF IInv

\* Calls are kept while the variables are and the open suites are.
LEMMA CallsKept ==
  ASSUME IInv, phase = "body", phase' = "body", UNCHANGED <<prog, captured, calls>>,
         Stages', Suites', defined' \in Nat, defined' >= defined,
         Current' = 0 \/ Current' > defined \/ (Current' = Current /\ Variables' = Variables)
  PROVE  Calls'
<1>1. Calls /\ defined \in Nat /\ NestedIds' = NestedIds
  <2>1. Stages /\ Captured /\ Calls
    BY DEF IInv
  <2>2. Len(Run.nested) \in Nat
    BY <2>1, ProgramFacts
  <2> QED
    BY <2>1, <2>2, SameProgram DEF Captured
<1>2. ASSUME NEW c \in calls
      PROVE  /\ c.to \in NestedIds' /\ c.to \in Nat /\ c.to # 0
             /\ c.after => c.to <= defined' /\ captured'[c.to] \subseteq c.sees \cup c.hidden
             /\ c.after /\ Current' = c.to => Variables' \subseteq c.sees \cup c.hidden
  <2>1. c.to \in NestedIds' /\ c.to \in Nat /\ c.to # 0
    <3>1. Stages
      BY DEF IInv
    <3>2. NestedIds = 1 .. Len(Run.nested)
      BY <3>1, ProgramFacts
    <3> QED
      BY <1>1, <3>2 DEF Calls
  <2>2. c.after => c.to <= defined /\ captured[c.to] \subseteq c.sees \cup c.hidden
    BY <1>1 DEF Calls
  <2>3. c.after => c.to <= defined'
    BY <1>1, <2>1, <2>2
  <2>4. c.after /\ Current' = c.to => Variables' \subseteq c.sees \cup c.hidden
    <3>1. SUFFICES ASSUME c.after, Current' = c.to
                   PROVE  Variables' \subseteq c.sees \cup c.hidden
      OBVIOUS
    <3>2. Current' = Current /\ Variables' = Variables
      BY <1>1, <2>1, <2>2, <3>1
    <3> QED
      BY <1>1, <3>1, <3>2 DEF Calls
  <2> QED
    BY <2>1, <2>2, <2>3, <2>4
<1> QED
  BY <1>2 DEF Calls

LEMMA LocalBound ==
  ASSUME Stages, Suites, phase = "body", NEW x \in Name, NEW t \in Type, BindLocal(x, t)
  PROVE  /\ scopes' \in Seq(ScopeType) /\ Len(scopes') = Len(scopes)
         /\ \A d \in 1 .. Len(scopes) : scopes'[d].owner = scopes[d].owner
         /\ \A d \in 1 .. Len(scopes) : DOMAIN scopes[d].vars \subseteq DOMAIN scopes'[d].vars
         /\ \A d \in 1 .. Len(scopes) : d # Len(scopes) => scopes'[d] = scopes[d]
         /\ \A d \in 1 .. Len(scopes) : \A y \in DOMAIN scopes'[d].vars :
              scopes'[d].vars[y].owner = scopes[d].owner
<1> DEFINE n == Len(scopes)
           s == scopes[n]
           b == [type |-> t, module |-> NULL, owner |-> s.owner]
           v == Bind(s.vars, x, b)
           u == [owner |-> s.owner, vars |-> v]
<1>1. /\ scopes \in Seq(ScopeType) /\ n \in Nat /\ n \in 1 .. n /\ DOMAIN scopes = 1 .. n
      /\ s.owner \in Owners /\ DOMAIN s.vars \subseteq Name /\ s.vars \in [DOMAIN s.vars -> Binding]
      /\ s = [owner |-> s.owner, vars |-> s.vars] /\ Inner = s
  BY SuiteFacts
<1>2. b \in Binding /\ b.owner = s.owner
  BY <1>1 DEF Binding
<1>3. scopes' = [scopes EXCEPT ![n].vars = Bind(@, x, b)]
  BY <1>1 DEF BindLocal
<1>4. scopes' = [scopes EXCEPT ![n] = u]
  <2> HIDE DEF b
  <2> DEFINE w == Bind(s.vars, x, b)
  <2>1. scopes' = [scopes EXCEPT ![n] = [scopes[n] EXCEPT !.vars = w]]
    BY <1>3
  <2> HIDE DEF w
  <2>2. [s EXCEPT !.vars = w] = [owner |-> s.owner, vars |-> w]
    BY <1>1
  <2> QED
    BY <2>1, <2>2 DEF w
<1>5. /\ v \in [DOMAIN s.vars \cup {x} -> Binding] /\ DOMAIN v = DOMAIN s.vars \cup {x}
      /\ \A y \in DOMAIN v : (y \in DOMAIN s.vars /\ v[y] = s.vars[y]) \/ v[y] = b
  <2> HIDE DEF b
  <2>1. CASE x \in DOMAIN s.vars
    <3>1. v = s.vars /\ DOMAIN s.vars \cup {x} = DOMAIN s.vars
      BY <2>1 DEF Bind
    <3> QED
      BY <1>1, <3>1
  <2>2. CASE x \notin DOMAIN s.vars
    <3>1. v = [y \in DOMAIN s.vars \cup {x} |-> IF y = x THEN b ELSE s.vars[y]]
      BY <2>2 DEF Bind
    <3> HIDE DEF v
    <3> QED
      BY <1>1, <1>2, <3>1
  <2> QED
    BY <2>1, <2>2
<1> HIDE DEF b, v
<1>6. u \in ScopeType
  <2>1. DOMAIN s.vars \cup {x} \in SUBSET Name
    BY <1>1
  <2>2. v \in UNION {[N -> Binding] : N \in SUBSET Name}
    BY <1>5, <2>1
  <2> QED
    BY <1>1, <2>2 DEF ScopeType
<1>7. \A y \in DOMAIN s.vars : s.vars[y].owner = s.owner
  BY <1>1 DEF Suites
<1>8. \A y \in DOMAIN v : v[y].owner = s.owner
  BY <1>2, <1>5, <1>7
<1>9. u.owner = s.owner /\ u.vars = v
  OBVIOUS
<1> HIDE DEF u
<1>10. /\ scopes' \in Seq(ScopeType) /\ Len(scopes') = n
       /\ scopes'[n] = u /\ \A d \in 1 .. n : d # n => scopes'[d] = scopes[d]
  <2>1. scopes \in Seq(ScopeType) /\ n \in 1 .. Len(scopes) /\ n = Len(scopes) /\ DOMAIN scopes = 1 .. n
    BY <1>1
  <2> HIDE DEF n, s
  <2> QED
    BY ONLY <1>4, <1>6, <2>1
<1>11. \A d \in 1 .. n : d = n \/ scopes'[d] = scopes[d]
  BY <1>10
<1>12. \A d \in 1 .. n : \A y \in DOMAIN scopes[d].vars : scopes[d].vars[y].owner = scopes[d].owner
  BY DEF Suites
<1> QED
  BY <1>5, <1>8, <1>9, <1>10, <1>11, <1>12

LEMMA BindLocalKeeps ==
  ASSUME IInv, phase = "body", phase' = "body", NEW x \in Name, NEW t \in Type, BindLocal(x, t),
         UNCHANGED <<prog, functions, index, global, declared, defined, captured, calls>>
  PROVE  IInv'
<1>1. Stages' /\ GlobalScope' /\ Walked'
  BY BodyRoot
<1>2. Stages /\ Suites /\ Captured /\ Calls
  BY DEF IInv
<1>3. /\ scopes' \in Seq(ScopeType) /\ Len(scopes') = Len(scopes)
      /\ \A d \in 1 .. Len(scopes) : scopes'[d].owner = scopes[d].owner
      /\ \A d \in 1 .. Len(scopes) : DOMAIN scopes[d].vars \subseteq DOMAIN scopes'[d].vars
      /\ \A d \in 1 .. Len(scopes) : d # Len(scopes) => scopes'[d] = scopes[d]
      /\ \A d \in 1 .. Len(scopes) : \A y \in DOMAIN scopes'[d].vars :
           scopes'[d].vars[y].owner = scopes[d].owner
  BY <1>2, LocalBound
<1>4. Len(scopes) \in Nat /\ Len(scopes) >= 1
  BY <1>2, SuiteFacts
<1>5. Suites'
  <2>1. /\ scopes[1].owner = 0
        /\ \A d \in 2 .. Len(scopes) : scopes[d].owner # NULL => d = 2 /\ scopes[d].owner = defined /\ defined >= 1
    BY <1>2 DEF Suites
  <2>2. 1 \in 1 .. Len(scopes) /\ \A d \in 2 .. Len(scopes) : d \in 1 .. Len(scopes)
    BY <1>4
  <2> QED
    BY <1>3, <1>4, <2>1, <2>2 DEF Suites
<1>6. Captured'
  <2>1. Variables \subseteq Variables'
    BY <1>3, <1>4 DEF Variables
  <2> QED
    BY <1>2, <2>1, SameProgram DEF Captured
<1>7. Calls'
  <2>1. defined \in Nat
    BY <1>2, ProgramFacts DEF Captured
  <2>2. Current = IF Len(scopes) >= 2 /\ scopes[2].owner # NULL THEN defined ELSE 0
    BY <1>2, CurrentIs
  <2>3. Current' = IF Len(scopes) >= 2 /\ scopes[2].owner # NULL THEN defined ELSE 0
    BY <1>1, <1>3, <1>4, <1>5, CurrentIsNext
  <2>4. CASE Len(scopes) >= 2
    <3>1. Variables' = Variables
      BY <1>3, <1>4, <2>4 DEF Variables
    <3> QED
      BY <1>1, <1>5, <2>1, <2>2, <2>3, <3>1, CallsKept
  <2>5. CASE ~(Len(scopes) >= 2)
    BY <1>1, <1>5, <2>1, <2>3, <2>5, CallsKept
  <2> QED
    BY <2>4, <2>5
<1> QED
  BY <1>1, <1>5, <1>6, <1>7 DEF IInv

LEMMA DeclareKeeps ==
  ASSUME IInv, NEW x \in Name, NEW t \in Type, Declare(x, t)
  PROVE  IInv'
<1>1. CASE Refuse
  BY <1>1, RefuseKeeps
<1>2. CASE InBody /\ BindLocal(x, t) /\ Step /\ UNCHANGED <<defined, captured, calls, uses>>
  BY <1>2, BindLocalKeeps DEF InBody, Step
<1> QED
  BY <1>1, <1>2 DEF Declare

\* Statements that neither bind nor capture.
LEMMA StepKeeps ==
  ASSUME IInv, InBody, Step, UNCHANGED <<scopes, defined, captured, calls>>
  PROVE  IInv'
<1>1. /\ phase = "body" /\ phase' = "body"
      /\ UNCHANGED <<prog, functions, index, global, declared>>
  BY DEF InBody, Step
<1>2. Stages' /\ GlobalScope' /\ Walked'
  BY <1>1, BodyRoot
<1>3. Suites' /\ Captured' /\ Calls'
  <2>1. Variables' = Variables /\ Current' = Current /\ Run' = Run /\ NestedIds' = NestedIds
    BY <1>1, SameProgram DEF Variables, Current
  <2>2. Suites'
    BY <1>1 DEF IInv, Suites
  <2>3. Captured'
    BY <1>1, <2>1 DEF IInv, Captured
  <2>4. Calls'
    BY <1>1, <2>1 DEF IInv, Calls
  <2> QED
    BY <2>2, <2>3, <2>4
<1> QED
  BY <1>2, <1>3 DEF IInv

LEMMA AssignKeeps ==
  ASSUME IInv, NEW x \in Name, NEW t \in Type, Assign(x, t)
  PROVE  IInv'
<1>1. CASE Refuse
  BY <1>1, RefuseKeeps
<1>2. CASE InBody /\ BindLocal(x, t) /\ Step /\ UNCHANGED <<defined, captured, calls, uses>>
  BY <1>2, BindLocalKeeps DEF InBody, Step
<1>3. CASE InBody /\ Step /\ UNCHANGED <<scopes, defined, captured, calls>>
  BY <1>3, StepKeeps
<1> QED
  BY <1>1, <1>2, <1>3 DEF Assign

LEMMA ReadKeeps ==
  ASSUME IInv, NEW x \in Name, Read(x)
  PROVE  IInv'
<1>1. CASE Refuse
  BY <1>1, RefuseKeeps
<1>2. CASE InBody /\ Step /\ UNCHANGED <<scopes, defined, captured, calls>>
  BY <1>2, StepKeeps
<1>3. CASE /\ InBody /\ IsLocal(x) /\ IsCapture(Variable(x)) /\ Step /\ UNCHANGED <<scopes, defined, calls>>
           /\ captured' = [captured EXCEPT ![Current] = @ \cup {x}]
  <2>1. /\ phase = "body" /\ phase' = "body"
        /\ UNCHANGED <<prog, functions, index, global, declared>>
    BY <1>3 DEF InBody, Step
  <2>2. Stages' /\ GlobalScope' /\ Walked'
    BY <2>1, BodyRoot
  <2>3. Stages /\ Suites /\ Captured /\ Calls
    BY DEF IInv
  <2>4. x \in Variables /\ Current = defined /\ defined >= 1
    BY <1>3, <2>1, <2>3, CaptureIsVariable
  <2>5. NestedIds = 1 .. Len(Run.nested) /\ Len(Run.nested) \in Nat
    BY <2>3, ProgramFacts
  <2>6. Current \in NestedIds
    BY <2>3, <2>4, <2>5 DEF Captured
  <2>7. /\ captured' \in [NestedIds -> SUBSET Name]
        /\ captured'[Current] = captured[Current] \cup {x}
        /\ \A j \in NestedIds : j # Current => captured'[j] = captured[j]
    BY <1>3, <2>3, <2>6 DEF Captured
  <2>8. Suites'
    BY <1>3, <2>1, <2>3 DEF Suites
  <2>9. Captured'
    <3>1. Variables' = Variables /\ NestedIds' = NestedIds /\ Run' = Run
      BY <1>3, <2>1, SameProgram DEF Variables
    <3>2. \A j \in NestedIds : j > defined => j # Current
      BY <2>4, <2>5
    <3>3. \A j \in NestedIds : captured[j] \subseteq Variables
      BY <2>1, <2>3 DEF Captured
    <3> QED
      BY <1>3, <2>1, <2>3, <2>4, <2>7, <3>1, <3>2, <3>3 DEF Captured
  <2>10. Calls'
    <3>1. Variables' = Variables /\ NestedIds' = NestedIds /\ Current' = Current
      BY <1>3, <2>1, SameProgram DEF Variables, Current
    <3>2. \A c \in calls : captured'[c.to] \subseteq captured[c.to] \cup IF c.to = Current THEN {x} ELSE {}
      BY <2>3, <2>7 DEF Calls
    <3> QED
      BY <1>3, <2>1, <2>3, <2>4, <3>1, <3>2 DEF Calls
  <2> QED
    BY <2>2, <2>8, <2>9, <2>10 DEF IInv
<1> QED
  BY <1>1, <1>2, <1>3 DEF Read

LEMMA ReadQualifiedKeeps ==
  ASSUME IInv, NEW m, NEW x, ReadQualified(m, x)
  PROVE  IInv'
<1>1. CASE Refuse
  BY <1>1, RefuseKeeps
<1>2. CASE InBody /\ Step /\ UNCHANGED <<scopes, defined, captured, calls>>
  BY <1>2, StepKeeps
<1> QED
  BY <1>1, <1>2 DEF ReadQualified

LEMMA CallQualifiedKeeps ==
  ASSUME IInv, NEW m, NEW x, NEW args, CallQualified(m, x, args)
  PROVE  IInv'
<1>1. CASE Refuse
  BY <1>1, RefuseKeeps
<1>2. CASE InBody /\ Step /\ UNCHANGED <<scopes, defined, captured, calls>>
  BY <1>2, StepKeeps
<1> QED
  BY <1>1, <1>2 DEF CallQualified

\* A suite is opened inside the ones there are.
LEMMA Pushed ==
  ASSUME Stages, Suites, phase = "body", phase' = "body", NEW u \in ScopeType,
         scopes' = Append(scopes, u),
         \A y \in DOMAIN u.vars : u.vars[y].owner = u.owner,
         \/ u.owner = NULL /\ defined' = defined
         \/ Len(scopes) = 1 /\ u.owner = defined' /\ defined' >= 1
  PROVE  Suites' /\ Len(scopes') = Len(scopes) + 1 /\ scopes'[Len(scopes) + 1] = u
         /\ \A d \in 1 .. Len(scopes) : scopes'[d] = scopes[d]
<1>1. /\ scopes \in Seq(ScopeType) /\ Len(scopes) \in Nat /\ Len(scopes) >= 1
  BY SuiteFacts
<1>2. /\ scopes' \in Seq(ScopeType) /\ Len(scopes') = Len(scopes) + 1 /\ scopes'[Len(scopes) + 1] = u
      /\ \A d \in 1 .. Len(scopes) : scopes'[d] = scopes[d]
  BY <1>1
<1>3. /\ scopes[1].owner = 0
      /\ \A d \in 2 .. Len(scopes) : scopes[d].owner # NULL => d = 2 /\ scopes[d].owner = defined /\ defined >= 1
      /\ \A d \in 1 .. Len(scopes) : \A x \in DOMAIN scopes[d].vars : scopes[d].vars[x].owner = scopes[d].owner
  BY DEF Suites
<1>4. \A d \in 1 .. Len(scopes') : d \in 1 .. Len(scopes) \/ d = Len(scopes) + 1
  BY <1>1, <1>2
<1>5. 1 \in 1 .. Len(scopes) /\ Len(scopes') >= 1
  BY <1>1, <1>2
<1>6. ASSUME NEW d \in 2 .. Len(scopes'), scopes'[d].owner # NULL
      PROVE  d = 2 /\ scopes'[d].owner = defined' /\ defined' >= 1
  <2>1. CASE d = Len(scopes) + 1
    BY <1>2, <1>6, <2>1
  <2>2. CASE d \in 2 .. Len(scopes)
    <3>1. scopes'[d] = scopes[d]
      BY <1>1, <1>2, <2>2
    <3>2. Len(scopes) # 1
      BY <1>1, <2>2
    <3> QED
      BY <1>3, <1>6, <2>2, <3>1, <3>2
  <2> QED
    BY <1>1, <1>2, <2>1, <2>2
<1>7. ASSUME NEW d \in 1 .. Len(scopes'), NEW x \in DOMAIN scopes'[d].vars
      PROVE  scopes'[d].vars[x].owner = scopes'[d].owner
  BY <1>2, <1>3, <1>4, <1>7
<1> QED
  BY <1>2, <1>3, <1>5, <1>6, <1>7 DEF Suites

LEMMA BlockKeeps ==
  ASSUME IInv, InBody, Step, UNCHANGED <<defined, captured, calls>>,
         NEW u \in ScopeType, scopes' = Append(scopes, u), u.owner = NULL,
         \A y \in DOMAIN u.vars : u.vars[y].owner = NULL
  PROVE  IInv'
<1>1. /\ phase = "body" /\ phase' = "body"
      /\ UNCHANGED <<prog, functions, index, global, declared>>
  BY DEF InBody, Step
<1>2. Stages' /\ GlobalScope' /\ Walked'
  BY <1>1, BodyRoot
<1>3. Stages /\ Suites /\ Captured
  BY DEF IInv
<1>4. /\ Suites' /\ Len(scopes') = Len(scopes) + 1 /\ scopes'[Len(scopes) + 1] = u
      /\ \A d \in 1 .. Len(scopes) : scopes'[d] = scopes[d]
  BY <1>1, <1>3, Pushed
<1>5. Len(scopes) \in Nat /\ Len(scopes) >= 1
  BY <1>1, <1>3, SuiteFacts
<1>6. Variables' = Variables
  BY <1>4, <1>5 DEF Variables
<1>7. Current' = Current
  <2>1. Current = IF Len(scopes) >= 2 /\ scopes[2].owner # NULL THEN defined ELSE 0
    BY <1>1, <1>3, CurrentIs
  <2>2. Current' = IF Len(scopes') >= 2 /\ scopes'[2].owner # NULL THEN defined ELSE 0
    BY <1>1, <1>2, <1>4, CurrentIsNext
  <2>3. CASE Len(scopes) >= 2
    BY <1>4, <1>5, <2>1, <2>2, <2>3
  <2>4. CASE Len(scopes) = 1
    BY <1>4, <2>1, <2>2, <2>4
  <2>5. \A n \in Nat : n >= 1 => n >= 2 \/ n = 1
    OBVIOUS
  <2> QED
    BY <1>5, <2>3, <2>4, <2>5
<1>8. Captured'
  BY <1>1, <1>3, <1>6, SameProgram DEF Captured
<1>9. Calls'
  <2>1. defined \in Nat
    BY <1>3, ProgramFacts DEF Captured
  <2> QED
    BY <1>1, <1>2, <1>4, <1>6, <1>7, <2>1, CallsKept
<1> QED
  BY <1>2, <1>4, <1>8, <1>9 DEF IInv

LEMMA BeginBlockKeeps ==
  ASSUME IInv, BeginBlock
  PROVE  IInv'
<1> DEFINE u == [owner |-> NULL, vars |-> << >>]
<1>1. u \in ScopeType /\ u.owner = NULL /\ DOMAIN u.vars = {}
  <2>1. << >> \in [{} -> Binding] /\ DOMAIN << >> = {}
    OBVIOUS
  <2>2. << >> \in UNION {[N -> Binding] : N \in SUBSET Name}
    BY <2>1
  <2>3. NULL \in Owners
    BY DEF Owners
  <2> QED
    BY <2>1, <2>2, <2>3 DEF ScopeType
<1>2. scopes' = Append(scopes, u) /\ InBody /\ Step /\ UNCHANGED <<defined, captured, calls>>
  BY DEF BeginBlock, Push
<1> HIDE DEF u
<1> QED
  BY <1>1, <1>2, BlockKeeps

LEMMA BeginForKeeps ==
  ASSUME IInv, NEW x \in Name, BeginFor(x)
  PROVE  IInv'
<1> DEFINE b == [type |-> "int", module |-> NULL, owner |-> NULL]
           v == [y \in {x} |-> b]
           u == [owner |-> NULL, vars |-> v]
<1>1. b \in Binding /\ b.owner = NULL /\ NULL \in Owners
  BY DEF Binding, Owners, Type
<1>2. v \in [{x} -> Binding] /\ DOMAIN v = {x} /\ \A y \in DOMAIN v : v[y].owner = NULL
  BY <1>1
<1>3. scopes' = Append(scopes, u) /\ InBody /\ Step /\ UNCHANGED <<defined, captured, calls>>
  BY DEF BeginFor, Push
<1> HIDE DEF b, v
<1>4. u \in ScopeType /\ u.owner = NULL /\ u.vars = v
  <2>1. {x} \in SUBSET Name
    OBVIOUS
  <2>2. v \in UNION {[N -> Binding] : N \in SUBSET Name}
    BY <1>2, <2>1
  <2> QED
    BY <1>1, <2>2 DEF ScopeType
<1> HIDE DEF u
<1> QED
  BY <1>2, <1>3, <1>4, BlockKeeps

\* The scope of parameters.
LEMMA ParamFacts ==
  ASSUME NEW owner \in Nat, NEW params \in Parameters, NULL \notin Nat
  PROVE  /\ ParamScope(owner, params) \in ScopeType /\ ParamScope(owner, params).owner = owner
         /\ \A y \in DOMAIN ParamScope(owner, params).vars : ParamScope(owner, params).vars[y].owner = owner
<1> DEFINE N == {p.name : p \in Range(params)}
           b(y) == [type |-> (CHOOSE p \in Range(params) : p.name = y).type, module |-> NULL, owner |-> owner]
           v == [y \in N |-> b(y)]
<1>1. \A p \in Range(params) : p.name \in Name /\ p.type \in Type
  <2> HIDE DEF N, b, v
  <2>1. params \in Seq([name : Name, type : Type])
    BY DEF Parameters
  <2>2. \A i \in DOMAIN params : params[i] \in [name : Name, type : Type]
    BY <2>1, Elements
  <2>3. \A p \in Range(params) : p \in [name : Name, type : Type]
    BY <2>2 DEF Range
  <2> QED
    BY <2>3
<1>2. \A y \in N : b(y) \in Binding /\ b(y).owner = owner
  <2>1. \A y \in N : (CHOOSE p \in Range(params) : p.name = y) \in Range(params)
    OBVIOUS
  <2>2. owner \in Owners
    BY DEF Owners
  <2> QED
    BY <1>1, <2>1, <2>2 DEF Binding
<1>3. ParamScope(owner, params) = [owner |-> owner, vars |-> v]
  BY DEF ParamScope
<1>4. N \in SUBSET Name
  BY <1>1
<1> HIDE DEF N, b
<1>5. v \in [N -> Binding] /\ DOMAIN v = N /\ \A y \in DOMAIN v : v[y].owner = owner
  BY <1>2
<1> HIDE DEF v
<1>6. v \in UNION {[M -> Binding] : M \in SUBSET Name}
  BY <1>4, <1>5
<1>7. owner \in Owners
  BY DEF Owners
<1> QED
  BY <1>3, <1>5, <1>6, <1>7 DEF ScopeType

LEMMA EnterRunKeeps ==
  ASSUME IInv, EnterRun
  PROVE  IInv'
<1>1. /\ phase = "root" /\ phase' = "body" /\ index = prog.run
      /\ UNCHANGED <<prog, functions, index, global, declared, defined, captured, calls>>
      /\ scopes' = <<ParamScope(0, Run.params)>>
  BY DEF EnterRun, AtRoot
<1>2. Stages /\ GlobalScope /\ Walked /\ Captured /\ Calls
  BY DEF IInv
<1>3. Stages' /\ GlobalScope' /\ Walked'
  BY <1>1, <1>2, SameProgram DEF Stages, GlobalScope, Walked
<1>4. Run \in Function /\ NULL \notin Nat /\ NestedIds = 1 .. Len(Run.nested) /\ Len(Run.nested) \in Nat
      /\ prog.run \in Nat
  <2>1. prog.run \in 1 .. Len(prog.root) /\ Len(prog.root) \in Nat
    BY <1>2, ProgramFacts
  <2> QED
    BY <1>2, <2>1, ProgramFacts
<1> DEFINE u == ParamScope(0, Run.params)
<1>5. u \in ScopeType /\ u.owner = 0 /\ \A y \in DOMAIN u.vars : u.vars[y].owner = 0
  <2>1. Run.params \in Parameters
    BY <1>4 DEF Function
  <2> QED
    BY <1>4, <2>1, ParamFacts
<1> HIDE DEF u
<1>6. scopes' \in Seq(ScopeType) /\ Len(scopes') = 1 /\ scopes'[1] = u
  BY <1>1, <1>5 DEF u
<1>7. Suites'
  BY <1>5, <1>6 DEF Suites
<1>8. defined = 0 /\ calls = {} /\ \A j \in NestedIds : captured[j] = {}
  BY <1>1, <1>2, <1>4 DEF Captured
<1>9. Captured'
  BY <1>1, <1>2, <1>8, SameProgram DEF Captured
<1>10. Calls'
  BY <1>1, <1>8 DEF Calls
<1> QED
  BY <1>3, <1>7, <1>9, <1>10 DEF IInv

LEMMA DefineNestedKeeps ==
  ASSUME IInv, DefineNested
  PROVE  IInv'
<1>1. /\ phase = "body" /\ phase' = "body" /\ Len(scopes) = 1 /\ defined < Len(Run.nested)
      /\ defined' = defined + 1
      /\ UNCHANGED <<prog, functions, index, global, declared, captured, calls>>
      /\ scopes' = Append(scopes, ParamScope(defined + 1, Run.nested[defined + 1].params))
  BY DEF DefineNested, Push
<1>2. Stages /\ Suites /\ Captured
  BY DEF IInv
<1>3. Stages' /\ GlobalScope' /\ Walked'
  BY <1>1, BodyRoot
<1>4. /\ Run.nested \in Seq(Nested) /\ Len(Run.nested) \in Nat /\ NULL \notin Nat
      /\ NestedIds = 1 .. Len(Run.nested)
  BY <1>2, ProgramFacts
<1>5. defined \in Nat /\ defined + 1 \in 1 .. Len(Run.nested) /\ defined' \in Nat /\ defined' >= 1
      /\ defined' > defined
  BY <1>1, <1>2, <1>4 DEF Captured
<1> DEFINE u == ParamScope(defined + 1, Run.nested[defined + 1].params)
<1>6. u \in ScopeType /\ u.owner = defined' /\ \A y \in DOMAIN u.vars : u.vars[y].owner = u.owner
  <2> DEFINE k == defined + 1
             N == Run.nested
             p == N[k].params
  <2>1. N \in Seq(Nested) /\ k \in 1 .. Len(N) /\ k \in Nat /\ defined' = k /\ NULL \notin Nat
    BY <1>1, <1>4, <1>5
  <2> HIDE DEF k, N
  <2>2. N[k] \in Nested
    BY ONLY <2>1
  <2>3. p \in Parameters
    BY ONLY <2>2 DEF Nested, p
  <2> HIDE DEF p
  <2>4. /\ ParamScope(k, p) \in ScopeType /\ ParamScope(k, p).owner = k
        /\ \A y \in DOMAIN ParamScope(k, p).vars : ParamScope(k, p).vars[y].owner = k
    BY <2>1, <2>3, ParamFacts
  <2>5. u = ParamScope(k, p)
    BY DEF k, N, p
  <2> QED
    BY ONLY <2>1, <2>4, <2>5
<1>7. scopes' = Append(scopes, u)
  BY <1>1
<1> HIDE DEF u
<1>8. Suites' /\ Len(scopes') = 2 /\ scopes'[2] = u /\ scopes'[1] = scopes[1]
  BY <1>1, <1>2, <1>5, <1>6, <1>7, Pushed
<1>9. Variables' = Variables
  BY <1>8 DEF Variables
<1>10. Captured'
  <2>1. \A j \in NestedIds : j > defined' => j > defined
    BY <1>4, <1>5
  <2> QED
    BY <1>1, <1>2, <1>4, <1>5, <1>9, <2>1, SameProgram DEF Captured
<1>11. Calls'
  <2>1. Current' = defined'
    BY <1>1, <1>3, <1>4, <1>5, <1>6, <1>8, CurrentIsNext
  <2> QED
    BY <1>1, <1>3, <1>5, <1>8, <2>1, CallsKept
<1> QED
  BY <1>3, <1>8, <1>10, <1>11 DEF IInv

LEMMA EndSuiteKeeps ==
  ASSUME IInv, EndSuite
  PROVE  IInv'
<1>1. /\ phase = "body" /\ phase' = "body" /\ Len(scopes) > 1
      /\ UNCHANGED <<prog, functions, index, global, declared, defined, captured, calls>>
      /\ scopes' = Front(scopes)
  BY DEF EndSuite
<1>2. Stages /\ Suites /\ Captured
  BY DEF IInv
<1>3. Stages' /\ GlobalScope' /\ Walked'
  BY <1>1, BodyRoot
<1>4. scopes \in Seq(ScopeType) /\ Len(scopes) \in Nat
  BY <1>1, <1>2, SuiteFacts
<1>5. /\ scopes' \in Seq(ScopeType) /\ Len(scopes') = Len(scopes) - 1
      /\ \A d \in 1 .. Len(scopes) - 1 : scopes'[d] = scopes[d]
  BY <1>1, <1>4 DEF Front
<1>6. Suites'
  <2>1. /\ scopes[1].owner = 0
        /\ \A d \in 2 .. Len(scopes) : scopes[d].owner # NULL => d = 2 /\ scopes[d].owner = defined /\ defined >= 1
        /\ \A d \in 1 .. Len(scopes) : \A x \in DOMAIN scopes[d].vars : scopes[d].vars[x].owner = scopes[d].owner
    BY <1>1, <1>2 DEF Suites
  <2>2. /\ 1 \in 1 .. Len(scopes) - 1 /\ Len(scopes') >= 1
        /\ \A d \in 1 .. Len(scopes') : d \in 1 .. Len(scopes) /\ d \in 1 .. Len(scopes) - 1
        /\ \A d \in 2 .. Len(scopes') : d \in 2 .. Len(scopes) /\ d \in 1 .. Len(scopes) - 1
    BY <1>1, <1>4, <1>5
  <2>3. scopes'[1].owner = 0
    BY <1>5, <2>1, <2>2
  <2>4. \A d \in 2 .. Len(scopes') : scopes'[d].owner # NULL =>
          d = 2 /\ scopes'[d].owner = defined' /\ defined' >= 1
    <3>1. defined' = defined
      BY <1>1
    <3>2. \A d \in 2 .. Len(scopes') : scopes'[d] = scopes[d]
      BY <1>5, <2>2
    <3> QED
      BY ONLY <2>1, <2>2, <3>1, <3>2
  <2>5. \A d \in 1 .. Len(scopes') : \A x \in DOMAIN scopes'[d].vars :
          scopes'[d].vars[x].owner = scopes'[d].owner
    <3>1. \A d \in 1 .. Len(scopes') : scopes'[d] = scopes[d]
      BY <1>5, <2>2
    <3> QED
      BY ONLY <2>1, <2>2, <3>1
  <2> QED
    BY <1>5, <2>2, <2>3, <2>4, <2>5 DEF Suites
<1>7. Variables' = Variables
  BY <1>1, <1>4, <1>5 DEF Variables
<1>8. Captured'
  BY <1>1, <1>2, <1>7, SameProgram DEF Captured
<1>9. Calls'
  <2>1. Current = IF Len(scopes) >= 2 /\ scopes[2].owner # NULL THEN defined ELSE 0
    BY <1>1, <1>2, CurrentIs
  <2>2. Current' = IF Len(scopes') >= 2 /\ scopes'[2].owner # NULL THEN defined ELSE 0
    BY <1>1, <1>3, <1>6, CurrentIsNext
  <2>3. Current' = 0 \/ Current' = Current
    BY <1>1, <1>4, <1>5, <2>1, <2>2
  <2>4. defined \in Nat
    BY <1>2, ProgramFacts DEF Captured
  <2> QED
    BY <1>1, <1>3, <1>6, <1>7, <2>3, <2>4, CallsKept
<1> QED
  BY <1>3, <1>6, <1>8, <1>9 DEF IInv

LEMMA EndRunKeeps ==
  ASSUME IInv, EndRun
  PROVE  IInv'
<1>1. /\ phase = "body" /\ phase' = "root" /\ index' = index + 1
      /\ UNCHANGED <<prog, functions, global, declared, defined, captured, calls>>
  BY DEF EndRun
<1>2. Stages /\ GlobalScope /\ Walked /\ Captured /\ Calls
  BY DEF IInv
<1>3. index = prog.run /\ index \in 1 .. Len(prog.root) /\ Len(prog.root) \in Nat
      /\ DOMAIN prog.root = 1 .. Len(prog.root) /\ ~IsVariable(index)
  <2>1. Run.op = "function"
    BY <1>2, ProgramFacts DEF Function
  <2> QED
    BY <1>1, <1>2, <2>1, ProgramFacts DEF Stages, IsVariable, Run
<1>4. index' \in Nat \ {0} /\ ~(index' <= prog.run) /\ \A i \in DOMAIN prog.root : i < index' => i < index \/ i = index
  BY <1>1, <1>3
<1>5. Stages'
  BY <1>1, <1>2, <1>4, SameProgram DEF Stages
<1>6. GlobalScope' /\ Walked'
  BY <1>1, <1>2, <1>3, <1>4, SameProgram DEF GlobalScope, Walked
<1>7. Suites' /\ Captured' /\ Calls'
  BY <1>1, <1>2, <1>4, SameProgram DEF Suites, Captured, Calls
<1> QED
  BY <1>5, <1>6, <1>7 DEF IInv

-----------------------------------------------------------------------------
(***************************************************************************)
(* The registered functions.                                               *)
(***************************************************************************)
Flattened(flatten, seqs, n) ==
  flatten = [i \in 1 .. n |-> IF i = 1 THEN seqs[i] ELSE flatten[i - 1] \o seqs[i]]

\* There is a map as the recursion of FlattenSeq describes it.
LEMMA FlattenExists ==
  ASSUME NEW seqs, NEW n \in Nat
  PROVE  \E f : Flattened(f, seqs, n)
<1> DEFINE T == {i \in Nat : ~ \E f : Flattened(f, seqs, i)}
<1> SUFFICES ASSUME T # {}
             PROVE  FALSE
  OBVIOUS
<1>1. PICK i \in T : \A j \in T : i <= j
  BY Smallest
<1>2. i # 0
  <2> DEFINE g == [j \in 1 .. 0 |-> seqs[j]]
  <2>1. Flattened(g, seqs, 0)
    BY DEF Flattened
  <2> QED
    BY <2>1
<1>3. PICK f : Flattened(f, seqs, i - 1)
  BY <1>1, <1>2
<1>4. \A j \in 1 .. i - 1 : f[j] = IF j = 1 THEN seqs[j] ELSE f[j - 1] \o seqs[j]
  BY <1>3, <1>1 DEF Flattened
<1> DEFINE g == [j \in 1 .. i |-> IF j = i THEN IF i = 1 THEN seqs[i] ELSE f[i - 1] \o seqs[i] ELSE f[j]]
<1>5. \A j \in 1 .. i : g[j] = IF j = 1 THEN seqs[j] ELSE g[j - 1] \o seqs[j]
  BY <1>4, <1>2, <1>1
<1>6. Flattened(g, seqs, i)
  BY <1>5 DEF Flattened
<1> QED
  BY <1>6, <1>1

LEMMA Sequence ==
  ASSUME NEW S, NEW k \in Nat, NEW u, u = [j \in 1 .. k |-> u[j]], \A j \in 1 .. k : u[j] \in S
  PROVE  u \in Seq(S)
<1>1. u \in [1 .. k -> S]
  OBVIOUS
<1> QED
  BY <1>1

LEMMA Joined ==
  ASSUME NEW S, NEW a \in Seq(S), NEW b \in Seq(S)
  PROVE  a \o b \in Seq(S)
OBVIOUS

LEMMA FlattenIn ==
  ASSUME NEW S, NEW seqs \in Seq(Seq(S))
  PROVE  FlattenSeq(seqs) \in Seq(S)
<1> DEFINE n == Len(seqs)
           f == CHOOSE f : Flattened(f, seqs, n)
<1>1. n \in Nat /\ \A i \in 1 .. n : seqs[i] \in Seq(S)
  BY Elements
<1>2. Flattened(f, seqs, n)
  BY <1>1, FlattenExists
<1>3. FlattenSeq(seqs) = IF n = 0 THEN seqs ELSE f[n]
  BY DEF FlattenSeq, Flattened
<1> HIDE DEF f, n
<1>4. \A i \in 1 .. n : f[i] = IF i = 1 THEN seqs[i] ELSE f[i - 1] \o seqs[i]
  BY <1>2 DEF Flattened
<1> DEFINE T == {i \in 1 .. n : f[i] \notin Seq(S)}
<1>5. T = {}
  <2> SUFFICES ASSUME T # {}
               PROVE  FALSE
    OBVIOUS
  <2>1. T \in SUBSET Nat
    BY <1>1
  <2>2. PICK i \in T : \A j \in T : i <= j
    BY <2>1, Smallest
  <2>3. i \in 1 .. n /\ seqs[i] \in Seq(S)
    BY <1>1
  <2>4. i # 1 => i - 1 \in 1 .. n /\ i - 1 \notin T
    BY <1>1, <2>1, <2>2, <2>3
  <2>5. i # 1 => f[i - 1] \in Seq(S)
    BY <2>4
  <2>6. f[i] \in Seq(S)
    <3>1. f[i] = IF i = 1 THEN seqs[i] ELSE f[i - 1] \o seqs[i]
      BY <1>4, <2>3
    <3>2. i # 1 => f[i - 1] \o seqs[i] \in Seq(S)
      BY <2>3, <2>5, Joined
    <3> QED
      BY <2>3, <3>1, <3>2
  <2> QED
    BY <2>6
<1>6. CASE n = 0
  <2>1. seqs = << >>
    BY <1>6 DEF n
  <2> QED
    BY <1>3, <1>6, <2>1
<1>7. CASE n # 0
  <2>1. n \in 1 .. n
    BY <1>1, <1>7
  <2> QED
    BY <1>3, <1>5, <1>7, <2>1
<1> QED
  BY <1>6, <1>7

\* A function that is registered is a statement of the root or nested in one.
IsInfo(f, i) ==
  /\ prog.root[i] \in Function
  /\ \/ f = Info(i, 0, prog.root[i])
     \/ \E j \in DOMAIN prog.root[i].nested : f = Info(i, j, prog.root[i].nested[j])

LEMMA InfosAre ==
  ASSUME Stages, NEW i \in DOMAIN prog.root
  PROVE  Infos(i) \in Seq({f \in Range(Infos(i)) : IsInfo(f, i)})
<1> DEFINE item == prog.root[i]
           nested == [j \in DOMAIN item.nested |-> Info(i, j, item.nested[j])]
<1>1. item \in Global \cup Function
  BY ProgramFacts, Elements
<1>2. CASE item.op # "function"
  BY <1>2 DEF Infos
<1>3. CASE item.op = "function"
  <2>1. item \in Function /\ item.nested \in Seq(Nested)
    BY <1>1, <1>3 DEF Function, Global
  <2>2. Infos(i) = <<Info(i, 0, item)>> \o nested
    BY <1>3 DEF Infos
  <2>3. Len(item.nested) \in Nat /\ DOMAIN item.nested = 1 .. Len(item.nested)
    BY <2>1
  <2>4. \A j \in DOMAIN nested : IsInfo(nested[j], i)
    BY <2>1 DEF IsInfo
  <2>5. IsInfo(Info(i, 0, item), i)
    BY <2>1 DEF IsInfo
  <2> DEFINE S == {f : f \in {Info(i, 0, item)} \cup Range(nested)}
             s == Infos(i)
  <2>6. nested \in Seq(S) /\ <<Info(i, 0, item)>> \in Seq(S)
    <3> HIDE DEF item
    <3>1. \A j \in DOMAIN nested : nested[j] \in S
      BY DEF Range
    <3>2. Len(item.nested) \in Nat /\ DOMAIN nested = 1 .. Len(item.nested)
      BY <2>3
    <3> HIDE DEF nested
    <3>3. nested = [j \in 1 .. Len(item.nested) |-> nested[j]]
      BY <3>2 DEF nested
    <3> QED
      <4> DEFINE e == Info(i, 0, item)
      <4>1. e \in S
        OBVIOUS
      <4> HIDE DEF S, e
      <4>2. nested \in Seq(S)
        BY <3>1, <3>2, <3>3, Sequence
      <4>3. <<e>> \in Seq(S)
        BY <4>1
      <4> QED
        BY <4>2, <4>3 DEF e
  <2>7. \A f \in S : IsInfo(f, i)
    BY <2>4, <2>5 DEF Range
  <2> HIDE DEF S, nested, item
  <2>8. s \in Seq(S)
    BY <2>2, <2>6
  <2>9. DOMAIN s = 1 .. Len(s) /\ Len(s) \in Nat /\ \A k \in DOMAIN s : s[k] \in S
    BY <2>8, Elements
  <2>10. \A k \in DOMAIN s : s[k] \in {f \in Range(s) : IsInfo(f, i)}
    BY <2>7, <2>9 DEF Range
  <2>11. s = [k \in 1 .. Len(s) |-> s[k]]
    BY <2>8
  <2> HIDE DEF s
  <2>12. s \in Seq({f \in Range(s) : IsInfo(f, i)})
    BY <2>9, <2>10, <2>11
  <2> QED
    BY <2>12 DEF s
<1> QED
  BY <1>2, <1>3

LEMMA RegisteredAre ==
  ASSUME Stages
  PROVE  /\ Len(Registered) \in Nat /\ DOMAIN Registered = 1 .. Len(Registered)
         /\ \A f \in Range(Registered) : \E i \in DOMAIN prog.root : IsInfo(f, i)
<1> DEFINE S == UNION {{f \in Range(Infos(i)) : IsInfo(f, i)} : i \in DOMAIN prog.root}
           seqs == [i \in DOMAIN prog.root |-> Infos(i)]
           s == FlattenSeq(seqs)
<1>1. DOMAIN prog.root = 1 .. Len(prog.root) /\ Len(prog.root) \in Nat
  BY ProgramFacts
<1>2. ASSUME NEW i \in DOMAIN prog.root
      PROVE  Infos(i) \in Seq(S)
  <2>1. Infos(i) \in Seq({f \in Range(Infos(i)) : IsInfo(f, i)})
    BY InfosAre
  <2>2. {f \in Range(Infos(i)) : IsInfo(f, i)} \subseteq S
    OBVIOUS
  <2> HIDE DEF S
  <2> DEFINE R == {f \in Range(Infos(i)) : IsInfo(f, i)}
             u == Infos(i)
  <2>3. u \in Seq(R) /\ R \subseteq S
    BY <2>1, <2>2
  <2> HIDE DEF R, u
  <2>4. u \in Seq(S)
    BY ONLY <2>3
  <2> QED
    BY <2>4 DEF u
<1>3. seqs \in Seq(Seq(S))
  BY <1>1, <1>2
<1>4. s \in Seq(S)
  BY <1>3, FlattenIn
<1>5. Registered = Reverse(s)
  BY DEF Registered
<1>6. \A f \in S : \E i \in DOMAIN prog.root : IsInfo(f, i)
  OBVIOUS
<1> HIDE DEF S, s
<1>7. Len(s) \in Nat /\ Registered = [i \in 1 .. Len(s) |-> s[(Len(s) - i) + 1]]
  BY <1>4, <1>5 DEF Reverse
<1>8. \A i \in 1 .. Len(s) : (Len(s) - i) + 1 \in 1 .. Len(s)
  BY <1>7
<1>9. \A i \in 1 .. Len(s) : s[i] \in S
  BY <1>4, Elements
<1>10. \A i \in 1 .. Len(s) : Registered[i] \in S
  BY <1>7, <1>8, <1>9
<1>11. Len(Registered) = Len(s) /\ DOMAIN Registered = 1 .. Len(s)
  BY <1>7
<1> QED
  BY <1>6, <1>7, <1>10, <1>11 DEF Range

LEMMA InfoIs ==
  ASSUME Stages, NEW f \in Range(Registered)
  PROVE  /\ f.inside \in Nat /\ f.name \in Name
         /\ f.inside # 0 /\ f.id[1] = prog.run =>
              f.inside \in NestedIds /\ f.name = Run.nested[f.inside].name
<1>1. PICK i \in DOMAIN prog.root : IsInfo(f, i)
  BY RegisteredAre
<1> DEFINE item == prog.root[i]
<1>2. item \in Function /\ item.name \in Name /\ item.nested \in Seq(Nested)
  BY <1>1 DEF IsInfo, Function
<1>3. CASE f = Info(i, 0, item)
  BY <1>2, <1>3 DEF Info
<1>4. ASSUME NEW j \in DOMAIN item.nested, f = Info(i, j, item.nested[j])
      PROVE  /\ f.inside \in Nat /\ f.name \in Name
             /\ f.inside # 0 /\ f.id[1] = prog.run =>
                  f.inside \in NestedIds /\ f.name = Run.nested[f.inside].name
  <2>1. j \in Nat /\ item.nested[j] \in Nested
    BY <1>2, Elements
  <2>2. f.inside = j /\ f.id[1] = i /\ f.name = item.nested[j].name
    BY <1>4 DEF Info
  <2>3. item.nested[j].name \in Name
    BY <2>1 DEF Nested
  <2> QED
    BY <2>1, <2>2, <2>3 DEF Run, NestedIds
<1> QED
  BY <1>1, <1>3, <1>4 DEF IsInfo

-----------------------------------------------------------------------------
(***************************************************************************)
(* The loop over the registered functions.                                 *)
(***************************************************************************)
After(after, n, x, module, args) ==
  after = [k \in 0 .. n |->
            IF k = 0 THEN [best |-> {}, ambiguous |-> FALSE]
            ELSE IF Fits(functions[k], x, module, args)
            THEN Consider(after[k - 1], functions[k], args) ELSE after[k - 1]]

LEMMA AfterExists ==
  ASSUME NEW x, NEW module, NEW args, NEW n \in Nat
  PROVE  \E f : After(f, n, x, module, args)
<1> DEFINE none == [best |-> {}, ambiguous |-> FALSE]
           next(r, k) == IF Fits(functions[k], x, module, args) THEN Consider(r, functions[k], args) ELSE r
           Is(f, m) == f = [k \in 0 .. m |-> IF k = 0 THEN none ELSE next(f[k - 1], k)]
           T == {i \in Nat : ~ \E f : Is(f, i)}
<1> HIDE DEF none, next
<1>1. SUFFICES ASSUME T # {}
               PROVE  FALSE
  BY DEF After, none, next
<1>2. PICK i \in T : \A j \in T : i <= j
  BY <1>1, Smallest
<1>3. i # 0
  <2> DEFINE g == [k \in 0 .. 0 |-> none]
  <2>1. Is(g, 0)
    OBVIOUS
  <2> QED
    BY <2>1
<1>4. PICK f : Is(f, i - 1)
  BY <1>2, <1>3
<1>5. \A k \in 0 .. i - 1 : f[k] = IF k = 0 THEN none ELSE next(f[k - 1], k)
  BY <1>4, <1>2
<1> DEFINE g == [k \in 0 .. i |-> IF k = i THEN next(f[i - 1], i) ELSE f[k]]
<1>6. \A k \in 0 .. i : g[k] = IF k = 0 THEN none ELSE next(g[k - 1], k)
  BY <1>5, <1>3, <1>2
<1>7. Is(g, i)
  BY <1>6
<1> QED
  BY <1>7, <1>2

LEMMA ScoreIs ==
  ASSUME NEW f, NEW args \in Arguments
  PROVE  Score(f, args) \in Nat
<1>1. args = << >> \/ \E t \in Type : args = <<t>>
  BY DEF Arguments
<1>2. DOMAIN args \subseteq {1}
  BY <1>1
<1>3. IsFiniteSet({1})
  BY FS_Singleton
<1>4. {k \in DOMAIN args : args[k] # f.params[k]} \subseteq {1}
  BY <1>2
<1>5. IsFiniteSet({k \in DOMAIN args : args[k] # f.params[k]})
  BY <1>3, <1>4, FS_Subset
<1> QED
  BY <1>5, FS_CardinalityType DEF Score

\* What is known when n functions have been considered: r is none, or the
\* first one that converts the fewest arguments and whether it is alone.
Considered(r, n, x, module, args) ==
  \/ /\ r = [best |-> {}, ambiguous |-> FALSE]
     /\ \A k \in 1 .. n : ~Fits(functions[k], x, module, args)
  \/ \E k \in 1 .. n :
       /\ Fits(functions[k], x, module, args)
       /\ \A l \in 1 .. n : Fits(functions[l], x, module, args) =>
            Score(functions[k], args) <= Score(functions[l], args)
       /\ r = [best |-> {functions[k]},
               ambiguous |-> \E l \in 1 .. n : /\ l # k /\ Fits(functions[l], x, module, args)
                                               /\ Score(functions[l], args) = Score(functions[k], args)]

LEMMA ConsideredNext ==
  ASSUME NEW x, NEW module, NEW args \in Arguments, NEW n \in Nat \ {0}, NEW r,
         Considered(r, n - 1, x, module, args)
  PROVE  Considered(IF Fits(functions[n], x, module, args) THEN Consider(r, functions[n], args) ELSE r,
                    n, x, module, args)
<1> DEFINE F(k) == Fits(functions[k], x, module, args)
           S(k) == Score(functions[k], args)
           next == IF F(n) THEN Consider(r, functions[n], args) ELSE r
           none == [best |-> {}, ambiguous |-> FALSE]
           Tie(k, m) == \E l \in 1 .. m : l # k /\ F(l) /\ S(l) = S(k)
           Least(k, m) == F(k) /\ \A l \in 1 .. m : F(l) => S(k) <= S(l)
<1>1. \A k : S(k) \in Nat
  BY ScoreIs
<1>2. \A k \in 1 .. n : k \in 1 .. n - 1 \/ k = n
  OBVIOUS
<1>3. \A k \in 1 .. n - 1 : k \in 1 .. n /\ k # n
  OBVIOUS
<1>4. n \in 1 .. n
  OBVIOUS
<1>5. \/ r = none /\ \A k \in 1 .. n - 1 : ~F(k)
      \/ \E k \in 1 .. n - 1 : Least(k, n - 1) /\ r = [best |-> {functions[k]}, ambiguous |-> Tie(k, n - 1)]
  BY DEF Considered
<1>6. SUFFICES \/ next = none /\ \A k \in 1 .. n : ~F(k)
               \/ \E k \in 1 .. n : Least(k, n) /\ next = [best |-> {functions[k]}, ambiguous |-> Tie(k, n)]
  BY DEF Considered
<1>7. F(n) => next = IF r.best = {} \/ \A g \in r.best : S(n) < Score(g, args)
                     THEN [best |-> {functions[n]}, ambiguous |-> FALSE]
                     ELSE IF \A g \in r.best : S(n) = Score(g, args)
                          THEN [r EXCEPT !.ambiguous = TRUE] ELSE r
  BY DEF Consider
<1>8. ~F(n) => next = r
  OBVIOUS
<1> HIDE DEF next, F
<1>9. CASE r = none /\ \A k \in 1 .. n - 1 : ~F(k)
  <2>1. CASE ~F(n)
    BY <1>2, <1>8, <1>9, <2>1
  <2>2. CASE F(n)
    <3>1. r.best = {}
      BY <1>9
    <3>2. next = [best |-> {functions[n]}, ambiguous |-> FALSE]
      BY <1>7, <2>2, <3>1
    <3>3. Least(n, n)
      BY <1>1, <1>2, <1>9, <2>2
    <3>4. Tie(n, n) = FALSE
      BY <1>2, <1>9
    <3> HIDE DEF Least, Tie
    <3> QED
      BY <1>4, <3>2, <3>3, <3>4
  <2> QED
    BY <2>1, <2>2
<1>10. ASSUME NEW k \in 1 .. n - 1, Least(k, n - 1), r = [best |-> {functions[k]}, ambiguous |-> Tie(k, n - 1)]
       PROVE  \E j \in 1 .. n : Least(j, n) /\ next = [best |-> {functions[j]}, ambiguous |-> Tie(j, n)]
  <2> HIDE DEF S, none
  <2>1. CASE ~F(n)
    <3>1. Least(k, n)
      BY <1>2, <1>10, <2>1
    <3>2. Tie(k, n) = Tie(k, n - 1)
      BY <1>2, <1>3, <2>1
    <3> HIDE DEF Least, Tie
    <3> QED
      BY <1>3, <1>8, <1>10, <2>1, <3>1, <3>2
  <2>2. CASE F(n) /\ S(n) < S(k)
    <3>1. \A g \in r.best : S(n) < Score(g, args)
      BY <1>10, <2>2 DEF S
    <3>2. next = [best |-> {functions[n]}, ambiguous |-> FALSE]
      BY <1>7, <2>2, <3>1
    <3>3. Least(n, n)
      BY <1>1, <1>2, <1>10, <2>2
    <3>4. Tie(n, n) = FALSE
      BY <1>1, <1>2, <1>10, <2>2
    <3> HIDE DEF Least, Tie
    <3> QED
      BY <1>4, <3>2, <3>3, <3>4
  <2>3. CASE F(n) /\ S(n) = S(k)
    <3>1. r.best # {} /\ (\A g \in r.best : S(n) = Score(g, args)) /\ ~ \A g \in r.best : S(n) < Score(g, args)
      BY <1>1, <1>10, <2>3 DEF S
    <3>2. next = [r EXCEPT !.ambiguous = TRUE]
      BY <1>7, <2>3, <3>1
    <3>3. next = [best |-> {functions[k]}, ambiguous |-> TRUE]
      BY <1>10, <3>2
    <3>4. Least(k, n)
      BY <1>1, <1>2, <1>10, <2>3
    <3>5. Tie(k, n) = TRUE
      BY <1>3, <1>4, <2>3
    <3> HIDE DEF Least, Tie
    <3> QED
      BY <1>3, <3>3, <3>4, <3>5
  <2>4. CASE F(n) /\ S(n) > S(k)
    <3>1. r.best # {} /\ (~ \A g \in r.best : S(n) = Score(g, args)) /\ ~ \A g \in r.best : S(n) < Score(g, args)
      BY <1>1, <1>10, <2>4 DEF S
    <3>2. next = r
      BY <1>7, <2>4, <3>1
    <3>3. Least(k, n)
      BY <1>1, <1>2, <1>10, <2>4
    <3>4. Tie(k, n) = Tie(k, n - 1)
      BY <1>1, <1>2, <1>3, <2>4
    <3> HIDE DEF Least, Tie
    <3> QED
      BY <1>3, <1>10, <3>2, <3>3, <3>4
  <2>5. S(n) < S(k) \/ S(n) = S(k) \/ S(n) > S(k)
    BY <1>1
  <2> QED
    BY <2>1, <2>2, <2>3, <2>4, <2>5
<1> QED
  BY <1>5, <1>9, <1>10

\* What the loop ends with.
LEMMA ResolvedIs ==
  ASSUME Len(functions) \in Nat, NEW x, NEW module, NEW args \in Arguments
  PROVE  \E r : /\ Considered(r, Len(functions), x, module, args)
                /\ Resolved(x, module, args) =
                     IF IsPrivate(x, module) \/ r.ambiguous THEN {} ELSE r.best
<1> DEFINE n == Len(functions)
           f == CHOOSE f : After(f, n, x, module, args)
<1>1. After(f, n, x, module, args)
  BY AfterExists
<1>2. Resolved(x, module, args) = IF IsPrivate(x, module) \/ f[n].ambiguous THEN {} ELSE f[n].best
  BY DEF Resolved, After
<1> HIDE DEF f, n
<1>3. n \in Nat
  BY DEF n
<1>4. \A k \in 0 .. n :
        f[k] = IF k = 0 THEN [best |-> {}, ambiguous |-> FALSE]
               ELSE IF Fits(functions[k], x, module, args)
               THEN Consider(f[k - 1], functions[k], args) ELSE f[k - 1]
  BY <1>1 DEF After
<1> DEFINE T == {k \in 0 .. n : ~Considered(f[k], k, x, module, args)}
<1>5. T = {}
  <2> SUFFICES ASSUME T # {}
               PROVE  FALSE
    OBVIOUS
  <2>1. T \in SUBSET Nat
    BY <1>3
  <2>2. PICK k \in T : \A j \in T : k <= j
    BY <2>1, Smallest
  <2>3. k \in 0 .. n /\ ~Considered(f[k], k, x, module, args)
    BY <2>2
  <2>4. k # 0
    <3>1. 0 \in 0 .. n
      BY <1>3
    <3>2. f[0] = [best |-> {}, ambiguous |-> FALSE]
      BY <1>4, <3>1
    <3>3. Considered(f[0], 0, x, module, args)
      BY <3>2 DEF Considered
    <3> QED
      BY <2>3, <3>3
  <2>5. k \in Nat \ {0} /\ k - 1 \in 0 .. n /\ ~(k <= k - 1)
    BY <1>3, <2>3, <2>4
  <2>6. Considered(f[k - 1], k - 1, x, module, args)
    BY <2>2, <2>5
  <2>7. f[k] = IF Fits(functions[k], x, module, args)
               THEN Consider(f[k - 1], functions[k], args) ELSE f[k - 1]
    BY <1>4, <2>3, <2>4
  <2> HIDE DEF T
  <2> QED
    BY <2>3, <2>5, <2>6, <2>7, ConsideredNext
<1>6. Considered(f[n], n, x, module, args)
  BY <1>3, <1>5
<1> QED
  BY <1>2, <1>6 DEF n

\* A call is resolved to functions that fit.
LEMMA ResolvedFits ==
  ASSUME Len(functions) \in Nat, DOMAIN functions = 1 .. Len(functions),
         NEW x, NEW module, NEW args \in Arguments,
         NEW f \in Resolved(x, module, args)
  PROVE  f \in Range(functions) /\ Fits(f, x, module, args)
<1>1. PICK r : /\ Considered(r, Len(functions), x, module, args)
               /\ Resolved(x, module, args) = IF IsPrivate(x, module) \/ r.ambiguous THEN {} ELSE r.best
  BY ResolvedIs
<1>2. f \in r.best
  BY <1>1
<1> QED
  BY <1>1, <1>2 DEF Considered, Range

\* What the phases say of the registered functions.
LEMMA FunctionFacts ==
  ASSUME Stages, phase = "body"
  PROVE  /\ functions = Registered /\ Len(functions) \in Nat /\ DOMAIN functions = 1 .. Len(functions)
         /\ \A f \in Range(functions) :
              /\ f.inside \in Nat /\ f.name \in Name
              /\ f.inside # 0 /\ f.id[1] = prog.run =>
                   f.inside \in NestedIds /\ f.name = Run.nested[f.inside].name
<1>1. functions = Registered
  BY DEF Stages
<1> QED
  BY <1>1, RegisteredAre, InfoIs

\* Only nested functions of this one are called by a call that is recorded.
LEMMA ResolvedNested ==
  ASSUME Stages, phase = "body", NEW x, NEW args \in Arguments,
         NEW f \in Resolved(x, NULL, args), f.inside # 0
  PROVE  f.inside \in NestedIds
<1>1. Len(functions) \in Nat /\ DOMAIN functions = 1 .. Len(functions)
  BY FunctionFacts
<1>2. f \in Range(functions) /\ Fits(f, x, NULL, args)
  BY <1>1, ResolvedFits
<1>3. f.id[1] = prog.run
  BY <1>2 DEF Fits, IsCandidate, Lexical
<1> QED
  BY <1>2, <1>3, FunctionFacts

LEMMA CallKeeps ==
  ASSUME IInv, NEW x, NEW args \in Arguments, Call(x, args)
  PROVE  IInv'
<1>1. CASE Refuse
  BY <1>1, RefuseKeeps
<1>2. CASE /\ InBody /\ Step /\ UNCHANGED <<scopes, defined, captured>>
           /\ calls' = calls \cup {PassedAt(f.inside) : f \in {f \in Resolved(x, NULL, args) : f.inside # 0}}
  <2>1. /\ phase = "body" /\ phase' = "body"
        /\ UNCHANGED <<prog, functions, index, global, declared>>
    BY <1>2 DEF InBody, Step
  <2>2. Stages' /\ GlobalScope' /\ Walked'
    BY <2>1, BodyRoot
  <2>3. Stages /\ Suites /\ Captured /\ Calls
    BY DEF IInv
  <2>4. /\ Variables' = Variables /\ Current' = Current /\ NestedIds' = NestedIds /\ Run' = Run
    BY <1>2, <2>1, SameProgram DEF Variables, Current
  <2>5. Suites' /\ Captured'
    <3>1. Suites'
      BY <1>2, <2>1, <2>3 DEF Suites
    <3>2. Captured'
      BY <1>2, <2>1, <2>3, <2>4 DEF Captured
    <3> QED
      BY <3>1, <3>2
  <2>6. ASSUME NEW j
        PROVE  /\ PassedAt(j).to = j /\ PassedAt(j).after = (j <= defined)
               /\ Variables \subseteq PassedAt(j).sees \cup PassedAt(j).hidden
    <3>1. ASSUME NEW y \in Variables
          PROVE  Levels(y) = {1} \/ (y \in Name /\ \E d \in Levels(y) : d > 1)
      <4>1. Len(scopes) \in Nat /\ Len(scopes) >= 1 /\ DOMAIN scopes = 1 .. Len(scopes)
            /\ DOMAIN scopes[1].vars \subseteq Name
        BY <2>1, <2>3, SuiteFacts
      <4>2. 1 \in Levels(y) /\ Levels(y) \subseteq 1 .. Len(scopes) /\ y \in Name
        BY <3>1, <4>1 DEF Variables, Levels
      <4>3. \A d \in 1 .. Len(scopes) : d = 1 \/ d > 1
        BY <4>1
      <4>4. Levels(y) # {1} => \E d \in Levels(y) : d # 1
        BY <4>2
      <4>5. \A d \in Levels(y) : d = 1 \/ d > 1
        BY <4>2, <4>3
      <4> QED
        BY <4>2, <4>4, <4>5
    <3> QED
      BY <3>1 DEF PassedAt, Variables
  <2>7. ASSUME NEW c \in calls'
        PROVE  /\ c.to \in NestedIds
               /\ c.after => c.to <= defined /\ captured[c.to] \subseteq c.sees \cup c.hidden
               /\ c.after /\ Current = c.to => Variables \subseteq c.sees \cup c.hidden
    <3>1. CASE c \in calls
      BY <2>1, <2>3, <3>1 DEF Calls
    <3>2. ASSUME NEW f \in Resolved(x, NULL, args), f.inside # 0, c = PassedAt(f.inside)
          PROVE  /\ c.to \in NestedIds
                 /\ c.after => c.to <= defined /\ captured[c.to] \subseteq c.sees \cup c.hidden
                 /\ c.after /\ Current = c.to => Variables \subseteq c.sees \cup c.hidden
      <4>1. f.inside \in NestedIds
        BY <2>1, <2>3, <3>2, ResolvedNested
      <4>2. captured[f.inside] \subseteq Variables
        BY <2>1, <2>3, <4>1 DEF Captured
      <4>3. c.to = f.inside /\ c.after = (f.inside <= defined) /\ Variables \subseteq c.sees \cup c.hidden
        BY <2>6, <3>2
      <4> QED
        BY <4>1, <4>2, <4>3
    <3> QED
      BY <1>2, <3>1, <3>2
  <2>8. Calls'
    BY <1>2, <2>4, <2>7 DEF Calls
  <2> QED
    BY <2>2, <2>5, <2>8 DEF IInv
<1> QED
  BY <1>1, <1>2 DEF Call

-----------------------------------------------------------------------------
(***************************************************************************)
(* IInv is inductive.                                                      *)
(***************************************************************************)
LEMMA Starts ==
  ASSUME Init
  PROVE  IInv
<1>1. Stages
  BY DEF Init, Stages
<1>2. GlobalScope
  BY DEF Init, GlobalScope
<1>3. Walked
  <2>1. \A i \in DOMAIN prog.root : ~(i < 1)
    BY <1>1, ProgramFacts
  <2> QED
    BY <2>1 DEF Init, Walked
<1>4. Captured
  <2>1. Len(Run.nested) \in Nat
    BY <1>1, ProgramFacts
  <2> QED
    BY <2>1 DEF Init, Captured
<1>5. Suites /\ Calls
  BY DEF Init, Suites, Calls
<1> QED
  BY <1>1, <1>2, <1>3, <1>4, <1>5 DEF IInv

LEMMA StatementKeeps ==
  ASSUME IInv, Statement
  PROVE  IInv'
<1>1. prog.words \subseteq Name
  BY ProgramFacts DEF IInv
<1>2. ASSUME NEW x \in prog.words, NEW t \in Type, Declare(x, t) \/ Assign(x, t)
      PROVE  IInv'
  BY <1>1, <1>2, DeclareKeeps, AssignKeeps
<1>3. ASSUME NEW x \in prog.words, Read(x) \/ BeginFor(x)
      PROVE  IInv'
  BY <1>1, <1>3, ReadKeeps, BeginForKeeps
<1>4. ASSUME NEW x \in prog.words, NEW m \in Module, ReadQualified(m, x)
      PROVE  IInv'
  BY <1>4, ReadQualifiedKeeps
<1>5. ASSUME NEW x, NEW args \in Arguments, Call(x, args)
      PROVE  IInv'
  BY <1>5, CallKeeps
<1>6. ASSUME NEW x, NEW args \in Arguments, NEW m \in Module, CallQualified(m, x, args)
      PROVE  IInv'
  BY <1>6, CallQualifiedKeeps
<1> QED
  BY <1>2, <1>3, <1>4, <1>5, <1>6, BeginBlockKeeps DEF Statement

LEMMA Keeps ==
  ASSUME IInv, [Next]_vars
  PROVE  IInv'
<1>1. CASE UNCHANGED vars
  <2>1. Stages' /\ GlobalScope' /\ Walked'
    BY <1>1, RootKept DEF IInv, vars
  <2>2. /\ Variables' = Variables /\ Current' = Current /\ NestedIds' = NestedIds /\ Run' = Run
    BY <1>1, SameProgram DEF Variables, Current, vars
  <2>3. Suites'
    BY <1>1 DEF IInv, Suites, vars
  <2>4. Captured'
    BY <1>1, <2>2 DEF IInv, Captured, vars
  <2>5. Calls'
    BY <1>1, <2>2 DEF IInv, Calls, vars
  <2> QED
    BY <2>1, <2>3, <2>4, <2>5 DEF IInv
<1>2. CASE Collect \/ CheckTyped \/ CheckInferred \/ CheckOther \/ EnterRun \/ Finish
  BY <1>2, CollectKeeps, CheckTypedKeeps, CheckInferredKeeps, CheckOtherKeeps, EnterRunKeeps, FinishKeeps
<1>3. CASE Statement
  BY <1>3, StatementKeeps
<1>4. CASE DefineNested \/ EndSuite \/ EndRun
  BY <1>4, DefineNestedKeeps, EndSuiteKeeps, EndRunKeeps
<1> QED
  BY <1>1, <1>2, <1>3, <1>4 DEF Next

-----------------------------------------------------------------------------
(***************************************************************************)
(* The theorems.                                                           *)
(***************************************************************************)
\* The bindings, declarations, suites and captures fit together in every state
\* of every program, however long the body is.
THEOREM Inductive == Spec => []IInv
<1>1. Init => IInv
  BY Starts
<1>2. IInv /\ [Next]_vars => IInv'
  BY Keeps
<1> QED
  BY <1>1, <1>2, PTL DEF Spec

\* Every call that follows the definition of a nested function can pass what
\* this function captures, before the call or later, until its suite ends.
THEOREM Passed == Spec => []CapturesPassed
<1>1. IInv => CapturesPassed
  BY DEF IInv, Calls, CapturesPassed
<1> QED
  BY <1>1, Inductive, PTL

\* Uses name a module and a variable.
Places == \A u \in uses : \E m, x : u.at = <<m, x>>

LEMMA PlacesKept ==
  ASSUME Places, [Next]_vars
  PROVE  Places'
<1>1. CASE UNCHANGED uses
  BY <1>1 DEF Places
<1>2. ASSUME NEW new, uses' = uses \cup new, \A u \in new : \E m, x : u.at = <<m, x>>
      PROVE  Places'
  BY <1>2 DEF Places
<1>3. CASE Collect \/ CheckTyped \/ CheckInferred \/ CheckOther \/ EnterRun \/ Finish
  BY <1>1, <1>3 DEF Collect, CheckTyped, CheckInferred, CheckOther, EnterRun, Finish, Unchanged
<1>4. CASE DefineNested \/ EndSuite \/ EndRun
  BY <1>1, <1>4 DEF DefineNested, EndSuite, EndRun
<1>5. CASE Refuse
  BY <1>1, <1>5 DEF Refuse
<1>6. ASSUME NEW x, NEW t, Declare(x, t)
      PROVE  Places'
  BY <1>1, <1>5, <1>6 DEF Declare
<1>7. ASSUME NEW x, NEW t, Assign(x, t)
      PROVE  Places'
  <2> DEFINE b == Variable(x)
             new == {[name |-> x, at |-> <<b.module, x>>, bare |-> TRUE]}
  <2>1. UNCHANGED uses \/ uses' = uses \cup new \/ Refuse
    BY <1>7 DEF Assign
  <2>2. \A u \in new : u.at = <<b.module, x>>
    OBVIOUS
  <2> QED
    BY <1>1, <1>2, <1>5, <2>1, <2>2
<1>8. ASSUME NEW x, Read(x)
      PROVE  Places'
  <2> DEFINE new == {[name |-> x, at |-> t, bare |-> TRUE] : t \in Target(x)}
  <2>1. UNCHANGED uses \/ uses' = uses \cup new \/ Refuse
    BY <1>8 DEF Read
  <2>2. \A t \in Target(x) : \E m, y : t = <<m, y>>
    BY DEF Target, VisibleGlobal
  <2>3. \A u \in new : \E t \in Target(x) : u.at = t
    OBVIOUS
  <2> HIDE DEF new
  <2>4. \A u \in new : \E m, y : u.at = <<m, y>>
    BY <2>2, <2>3
  <2> QED
    BY <1>1, <1>2, <1>5, <2>1, <2>4
<1>9. ASSUME NEW m, NEW x, ReadQualified(m, x)
      PROVE  Places'
  <2> DEFINE new == {[name |-> x, at |-> <<b.module, x>>, bare |-> FALSE] : b \in WholeImport(m)}
  <2>1. uses' = uses \cup new \/ Refuse
    BY <1>9 DEF ReadQualified
  <2>2. \A u \in new : \E b \in WholeImport(m) : u.at = <<b.module, x>>
    OBVIOUS
  <2> HIDE DEF new
  <2> QED
    BY <1>2, <1>5, <2>1, <2>2
<1>10. ASSUME NEW x, NEW args, Call(x, args)
       PROVE  Places'
  BY <1>1, <1>5, <1>10 DEF Call
<1>11. ASSUME NEW m, NEW x, NEW args, CallQualified(m, x, args)
       PROVE  Places'
  BY <1>1, <1>5, <1>11 DEF CallQualified
<1>12. CASE BeginBlock
  BY <1>1, <1>12 DEF BeginBlock
<1>13. ASSUME NEW x, BeginFor(x)
       PROVE  Places'
  BY <1>1, <1>13 DEF BeginFor
<1>14. CASE Statement
  BY <1>14, <1>6, <1>7, <1>8, <1>9, <1>10, <1>11, <1>12, <1>13 DEF Statement
<1>15. CASE UNCHANGED vars
  BY <1>1, <1>15 DEF vars
<1> QED
  BY <1>3, <1>4, <1>14, <1>15 DEF Next

\* A name that both the global scope binds and an import rule finds is that of
\* one variable, but for homonyms.
LEMMA NotHomonym ==
  ASSUME IInv, NEW m \in Module, NEW x \in DOMAIN global, ~Homonym(m, x)
  PROVE  global[x].module = m
<1> DEFINE n == global[x].module
<1>1. Stages /\ Emitted(n, x)
  BY DEF IInv, GlobalScope
<1>2. PICK i \in DOMAIN prog.root : IsVariable(i) /\ prog.root[i].module = n
  BY <1>1 DEF Emitted
<1>3. prog.root[i] \in Global
  <2>1. prog.root[i] \in Global \cup Function
    BY <1>1, ProgramFacts, Elements
  <2> QED
    BY <1>2, <2>1 DEF IsVariable, Function
<1>4. n \in Module
  BY <1>2, <1>3 DEF Global
<1> QED
  BY <1>1, <1>4 DEF Homonym

LEMMA MeaningIsTarget ==
  ASSUME IInv, phase = "body", NEW x, NEW g \in Meaning(x), ~Homonym(g[1], g[2]), g[2] \notin Private
  PROVE  Target(x) = {g}
<1>1. /\ Stages /\ Here \in Module /\ ~DuplicateImport
      /\ prog.imports[Here] \in Seq(Import)
      /\ \A b \in Range(prog.imports[Here]), v \in Range(prog.globals) :
           v.module = b.module /\ v.name = b.symbol => b.local = b.symbol
  BY ProgramFacts DEF IInv, Stages
<1>2. \A m, y : IsGlobal(m, y) <=> FindGlobal(m, y) # {}
  BY DEF IsGlobal, FindGlobal
<1>3. ASSUME NEW b \in FromImport(x)
      PROVE  b \in Range(prog.imports[Here]) /\ b.local = x /\ b \in Import
  <2>1. b \in Range(prog.imports[Here]) /\ b.local = x
    BY <1>3 DEF FromImport
  <2> QED
    BY <1>1, <2>1, Elements DEF Range
<1>4. CASE IsGlobal(Here, x)
  <2>1. g = <<Here, x>> /\ g[1] = Here /\ g[2] = x
    BY <1>4 DEF Meaning
  <2>2. CASE x \in DOMAIN global
    BY <1>1, <2>1, <2>2, NotHomonym DEF Target
  <2>3. CASE x \notin DOMAIN global
    BY <1>2, <1>4, <2>1, <2>3 DEF Target, VisibleGlobal
  <2> QED
    BY <2>2, <2>3
<1>5. CASE ~IsGlobal(Here, x)
  <2>1. PICK b \in FromImport(x) : IsGlobal(b.module, b.symbol) /\ g = <<b.module, b.symbol>>
    BY <1>5 DEF Meaning
  <2>2. b.symbol = x /\ b.module \in Module
    <3>1. PICK v \in Range(prog.globals) : v.module = b.module /\ v.name = b.symbol
      BY <2>1 DEF IsGlobal
    <3> QED
      BY <1>1, <1>3, <3>1 DEF Import
  <2>3. g = <<b.module, x>> /\ g[1] = b.module /\ g[2] = x
    BY <2>1, <2>2
  <2>4. CASE x \in DOMAIN global
    BY <2>2, <2>3, <2>4, NotHomonym DEF Target
  <2>5. CASE x \notin DOMAIN global
    <3>1. \A c \in FromImport(x) : c = b
      <4>1. SUFFICES ASSUME NEW c \in FromImport(x)
                     PROVE  c = b
        OBVIOUS
      <4>2. PICK i \in DOMAIN prog.imports[Here], j \in DOMAIN prog.imports[Here] :
              prog.imports[Here][i] = b /\ prog.imports[Here][j] = c
        BY <1>3, <4>1 DEF Range
      <4>3. prog.imports[Here][i].local = prog.imports[Here][j].local
        BY <1>3, <4>1, <4>2
      <4>4. i = j
        BY <1>1, <4>3 DEF DuplicateImport, Twice
      <4> QED
        BY <4>2, <4>4
    <3>2. Target(x) = {<<c.module, c.symbol>> : c \in {c \in FromImport(x) :
                         c.symbol \notin Private /\ FindGlobal(c.module, c.symbol) # {}}}
      BY <1>2, <1>5, <2>5 DEF Target, VisibleGlobal
    <3>3. b.symbol \notin Private /\ FindGlobal(b.module, b.symbol) # {}
      BY <1>2, <2>1, <2>2, <2>3
    <3>4. {c \in FromImport(x) : c.symbol \notin Private /\ FindGlobal(c.module, c.symbol) # {}} = {b}
      BY <3>1, <3>3
    <3> QED
      BY <2>1, <3>2, <3>4
  <2> QED
    BY <2>4, <2>5
<1> QED
  BY <1>4, <1>5

\* A bare name finds the global that the import rules mean, wherever the
\* function stands in the root, and every use of an emitted global is of one
\* that C declares, unless two emitted modules have a global of the name.
THEOREM Globals == Spec => []GlobalMeaning
<1>1. IInv /\ Places => GlobalMeaning
  <2>1. ASSUME IInv, Places, phase = "done", NEW u \in uses,
               Emitted(u.at[1], u.at[2]), ~Homonym(u.at[1], u.at[2])
        PROVE  u.at \in declared
    <3>1. PICK m, x : u.at = <<m, x>>
      BY <2>1 DEF Places
    <3>2. PICK i \in DOMAIN prog.root : IsVariable(i) /\ prog.root[i].module = m /\ prog.root[i].name = x
      BY <2>1, <3>1 DEF Emitted
    <3>3. i < index
      <4>1. /\ DOMAIN prog.root = 1 .. Len(prog.root) /\ Len(prog.root) \in Nat
            /\ index \in Nat /\ index > Len(prog.root)
        BY <2>1, ProgramFacts DEF IInv, Stages
      <4> QED
        BY <4>1
    <3> QED
      BY <2>1, <3>1, <3>2, <3>3 DEF IInv, Walked
  <2> QED
    BY <2>1, MeaningIsTarget DEF GlobalMeaning
<1>2. Init => Places
  BY DEF Init, Places
<1>3. Places /\ [Next]_vars => Places'
  BY PlacesKept
<1> QED
  BY <1>1, <1>2, <1>3, Inductive, PTL DEF Spec

-----------------------------------------------------------------------------
(***************************************************************************)
(* The calls.                                                              *)
(***************************************************************************)
\* The functions the loop considers are those the call should choose from.
LEMMA CandidateIsScope ==
  ASSUME IInv, phase = "body", NEW x, NEW module, ~Misnamed(x, module), NEW f \in Range(functions)
  PROVE  IsCandidate(f, x, module, Imported(x, module), LexicalOnly(x, module)) <=> f \in Scope(x, module)
<1>1. CASE module # NULL
  BY <1>1 DEF IsCandidate, Imported, Scope
<1>2. CASE module = NULL
  <2> DEFINE Mine(h) == h.inside # 0 /\ h.id[1] = prog.run /\ h.name = x
             nested == {h \in Range(functions) : Mine(h)}
             From(h) == \E b \in FromImport(x) : h.module = b.module /\ h.name = b.symbol
             Named(h) == h.name = x \/ \E b \in FromImport(x) : h.name = b.symbol
  <2>1. \A h \in Range(functions) : Mine(h) => Lexical(h)
    <3>1. SUFFICES ASSUME NEW h \in Range(functions), Mine(h)
                   PROVE  Lexical(h)
      OBVIOUS
    <3>2. h.inside \in NestedIds /\ Run.nested[h.inside].name = x
      BY <3>1, FunctionFacts DEF IInv
    <3>3. Current = 0 \/ Current = h.inside
      BY <1>2, <3>2 DEF Misnamed
    <3> QED
      BY <3>1, <3>3 DEF Lexical
  <2>2. \A h \in Range(functions) : h.name = x /\ Lexical(h) => Mine(h)
    BY DEF Lexical
  <2>3. LexicalOnly(x, module) <=> nested # {}
    BY <1>2, <2>1, <2>2 DEF LexicalOnly
  <2>4. \A b \in FromImport(x), h \in Range(functions) :
          h.name = b.symbol /\ (h.module = Here \/ h.inside # 0) => h.name = x
    BY <1>2 DEF Misnamed
  <2>5. IsCandidate(f, x, module, Imported(x, module), LexicalOnly(x, module)) <=>
          /\ Named(f)
          /\ \/ f.inside # 0 /\ Lexical(f)
             \/ f.inside = 0 /\ nested = {} /\ (f.module = Here \/ From(f))
    BY <1>2, <2>3 DEF IsCandidate, Imported
  <2>6. f \in Scope(x, module) <=>
          IF nested # {} THEN Mine(f)
          ELSE f.inside = 0 /\ ((f.module = Here /\ f.name = x) \/ From(f))
    BY <1>2 DEF Scope
  <2>7. From(f) => Named(f)
    OBVIOUS
  <2>8. Named(f) /\ (f.module = Here \/ f.inside # 0) => f.name = x
    BY <2>4
  <2>9. Mine(f) => nested # {} /\ f.inside # 0 /\ f.name = x
    OBVIOUS
  <2>10. f.name = x => Named(f)
    OBVIOUS
  <2> HIDE DEF nested, From, Named, Mine
  <2> QED
    BY <2>1, <2>2, <2>5, <2>6, <2>7, <2>8, <2>9, <2>10
<1> QED
  BY <1>1, <1>2

\* No function is registered twice.
LEMMA FunctionsApart ==
  ASSUME IInv, phase = "body", NEW i \in DOMAIN functions, NEW j \in DOMAIN functions,
         functions[i] = functions[j]
  PROVE  i = j
<1>1. functions = Registered /\ ~DuplicateFunction
  BY DEF IInv, Stages
<1>2. SUFFICES ASSUME i # j
               PROVE  DuplicateFunction
  BY <1>1
<1> QED
  BY <1>1, <1>2 DEF DuplicateFunction, Twice

LEMMA FunctionsFinite ==
  ASSUME IInv, phase = "body"
  PROVE  IsFiniteSet(Range(functions))
<1>1. Len(functions) \in Nat /\ DOMAIN functions = 1 .. Len(functions) /\ functions = Registered
  BY FunctionFacts DEF IInv
<1>2. functions = [i \in 1 .. Len(functions) |-> functions[i]]
  BY <1>1 DEF Registered, Reverse
<1>3. functions \in Surjection(1 .. Len(functions), Range(functions))
  BY <1>1, <1>2 DEF Surjection, Range
<1>4. IsFiniteSet(1 .. Len(functions))
  BY <1>1, FS_Interval
<1> QED
  BY <1>3, <1>4, FS_Surjection

LEMMA ResolvedCheapest ==
  ASSUME IInv, phase = "body", NEW x, NEW module, NEW args \in Arguments,
         ~Misnamed(x, module), ~IsPrivate(x, module)
  PROVE  Resolved(x, module, args) = Cheapest(x, module, args)
<1> DEFINE n == Len(functions)
           fits == {f \in Scope(x, module) : Compatible(f, args)}
           least == {f \in fits : \A g \in fits : Score(f, args) <= Score(g, args)}
<1>1. n \in Nat /\ DOMAIN functions = 1 .. n
  BY FunctionFacts DEF IInv
<1>2. PICK r : /\ Considered(r, n, x, module, args)
               /\ Resolved(x, module, args) = IF r.ambiguous THEN {} ELSE r.best
  BY <1>1, ResolvedIs
<1>3. Cheapest(x, module, args) = IF Cardinality(least) = 1 THEN least ELSE {}
  BY DEF Cheapest
<1>4. \A f \in Range(functions) : Fits(f, x, module, args) <=> f \in fits
  BY CandidateIsScope DEF Fits
<1>5. Scope(x, module) \subseteq Range(functions)
  BY DEF Scope
<1>6. fits \subseteq Range(functions)
  BY <1>5
<1>7. IsFiniteSet(least)
  <2>1. least \subseteq Range(functions)
    BY <1>6
  <2> QED
    BY <2>1, FunctionsFinite, FS_Subset
<1>8. \A f : Score(f, args) \in Nat
  BY ScoreIs
<1> HIDE DEF fits, n
<1>9. \A k \in 1 .. n : Fits(functions[k], x, module, args) <=> functions[k] \in fits
  BY <1>1, <1>4 DEF Range
<1>10. \A f \in fits : \E k \in 1 .. n : f = functions[k]
  BY <1>1, <1>6 DEF Range
<1>11. \A k, l \in 1 .. n : functions[k] = functions[l] => k = l
  BY <1>1, FunctionsApart
<1>12. CASE /\ r = [best |-> {}, ambiguous |-> FALSE]
            /\ \A k \in 1 .. n : ~Fits(functions[k], x, module, args)
  <2>1. fits = {}
    BY <1>9, <1>10, <1>12
  <2>2. least = {}
    BY <2>1
  <2> QED
    BY <1>2, <1>3, <1>12, <2>2
<1>13. ASSUME NEW k \in 1 .. n,
              Fits(functions[k], x, module, args),
              \A l \in 1 .. n : Fits(functions[l], x, module, args) =>
                Score(functions[k], args) <= Score(functions[l], args),
              r = [best |-> {functions[k]},
                   ambiguous |-> \E l \in 1 .. n : /\ l # k /\ Fits(functions[l], x, module, args)
                                                   /\ Score(functions[l], args) = Score(functions[k], args)]
       PROVE  Resolved(x, module, args) = Cheapest(x, module, args)
  <2> DEFINE Tie == \E l \in 1 .. n : /\ l # k /\ Fits(functions[l], x, module, args)
                                      /\ Score(functions[l], args) = Score(functions[k], args)
  <2>1. functions[k] \in least
    BY <1>9, <1>10, <1>13
  <2>2. Resolved(x, module, args) = IF Tie THEN {} ELSE {functions[k]}
    BY <1>2, <1>13
  <2>3. CASE Tie
    <3>1. PICK l \in 1 .. n : /\ l # k /\ Fits(functions[l], x, module, args)
                              /\ Score(functions[l], args) = Score(functions[k], args)
      BY <2>3
    <3>2. functions[l] \in least
      BY <1>9, <1>10, <1>13, <3>1
    <3>3. functions[l] # functions[k]
      BY <1>11, <3>1
    <3> HIDE DEF least
    <3>4. ~ \E g : least = {g}
      BY <2>1, <3>2, <3>3
    <3>5. Cardinality(least) # 1
      BY <1>7, <3>4, FS_Singleton
    <3> QED
      BY <1>3, <2>2, <2>3, <3>5
  <2>4. CASE ~Tie
    <3>1. ASSUME NEW g \in least
          PROVE  g = functions[k]
      <4>1. PICK l \in 1 .. n : g = functions[l]
        BY <1>10
      <4>2. Fits(g, x, module, args) /\ Score(g, args) <= Score(functions[k], args)
        BY <1>9, <1>13, <4>1
      <4>3. Score(g, args) = Score(functions[k], args)
        BY <1>8, <1>13, <4>1, <4>2
      <4> QED
        BY <2>4, <4>1, <4>2, <4>3
    <3> HIDE DEF least
    <3>2. least = {functions[k]}
      BY <2>1, <3>1
    <3>3. Cardinality(least) = 1
      BY <3>2, FS_Singleton
    <3> QED
      BY <1>3, <2>2, <2>4, <3>2, <3>3
  <2> QED
    BY <2>3, <2>4
<1> QED
  BY <1>2, <1>12, <1>13 DEF Considered

\* A call is resolved to the one cheapest function that its name can mean, in
\* whatever order the functions were registered, and refused when there is
\* none, a tie or a private name; but for the calls that Misnamed describes.
THEOREM Meant == Spec => []CallMeaning
<1>1. IInv => CallMeaning
  <2>1. SUFFICES ASSUME IInv, phase = "body", NEW x, NEW module \in Module \cup {NULL},
                        NEW args \in Arguments, ~Misnamed(x, module)
                 PROVE  LET private == \/ module # NULL /\ x \in Private
                                       \/ module = NULL /\ \E b \in FromImport(x) : b.symbol \in Private
                        IN Resolved(x, module, args) = IF private THEN {} ELSE Cheapest(x, module, args)
    BY DEF CallMeaning
  <2> DEFINE private == \/ module # NULL /\ x \in Private
                        \/ module = NULL /\ \E b \in FromImport(x) : b.symbol \in Private
  <2>2. private <=> IsPrivate(x, module)
    BY DEF IsPrivate, Imported
  <2>3. CASE IsPrivate(x, module)
    <3>1. Resolved(x, module, args) = {}
      BY <2>3 DEF Resolved
    <3> QED
      BY <2>2, <2>3, <3>1
  <2>4. CASE ~IsPrivate(x, module)
    BY <2>1, <2>2, <2>4, ResolvedCheapest
  <2> QED
    BY <2>3, <2>4
<1> QED
  BY <1>1, Inductive, PTL
=============================================================================
