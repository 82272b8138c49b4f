----------------------------- MODULE Expressions -----------------------------
(***************************************************************************)
(* From a statement of the language to C: operands that need a name or a   *)
(* release are evaluated by statements of their own before the C statement *)
(* that uses them (its prelude), everything else becomes part of one C     *)
(* expression, whose operands C evaluates in any order.                    *)
(*                                                                         *)
(* Emission is a function from trees to C code; a behaviour then executes  *)
(* the code of one statement, one C operation at a time, over a heap with  *)
(* reference counts.  Reference: the runs of the statement itself, whose   *)
(* operands are evaluated from left to right, each once, and only if used. *)
(*                                                                         *)
(* A tree is [op, type, kids, takes, resets]: takes are the parameter      *)
(* types of a callee, resets says that its body replaces the global g.     *)
(* Types: int (and every plain type), str, ref (a list of plain values),   *)
(* nest (a list of refs), dict (of refs), box (a class or tuple with a ref *)
(* in it, held by value) and opt (an optional ref).                        *)
(***************************************************************************)
EXTENDS Integers, Sequences, FiniteSets, SequencesExt, TLC

CONSTANTS
  Statements,  (* the statements to translate                              *)
  MaxRounds    (* rounds of a while loop; its body breaks in the last one  *)

ASSUME RoundsAssumption == MaxRounds \in 1 .. 3

VARIABLES
  stmt,     (* the statement                                               *)
  code,     (* C statements still to execute                               *)
  heap,     (* objects: reference count (0: freed) and contents            *)
  env,      (* values of variables and temporaries, by name                *)
  done,     (* history: calls and mutations executed, with their outcome   *)
  dangling  (* history: a freed object has been used                       *)

vars == <<stmt, code, heap, env, done, dangling>>

-----------------------------------------------------------------------------
(***************************************************************************)
(* Types and ownership.                                                    *)
(***************************************************************************)
IsRef(t)   == t \in {"ref", "nest", "dict"}
Managed(t) == IsRef(t) \/ t \in {"box", "opt"}

Functions == {"call", "module call", "class method", "super"}
Calls     == Functions \cup {"new", "init", "module init"}
Methods   == {"copy", "append", "pop", "get"}
Literals  == {"list", "dict", "tuple"}

\* Variant with a fault: an index is taken for borrowed.
OwnedButIndex(e) == e.op \in Calls \cup Methods \cup Literals \cup {"match"}

\* Kinds of nodes whose value comes with a reference of its own.
Owned(e) ==
  \/ e.op \in Calls \cup Methods \cup Literals \cup {"match"}
  \/ e.op = "index" /\ e.kids[1].type = "nest"

Borrowed(e) == e.op = "var"

\* What a statement can be seen to do: calls of functions and mutations.
Effect(op) == op \in (Calls \ {"new"}) \cup {"super init", "append", "pop", "list append", "set item"}

Exiting == <<<<"exit">>, TRUE>>

Digit       == <<"1", "2", "3">>
Child(p, i) == Append(p, Digit[i])
Kids(e)     == DOMAIN e.kids

-----------------------------------------------------------------------------
(***************************************************************************)
(* C code.                                                                 *)
(***************************************************************************)
Value(o, b)    == [k |-> "value", obj |-> o, truth |-> b]
Constant       == Value(0, TRUE)
Read(n)        == [k |-> "read", name |-> n]
Do(e, p, args) == [k |-> "do", op |-> e.op, type |-> e.type, path |-> p,
                   resets |-> e.resets, args |-> args]
Lazy(op, a, b) == [k |-> "lazy", op |-> op, args |-> <<a, b>>]

Declare(n, c)   == <<[s |-> "set", name |-> n, c |-> c]>>
Evaluate(c)     == <<[s |-> "eval", c |-> c]>>
Retain(n)       == <<[s |-> "retain", name |-> n]>>
Release(n)      == <<[s |-> "release", name |-> n]>>
If(c, yes, no)  == <<[s |-> "if", c |-> c, yes |-> yes, no |-> no]>>
While(c, body, n) == <<[s |-> "while", c |-> c, body |-> body, n |-> n]>>
Abort           == <<[s |-> "exit"]>>
E0(op, type)    == [op |-> op, type |-> type, resets |-> FALSE]

\* Code of an operand or an expression: prelude, C expression, and the
\* temporaries to release after the operation that uses it.
Part(pre, c, rel) == [pre |-> pre, c |-> c, rel |-> rel]
Inline(em)        == Part(em.pre, em.c, << >>)
ReleaseAll(ns)    == FlattenSeq([k \in DOMAIN ns |-> Release(Reverse(ns)[k])])

\* In a temporary of its own, that is to be released afterwards.
Hoisted(em, t)  == Part(em.pre \o Declare(t, em.c), Read(t), <<t>>)

Materialized(e, em, t) ==
  IF Borrowed(e) THEN Inline(em)
  ELSE Part(em.pre \o Declare(t, em.c) \o (IF Owned(e) THEN << >> ELSE Retain(t)), Read(t), <<t>>)

\* Arguments: of a plain function or builtin, of the constructor of a class
\* (which takes over what comes with a reference), of a function of a module,
\* a method or super().
CallArgument(kid, target, em, t) ==
  IF IsRef(target) /\ IsRef(kid.type) THEN Materialized(kid, em, t)
  ELSE IF Managed(target) /\ Managed(kid.type) /\ Owned(kid) THEN Hoisted(em, t) ELSE Inline(em)

ConstructorArgument(kid, target, em, t) ==
  IF ~(IsRef(target) /\ IsRef(kid.type)) THEN Inline(em)
  ELSE [Materialized(kid, em, t) EXCEPT !.rel = IF Owned(kid) THEN << >> ELSE @]

ModuleArgument(kid, target, em, t) ==
  IF Managed(target) /\ Managed(kid.type) /\ Owned(kid) THEN Hoisted(em, t) ELSE Inline(em)

SuperArgument(kid, target, em, t) == ModuleArgument(kid, target, em, t)

\* The object of a method call, an argument of it.
ClassOperand(kid, target, em, t) == ModuleArgument(kid, target, em, t)

\* The list or dict of a method call gets a name, its arguments do not.
ContainerOperand(kid, i, em, t) == IF i = 1 THEN Materialized(kid, em, t) ELSE Inline(em)

IndexOperand(kid, i, em, t) ==
  IF i = 1 /\ kid.type # "str" THEN Materialized(kid, em, t) ELSE Inline(em)

MembershipOperand(kid, i, em, t) == IF i = 2 THEN Materialized(kid, em, t) ELSE Inline(em)

\* Strings and the operands of a chain get names without a release.
Named(em, t) == [Hoisted(em, t) EXCEPT !.rel = << >>]

\* How operand i reaches the operation, em being its own code.
Operand(e, i, em, t) ==
  LET kid    == e.kids[i]
      target == IF i \in DOMAIN e.takes THEN e.takes[i] ELSE kid.type
  IN CASE e.op \in {"call", "len", "list append"}    -> CallArgument(kid, target, em, t)
       [] e.op \in {"new", "init", "module init"}    -> ConstructorArgument(kid, target, em, t)
       [] e.op = "module call"                       -> ModuleArgument(kid, target, em, t)
       [] e.op \in {"super", "super init"}           -> SuperArgument(kid, target, em, t)
       [] e.op = "class method"                      -> ClassOperand(kid, target, em, t)
       [] e.op \in Methods                           -> ContainerOperand(kid, i, em, t)
       [] e.op = "index"                             -> IndexOperand(kid, i, em, t)
       [] e.op = "in"                                -> MembershipOperand(kid, i, em, t)
       [] e.op \in {"chain", "str method"}           -> Named(em, t)
       [] OTHER                                      -> Inline(em)

\* Variant with a fault: the right operand is translated first.
RightFirst(e) == IF Len(e.kids) = 2 THEN <<2, 1>> ELSE [i \in Kids(e) |-> i]

\* The code of an index is produced before the code of what is indexed.
Order(e) == IF e.op = "index" THEN <<2, 1>> ELSE [i \in Kids(e) |-> i]

\* Variant with a fault: the temporaries are released before the call.
CompletedEarly(e, c, rel, t) ==
  IF rel = << >> THEN Part(<< >>, c, << >>)
  ELSE IF e.type = "None" THEN Part(ReleaseAll(rel) \o Evaluate(c), Constant, << >>)
  ELSE Part(ReleaseAll(rel) \o Declare(t, c), Read(t), << >>)

\* An operation with temporaries to release gets a statement of its own.
Completed(e, c, rel, t) ==
  IF rel = << >> THEN Part(<< >>, c, << >>)
  ELSE IF e.type = "None" THEN Part(Evaluate(c) \o ReleaseAll(rel), Constant, << >>)
  ELSE Part(Declare(t, c) \o ReleaseAll(rel), Read(t), << >>)

\* A struct holds references of its own: what it was given without is retained.
Struct(e, c, rel, t) ==
  LET borrowed == \E i \in Kids(e) : Managed(e.kids[i].type) /\ ~Owned(e.kids[i])
  IN Part(Declare(t, c) \o (IF borrowed THEN Retain(t) ELSE << >>) \o ReleaseAll(rel), Read(t), << >>)

\* if (scrutinee == pattern) result = v1; else result = v2;
MatchCode(e, parts, t, r) ==
  LET arm(i) == parts[i].pre \o Declare(r, parts[i].c)
                  \o (IF Managed(e.type) /\ ~Owned(e.kids[i]) THEN Retain(r) ELSE << >>)
  IN Part(parts[1].pre \o Declare(t, parts[1].c) \o If(Read(t), arm(2), arm(3)), Read(r), << >>)

Less(a, b) == Do(E0("less", "int"), << >>, <<a, b>>)
Chain(cs)  == Lazy("and", Less(cs[1], cs[2]), Less(cs[2], cs[3]))

\* An open slice ends at the length of its operand, which is written again.
Slice(e, p, cs) == Do(e, p, IF Len(cs) = 2 THEN Append(cs, cs[1]) ELSE cs)

\* The method of a string gets a statement of its own.
StrMethod(c, t) == Part(Declare(t, c), Read(t), << >>)

\* So does super().__init__, on a copy of the base fields of self.
SuperInit(c, rel) == Part(Evaluate(c) \o ReleaseAll(rel), Constant, << >>)

\* The constructor of another module runs after the releases.
ModuleInit(c, rel) == Part(ReleaseAll(rel), c, << >>)

RECURSIVE Emit(_, _)
Parts(e, p) ==
  [i \in Kids(e) |-> Operand(e, i, Emit(e.kids[i], Child(p, i)), Append(Child(p, i), "m"))]

Preludes(e, parts) == FlattenSeq([k \in Kids(e) |-> parts[Order(e)[k]].pre])

\* The code of an operation whose operands have code parts.
Operation(e, p, parts) ==
  LET cs  == [i \in Kids(e) |-> parts[i].c]
      rel == FlattenSeq([i \in Kids(e) |-> parts[i].rel])
      c   == Do(e, p, cs)
      t   == Append(p, "t")
  IN CASE e.op = "var"            -> Part(<< >>, Read(e.name), << >>)
       [] e.op = "const"          -> Part(<< >>, Constant, << >>)
       [] e.op \in {"and", "or"}  -> Part(<< >>, Lazy(e.op, cs[1], cs[2]), << >>)
       [] e.op = "chain"          -> Part(<< >>, Chain(cs), << >>)
       [] e.op \in {"new", "tuple"} -> Struct(e, c, rel, t)
       [] e.op = "module init"    -> ModuleInit(c, rel)
       [] e.op = "super init"     -> SuperInit(c, rel)
       [] e.op = "slice"          -> Part(<< >>, Slice(e, p, cs), << >>)
       [] e.op = "str method"     -> StrMethod(c, t)
       [] OTHER                   -> Completed(e, c, rel, t)

Emit(e, p) ==
  LET parts == Parts(e, p)
  IN IF e.op = "match" THEN MatchCode(e, parts, Append(p, "t"), Append(p, "r"))
     ELSE [Operation(e, p, parts) EXCEPT !.pre = Preludes(e, parts) \o @]

-----------------------------------------------------------------------------
(***************************************************************************)
(* Statements.                                                             *)
(***************************************************************************)
X == <<"x">>    \* a local list
G == <<"g">>    \* a global list
B == <<"b">>    \* a local struct
Y == <<"y">>    \* the variable a statement declares
Z == <<"z">>    \* a global that has no value yet

\* The value gets a reference; the old one of the target is released last.
ManagedAssignment(target, em, owned, declares) ==
  em.pre \o Declare(<<"v">>, em.c) \o (IF owned THEN << >> ELSE Retain(<<"v">>))
    \o (IF declares THEN << >> ELSE Release(target)) \o Declare(target, Read(<<"v">>))

Body(s, b) == Evaluate(Do([op |-> "call", type |-> "None", resets |-> s.resets], <<b>>, << >>))

ExpressionStatement(e, em) ==
  em.pre \o IF Managed(e.type) /\ Owned(e) THEN Declare(<<"v">>, em.c) \o Release(<<"v">>) ELSE Evaluate(em.c)

PrintStatement(s, em) == em.pre \o Evaluate(Do(s, << >>, <<em.c>>))

\* A return of a managed value (CleanupScopes has the others).
Return(e, em) ==
  em.pre \o Declare(<<"v">>, em.c) \o (IF Owned(e) THEN << >> ELSE Retain(<<"v">>)) \o Release(X)
    \o Release(<<"v">>)  \* by the caller

AssertStatement(cond, message) ==
  cond.pre \o If(cond.c, << >>, message.pre \o Evaluate(message.c) \o Abort)

\* Items of a struct are retained for their names, the struct is not released.
Destructured(em, declares) ==
  em.pre \o Declare(<<"v">>, em.c) \o Declare(Y, Read(<<"v">>)) \o Retain(Y)
    \o (IF declares THEN Release(Y) ELSE Release(X) \o Declare(X, Read(Y)))

SetItem(s, em) ==
  FlattenSeq([i \in DOMAIN em |-> em[i].pre]) \o Evaluate(Do(s, << >>, [i \in DOMAIN em |-> em[i].c]))

IfElse(s, cond, elif) ==
  cond.pre \o If(cond.c, Body(s, "then"), elif.pre \o If(elif.c, Body(s, "elif"), Body(s, "else")))

MatchStatement(s, em) ==
  em.pre \o Declare(<<"v">>, em.c) \o If(Read(<<"v">>), Body(s, "then"), Body(s, "else"))

WhileStatement(s, cond) == cond.pre \o While(cond.c, Body(s, "do"), MaxRounds)

With(s, e, em) ==
  em.pre \o Declare(Y, em.c) \o (IF Owned(e) THEN << >> ELSE Retain(Y)) \o Body(s, "do") \o Release(Y)

Range0(i) == <<"r", Digit[i]>>
RangeFor(s, em) ==
  FlattenSeq([i \in DOMAIN em |-> em[i].pre]) \o FlattenSeq([i \in DOMAIN em |-> Declare(Range0(i), em[i].c)])
    \o While(Read(Range0(1)), Body(s, "do"), MaxRounds)

\* The list keeps a reference through the loop, its items through a round.
ForEach(s, e, em) ==
  LET list == Read(<<"l">>)
      item == Do(E0("index", IF e.type = "nest" THEN "ref" ELSE "int"), << >>, <<list, Constant>>)
  IN em.pre \o Declare(<<"l">>, em.c) \o (IF Owned(e) THEN << >> ELSE Retain(<<"l">>))
       \o While(Do(E0("len", "int"), << >>, <<list>>),
                Declare(Y, item) \o Body(s, "do") \o Release(Y), MaxRounds)
       \o Release(<<"l">>)

\* At the top of a module a declaration assigns: globals start as NULL.
ModuleDeclaration(e, em) == ManagedAssignment(Z, em, Owned(e), FALSE)

Code(s) ==
  LET em == [i \in Kids(s) |-> Emit(s.kids[i], <<Digit[i]>>)]
      e  == s.kids[1]
  IN CASE s.op = "expression"   -> ExpressionStatement(e, em[1])
       [] s.op = "print"        -> PrintStatement(s, em[1])
       [] s.op = "declare"      -> ManagedAssignment(Y, em[1], Owned(e), TRUE) \o Release(Y)
       [] s.op = "assign"       -> ManagedAssignment(X, em[1], Owned(e), FALSE)
       [] s.op = "assign field" -> ManagedAssignment(B, em[1], Owned(e), FALSE)
       [] s.op = "module declaration" -> ModuleDeclaration(e, em[1])
       [] s.op = "destructure"  -> Destructured(em[1], TRUE)
       [] s.op = "destructure into" -> Destructured(em[1], FALSE)
       [] s.op = "set item"     -> SetItem(s, em)
       [] s.op = "return"       -> Return(e, em[1])
       [] s.op = "assert"       -> AssertStatement(em[1], em[2])
       [] s.op = "if"           -> IfElse(s, em[1], em[2])
       [] s.op = "match statement" -> MatchStatement(s, em[1])
       [] s.op = "while"        -> WhileStatement(s, em[1])
       [] s.op = "with"         -> With(s, e, em[1])
       [] s.op = "range"        -> RangeFor(s, em)
       [] s.op = "for"          -> ForEach(s, e, em[1])

\* Composite temporaries of a plain call have no release there: the
\* generator gives up.  Statements before "else if" do not compile.
RECURSIVE Composite(_)
Composite(e) ==
  \/ e.op = "call" /\ \E i \in Kids(e) : e.takes[i] \in {"box", "opt"} /\ Owned(e.kids[i])
  \/ \E i \in Kids(e) : Composite(e.kids[i])

Translated(s) ==
  /\ \A i \in Kids(s) : ~Composite(s.kids[i])
  /\ s.op = "if" => Emit(s.kids[2], <<"2">>).pre = << >>

-----------------------------------------------------------------------------
(***************************************************************************)
(* The execution of C code: steps over m, the heap and the names.          *)
(***************************************************************************)
Keep(m, o) ==
  IF o = 0 THEN m
  ELSE [m EXCEPT !.heap[o].refs = @ + 1, !.dangling = @ \/ m.heap[o].refs = 0]

RECURSIVE Drop(_, _)
Drop(m, o) ==
  IF o = 0 THEN m
  ELSE IF m.heap[o].refs = 0 THEN [m EXCEPT !.dangling = TRUE]
  ELSE LET less == [m EXCEPT !.heap[o].refs = @ - 1]
       IN IF m.heap[o].refs > 1 THEN less ELSE FoldSeq(LAMBDA kid, n : Drop(n, kid), less, m.heap[o].kids)

\* A new object (the last of the heap) that holds the given ones.
New(m, kids) ==
  LET kept == FoldSeq(LAMBDA kid, n : Keep(n, kid), m, kids)
  IN [kept EXCEPT !.heap = Append(@, [refs |-> 1, kids |-> kids])]
Newest(m) == Len(m.heap)

Fresh(m, type) ==
  IF type \in {"nest", "dict"}
  THEN LET one == New(m, << >>) IN [New(one, <<Newest(one)>>) EXCEPT !.heap[Newest(one)].refs = 1]
  ELSE New(m, << >>)

Made(m) == {[c |-> Value(Newest(m), TRUE), m |-> m]}
Gives(o, m) == {[c |-> Value(o, TRUE), m |-> m]}

\* Outcomes of an operation on plain values.
Outcomes(op, type, truths) ==
  IF op \in Functions /\ type = "int" THEN BOOLEAN
  ELSE IF op = "not" THEN {~truths[1]}
  ELSE IF op = "less" THEN {~truths[1] /\ truths[2]}
  ELSE {TRUE}

\* The operation of c, its operands being values.
Apply(c, m0) ==
  LET obj(i) == c.args[i].obj
      used   == \E i \in DOMAIN c.args : obj(i) # 0 /\ m0.heap[obj(i)].refs = 0
      m1     == [m0 EXCEPT !.dangling = @ \/ used]
      m2     == IF c.resets THEN LET dropped == New(Drop(m1, m1.env[G].obj), << >>)
                                 IN [dropped EXCEPT !.env[G] = Value(Newest(dropped), TRUE)]
                ELSE m1
      says(m, b) == IF Effect(c.op) THEN [m EXCEPT !.done = Append(@, <<c.path, b>>)] ELSE m
      m      == says(m2, TRUE)
      objs   == SelectSeq([i \in DOMAIN c.args |-> obj(i)], LAMBDA o : o # 0)
  IN CASE c.op \in Functions \cup {"typed"} /\ Managed(c.type) -> Made(Fresh(m, c.type))
       [] c.op \in {"new", "tuple", "field"} -> Gives(obj(1), m)
       [] c.op \in {"init", "module init"} -> Gives(obj(1), Keep(m, obj(1)))
       [] c.op \in {"list", "dict"} -> Made(New(m, objs))
       [] c.op = "copy" -> Made(New(m, m.heap[obj(1)].kids))
       [] c.op \in {"index", "get"} /\ IsRef(c.type) -> LET kid == m.heap[obj(1)].kids[1] IN Gives(kid, Keep(m, kid))
       [] c.op = "pop" /\ c.type = "ref" ->
            Gives(m.heap[obj(1)].kids[1], [m EXCEPT !.heap[obj(1)].kids = Tail(@)])
       [] c.op \in {"append", "list append"} /\ obj(2) # 0 ->
            Gives(0, Keep([m EXCEPT !.heap[obj(1)].kids = Append(@, obj(2))], obj(2)))
       [] c.op = "set item" ->
            Gives(0, Keep([Drop(m, m.heap[obj(1)].kids[1]) EXCEPT !.heap[obj(1)].kids[1] = obj(3)], obj(3)))
       [] OTHER -> {[c |-> Value(0, b), m |-> says(m2, b)] :
                      b \in Outcomes(c.op, c.type, [i \in DOMAIN c.args |-> c.args[i].truth])}

IsValue(c) == c.k = "value"

\* One step anywhere C allows one: the operands of an operation in any
\* order, the right operand of && and || after the left one.
RECURSIVE Steps(_, _)
Steps(c, m) ==
  LET in(i) == {[c |-> [c EXCEPT !.args[i] = r.c], m |-> r.m] : r \in Steps(c.args[i], m)}
  IN CASE c.k = "value" -> {}
       [] c.k = "read"  -> {[c |-> m.env[c.name], m |-> m]}
       [] c.k = "lazy"  -> IF ~IsValue(c.args[1]) THEN in(1)
                           ELSE IF c.args[1].truth = (c.op = "and") THEN {[c |-> c.args[2], m |-> m]}
                           ELSE {[c |-> c.args[1], m |-> m]}
       [] c.k = "do"    -> IF \A i \in DOMAIN c.args : IsValue(c.args[i]) THEN Apply(c, m)
                           ELSE UNION {in(i) : i \in DOMAIN c.args}

M == [heap |-> heap, env |-> env, done |-> done, dangling |-> dangling]
Becomes(m) == heap' = m.heap /\ env' = m.env /\ done' = m.done /\ dangling' = m.dangling

\* Lists x and g, struct b, list of lists n and dict d.
Init ==
  /\ stmt \in Statements
  /\ code = IF Translated(stmt) THEN Code(stmt) ELSE << >>
  /\ heap = [o \in 1 .. 7 |-> [refs |-> 1, kids |-> IF o \in {4, 6} THEN <<o + 1>> ELSE << >>]]
  /\ env = X :> Value(1, TRUE) @@ G :> Value(2, TRUE) @@ B :> Value(3, TRUE)
             @@ <<"n">> :> Value(4, TRUE) @@ <<"d">> :> Value(6, TRUE) @@ Z :> Constant
  /\ done = << >>
  /\ dangling = FALSE

Head1(s) == code # << >> /\ code[1].s = s
Go(next) == code' = next \o Tail(code) /\ UNCHANGED stmt

Operate ==
  /\ code # << >> /\ code[1].s \in {"set", "eval", "if"}
  /\ \E r \in Steps(code[1].c, M) : Becomes(r.m) /\ Go(<<[code[1] EXCEPT !.c = r.c]>>)

Bind ==
  /\ Head1("set") /\ IsValue(code[1].c)
  /\ Becomes([M EXCEPT !.env = code[1].name :> code[1].c @@ @])
  /\ Go(<< >>)

Discard == Head1("eval") /\ IsValue(code[1].c) /\ Go(<< >>) /\ Becomes(M)

Branch ==
  /\ Head1("if") /\ IsValue(code[1].c)
  /\ Go(IF code[1].c.truth THEN code[1].yes ELSE code[1].no) /\ Becomes(M)

Loop ==
  /\ Head1("while")
  /\ LET w == code[1]
     IN Go(IF w.n = 0 THEN << >> ELSE If(w.c, w.body \o While(w.c, w.body, w.n - 1), << >>))
  /\ Becomes(M)

RetainValue  == Head1("retain") /\ Becomes(Keep(M, env[code[1].name].obj)) /\ Go(<< >>)
ReleaseValue == Head1("release") /\ Becomes(Drop(M, env[code[1].name].obj)) /\ Go(<< >>)

Exit == Head1("exit") /\ code' = << >> /\ Becomes([M EXCEPT !.done = Append(@, Exiting)]) /\ UNCHANGED stmt

Next == Operate \/ Bind \/ Discard \/ Branch \/ Loop \/ RetainValue \/ ReleaseValue \/ Exit
Spec == Init /\ [][Next]_vars

-----------------------------------------------------------------------------
(***************************************************************************)
(* The runs of a statement: what it may do, and the truth of its value.    *)
(***************************************************************************)
Run(ev, b)     == [ev |-> ev, v |-> b]
Then(rs, next) == {Run(r.ev \o t.ev, t.v) : r \in rs, t \in next}

RECURSIVE Runs(_, _)
\* The first i operands in turn: what they do and the truths they have.
RECURSIVE InTurn(_, _, _)
InTurn(e, p, i) ==
  IF i = 0 THEN {Run(<< >>, << >>)}
  ELSE {Run(r.ev \o t.ev, Append(r.v, t.v)) :
          r \in InTurn(e, p, i - 1), t \in Runs(e.kids[i], Child(p, i))}

Runs(e, p) ==
  LET kid(i) == Runs(e.kids[i], Child(p, i))
      two    == InTurn(e, p, 2)
  IN CASE e.op \in {"and", "or"} ->
            UNION {IF r.v = (e.op = "and") THEN Then({r}, kid(2)) ELSE {r} : r \in kid(1)}
       [] e.op = "chain" ->
            UNION {IF ~r.v[1] /\ r.v[2] THEN {Run(r.ev \o t.ev, ~r.v[2] /\ t.v) : t \in kid(3)}
                   ELSE {Run(r.ev, FALSE)} : r \in two}
       [] e.op = "match" -> UNION {Then({r}, IF r.v THEN kid(2) ELSE kid(3)) : r \in kid(1)}
       [] OTHER ->
            UNION {{Run(IF Effect(e.op) THEN Append(r.ev, <<p, b>>) ELSE r.ev, b) :
                      b \in Outcomes(e.op, e.type, r.v)} : r \in InTurn(e, p, Len(e.kids))}

Does(b) == {Run(<<<<b, TRUE>>>>, TRUE)}

RECURSIVE Rounds(_, _)
Rounds(e, n) ==
  IF n = 0 THEN {Run(<< >>, TRUE)}
  ELSE UNION {IF r.v THEN Then(Then({r}, Does(<<"do">>)), Rounds(e, n - 1)) ELSE {r} : r \in Runs(e, <<"1">>)}

RECURSIVE Times(_, _)
Times(rs, k) == IF k = 0 THEN {Run(<< >>, TRUE)} ELSE Then(rs, Times(rs, k - 1))

StatementRuns(s) ==
  LET kid(i) == Runs(s.kids[i], <<Digit[i]>>)
  IN CASE s.op = "if" ->
            UNION {Then({r}, IF r.v THEN Does(<<"then">>)
                             ELSE UNION {Then({t}, Does(IF t.v THEN <<"elif">> ELSE <<"else">>)) : t \in kid(2)}) :
                     r \in kid(1)}
       [] s.op = "match statement" -> UNION {Then({r}, Does(IF r.v THEN <<"then">> ELSE <<"else">>)) : r \in kid(1)}
       [] s.op = "while" -> Rounds(s.kids[1], MaxRounds)
       [] s.op = "with"  -> Then(kid(1), Does(<<"do">>))
       [] s.op = "for"   -> Then(kid(1), Times(Does(<<"do">>), MaxRounds))
       [] s.op = "range" ->
            UNION {IF r.v[1] THEN Then({r}, Times(Does(<<"do">>), MaxRounds)) ELSE {r} :
                     r \in InTurn(s, << >>, Len(s.kids))}
       [] s.op = "assert" -> UNION {IF r.v THEN {r} ELSE Then(Then({r}, kid(2)), {Run(<<Exiting>>, TRUE)}) : r \in kid(1)}
       [] OTHER -> Runs(s, << >>)

-----------------------------------------------------------------------------
(***************************************************************************)
(* Where C code differs from the order of the statement.                   *)
(***************************************************************************)
RECURSIVE Has(_, _)
\* Does C expression c contain one of the operations of kind what?
Has(c, what) ==
  CASE c.k = "value" -> FALSE
    [] c.k = "read" -> what = "g" /\ c.name = G
    [] c.k = "lazy" -> \E i \in DOMAIN c.args : Has(c.args[i], what)
    [] c.k = "do" -> \/ what = "effect" /\ Effect(c.op)
                     \/ what = "reset" /\ c.resets
                     \/ \E i \in DOMAIN c.args : Has(c.args[i], what)

RECURSIVE Acts(_)
Acts(pre) ==
  \E i \in DOMAIN pre :
    \/ pre[i].s \in {"set", "eval", "if"} /\ Has(pre[i].c, "effect")
    \/ pre[i].s = "if" /\ (Acts(pre[i].yes) \/ Acts(pre[i].no))

\* The prelude of an operand runs even if the operand is not used, and once
\* for a condition that is used again; an open slice repeats its operand.
UsedAsWritten(e, parts) ==
  LET inline(i) == Has(parts[i].c, "effect")
  IN /\ e.op \in {"and", "or"} => ~Acts(parts[2].pre)
     /\ e.op = "chain" => ~Acts(parts[3].pre)
     /\ e.op = "slice" /\ Len(parts) = 2 => ~inline(1)
     /\ e.op = "while" => ~Acts(parts[1].pre)

\* C does not order the operands of an operation, and preludes come first.
OrderedAsWritten(e, parts) ==
  LET inline(i) == Has(parts[i].c, "effect")
      pre(i)    == Acts(parts[i].pre)
  IN e.op \in {"and", "or", "match", "if", "assert"} \/
     \A i, j \in Kids(e) : i < j =>
       /\ ~(inline(i) /\ (pre(j) \/ (inline(j) /\ e.op # "range")))
       /\ e.op = "index" => ~(pre(i) /\ pre(j))

\* A global read beside a call that replaces it: the read may come first.
ReadBesideReset(e, parts) ==
  \E i, j \in Kids(e) : i # j /\ Has(parts[i].c, "g") /\ Has(parts[j].c, "reset")

RECURSIVE Nodes(_, _)
Nodes(e, p) == {<<e, Parts(e, p)>>} \cup UNION {Nodes(e.kids[i], Child(p, i)) : i \in Kids(e)}

\* Owned values that nothing takes over or releases.
Forgets(e) ==
  \/ e.op = "typed" \/ (e.op = "index" /\ e.kids[1].type = "dict")
  \/ \E i \in Kids(e) :
       /\ Managed(e.kids[i].type) /\ Owned(e.kids[i])
       /\ \/ e.op \in {"list", "dict", "field", "init", "module init", "print",
                       "destructure", "destructure into"}
          \/ e.op \in {"append", "set item"} /\ i > 1

-----------------------------------------------------------------------------
(***************************************************************************)
(* Properties.                                                             *)
(***************************************************************************)
Ended    == code = << >> /\ Translated(stmt)
Exited   == done # << >> /\ Last(done) = Exiting
Observed == {r.ev : r \in StatementRuns(stmt)}
Tree     == Nodes(stmt, << >>)

\* A statement that does not lose the laziness of an operand to a prelude
\* does what it says, every call once; and it does so in the order of the
\* statement if no two operands of an operation act in one C expression.
InOrder ==
  Ended /\ (\A n \in Tree : UsedAsWritten(n[1], n[2])) =>
    /\ \E ev \in Observed : Len(ev) = Len(done) /\ Range(ev) = Range(done)
    /\ (\A n \in Tree : OrderedAsWritten(n[1], n[2])) => done \in Observed

Roots      == {G, B, <<"n">>, <<"d">>, Z} \cup (IF stmt.op = "return" THEN {} ELSE {X})
Holders(o) == Cardinality({r \in Roots : env[r].obj = o})
              + Cardinality({q \in (DOMAIN heap) \X (1 .. 3) :
                  /\ heap[q[1]].refs > 0 /\ q[2] \in DOMAIN heap[q[1]].kids
                  /\ heap[q[1]].kids[q[2]] = o})

\* When a statement is over, every object is referenced as often as it is
\* held, and an object more often than that only where an owned value
\* was an operand that nothing takes over.
Released ==
  Ended /\ ~Exited /\ ~dangling =>
    \A o \in DOMAIN heap :
      \/ heap[o].refs = Holders(o)
      \/ heap[o].refs > Holders(o) /\ \E n \in Tree : Forgets(n[1])

\* No statement uses a freed object, unless an operation reads a global
\* directly and calls a function that replaces it from another operand.
NoDangling == dangling => \E n \in Tree : ReadBesideReset(n[1], n[2])
=============================================================================
