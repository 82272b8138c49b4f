------------------------------- MODULE Names -------------------------------
(***************************************************************************)
(* What the names in a function body mean: the bindings of imports,        *)
(* globals and functions that analyze_program collects, the one global     *)
(* scope it fills while it walks the emission root, the scopes of a body,  *)
(* the variables a nested function captures, and the function a call is    *)
(* resolved to.                                                            *)
(*                                                                         *)
(* A program is fixed but for one function, whose body is chosen statement *)
(* by statement; the bodies of the others leave no trace in what is        *)
(* modelled here.                                                          *)
(***************************************************************************)
EXTENDS Naturals, Sequences, FiniteSets, SequencesExt

CONSTANTS
  Module,     (* modules                                                   *)
  Name,       (* names of variables and functions                          *)
  Private,    (* the names that start with one underscore                  *)
  NULL,
  Programs    (* the programs, records of the form below                   *)

\* Value types: an int is accepted where a float is expected.
Type == {"int", "float"}
Parameters == Seq([name : Name, type : Type])
Arguments == {<< >>} \cup {<<t>> : t \in Type}

\* Top-level statements: x: T = e, x = e, and a function with the functions
\* nested directly in it.
Global == [op : {"typed", "inferred"}, module : Module, name : Name, type : Type]
Nested == [name : Name, params : Parameters]
Function == [op : {"function"}, module : Module, name : Name, params : Parameters,
             nested : Seq(Nested)]

\* A from import has a symbol, an import of a whole module none.
Import == [local : Name \cup Module, module : Module, symbol : Name \cup {NULL}]

\* root is the emission root and globals the variables of every loaded file,
\* copied into the root or not; run is the index of the chosen function, words
\* the names its body uses and bound how many statements it has.  An import has
\* another local name for a function only: for a variable the loader refuses it
\* ("alias target" in ModuleLoader).
ASSUME ProgramAssumption ==
  /\ Private \subseteq Name /\ NULL \notin Name \cup Module \cup Nat
  /\ \A p \in Programs :
       /\ p.root \in Seq(Global \cup Function) /\ p.globals \in Seq(Global)
       /\ DOMAIN p.imports = Module /\ \A m \in Module : p.imports[m] \in Seq(Import)
       /\ p.run \in DOMAIN p.root /\ p.root[p.run] \in Function
       /\ p.words \subseteq Name /\ p.bound \in Nat
       /\ \A m \in Module : \A i \in DOMAIN p.imports[m], g \in Range(p.globals) :
            LET b == p.imports[m][i]
            IN g.module = b.module /\ g.name = b.symbol => b.local = b.symbol

VARIABLES
  prog,      (* the program                                                *)
  phase,     (* "collect", "root", "body", "done" or "refused"             *)
  functions, (* info->functions, the last one registered first             *)
  index,     (* the statement of the root that is checked next             *)
  global,    (* the bindings of global_scope                               *)
  scopes,    (* the scopes of the body, the innermost last; owner: 0 the   *)
             (* function, j its j-th nested one, NULL a block              *)
  defined,   (* how many nested functions have been checked                *)
  captured,  (* captured[j]: names nested function j captures              *)
  calls,     (* calls of nested functions, with what C sees at the call    *)
  uses,      (* recorded global targets                                    *)
  declared,  (* <<m, x>>: globals that have a C declaration                *)
  steps      (* statements of the body so far                              *)

vars == <<prog, phase, functions, index, global, scopes, defined, captured, calls, uses, declared, steps>>

Run == prog.root[prog.run]
Here == Run.module
NestedIds == DOMAIN Run.nested

-----------------------------------------------------------------------------
\* Collection: import bindings, global bindings, functions.

\* FunctionInfo: nested functions are registered right after their function,
\* and every registration goes to the front of the list.
Info(i, outer, f) ==
  [id |-> <<i, outer>>, name |-> f.name, module |-> prog.root[i].module,
   params |-> [k \in DOMAIN f.params |-> f.params[k].type], inside |-> outer]
Infos(i) ==
  IF prog.root[i].op # "function" THEN << >>
  ELSE <<Info(i, 0, prog.root[i])>>
       \o [j \in DOMAIN prog.root[i].nested |-> Info(i, j, prog.root[i].nested[j])]
Registered == Reverse(FlattenSeq([i \in DOMAIN prog.root |-> Infos(i)]))

Twice(s, Same(_, _)) == \E i, j \in DOMAIN s : i # j /\ Same(s[i], s[j])

DuplicateImport ==
  \E m \in Module : Twice(prog.imports[m], LAMBDA a, b : a.local = b.local)

DuplicateGlobal ==
  Twice(prog.globals, LAMBDA a, b : a.module = b.module /\ a.name = b.name)

\* same_function_signature: equal enclosing function, module and parameters.
DuplicateFunction ==
  Twice(Registered, LAMBDA a, b :
    /\ a.name = b.name /\ a.module = b.module /\ a.params = b.params
    /\ IF a.inside = 0 THEN b.inside = 0 ELSE b.inside # 0 /\ a.id[1] = b.id[1])

Unchanged == UNCHANGED <<prog, functions, global, scopes, defined, captured, calls, uses, declared, steps>>

Collect ==
  /\ phase = "collect"
  /\ IF DuplicateImport \/ DuplicateGlobal \/ DuplicateFunction
     THEN phase' = "refused" /\ UNCHANGED functions
     ELSE phase' = "root" /\ functions' = Registered
  /\ UNCHANGED <<prog, index, global, scopes, defined, captured, calls, uses, declared, steps>>

\* Variant with a fault: the module is not compared.
FindGlobalNamed(m, x) == {g \in Range(prog.globals) : g.name = x}

\* semantic_find_global
FindGlobal(m, x) == {g \in Range(prog.globals) : g.module = m /\ g.name = x}

\* find_import_binding for a from import; local names are unique.
FromImport(x) == {b \in Range(prog.imports[Here]) : b.local = x /\ b.symbol # NULL}
WholeImport(m) == {b \in Range(prog.imports[Here]) : b.local = m /\ b.symbol = NULL}

Assignable(target, value) == target = value \/ (target = "float" /\ value = "int")

-----------------------------------------------------------------------------
\* The root: every global is bound into the same scope, whatever its module.

Bind(bindings, x, b) ==
  IF x \in DOMAIN bindings THEN bindings
  ELSE [y \in DOMAIN bindings \cup {x} |-> IF y = x THEN b ELSE bindings[y]]
AtRoot(op) == phase = "root" /\ index <= Len(prog.root) /\ prog.root[index].op = op

BindGlobal(g) ==
  global' = Bind(global, g.name, [type |-> g.type, module |-> g.module, owner |-> NULL])

\* x: T = e
CheckTyped ==
  /\ AtRoot("typed")
  /\ LET item == prog.root[index]
     IN IF item.name \in DOMAIN global /\ global[item.name].type # item.type
        THEN phase' = "refused" /\ UNCHANGED <<index, global, declared>>
        ELSE /\ BindGlobal(item)
             /\ declared' = declared \cup {<<item.module, item.name>>}
             /\ index' = index + 1 /\ UNCHANGED phase
  /\ UNCHANGED <<prog, functions, scopes, defined, captured, calls, uses, steps>>

\* x = e declares x unless the scope has one: then it is an assignment, for
\* which C has no declaration.
CheckInferred ==
  /\ AtRoot("inferred")
  /\ LET item == prog.root[index]
     IN \/ /\ item.name \notin DOMAIN global
           /\ BindGlobal(item)
           /\ declared' = declared \cup {<<item.module, item.name>>}
           /\ index' = index + 1 /\ UNCHANGED phase
        \/ /\ item.name \in DOMAIN global
           /\ IF Assignable(global[item.name].type, item.type)
              THEN index' = index + 1 /\ UNCHANGED phase
              ELSE phase' = "refused" /\ UNCHANGED index
           /\ UNCHANGED <<global, declared>>
  /\ UNCHANGED <<prog, functions, scopes, defined, captured, calls, uses, steps>>

CheckOther ==
  /\ AtRoot("function") /\ index # prog.run
  /\ index' = index + 1
  /\ Unchanged /\ UNCHANGED phase

\* typecheck_function: parameters are bound in the scope of the body.
ParamScope(owner, params) ==
  [owner |-> owner,
   vars  |-> [x \in {p.name : p \in Range(params)} |->
               [type |-> (CHOOSE p \in Range(params) : p.name = x).type,
                module |-> NULL, owner |-> owner]]]

EnterRun ==
  /\ AtRoot("function") /\ index = prog.run
  /\ phase' = "body"
  /\ scopes' = <<ParamScope(0, Run.params)>>
  /\ UNCHANGED <<prog, functions, index, global, defined, captured, calls, uses, declared, steps>>

Finish ==
  /\ phase = "root" /\ index > Len(prog.root)
  /\ phase' = "done"
  /\ Unchanged /\ UNCHANGED index

-----------------------------------------------------------------------------
\* Looking names up in the body.

Inner == scopes[Len(scopes)]
Levels(x) == {d \in DOMAIN scopes : x \in DOMAIN scopes[d].vars}
IsLocal(x) == Levels(x) # {}

\* semantic_find_variable: the innermost scope, at last the global one.
IsBound(x) == IsLocal(x) \/ x \in DOMAIN global
Variable(x) == IF IsLocal(x) THEN scopes[Max(Levels(x))].vars[x] ELSE global[x]

\* scope_function
Current ==
  scopes[Max({d \in DOMAIN scopes : scopes[d].owner # NULL})].owner

\* Variant with a fault: variables of blocks, which have no function, are not
\* told apart from those of another function.
IsCaptureOfAny(b) == b.module = NULL /\ Current # 0 /\ b.owner # Current

\* binding_is_captured_from_outer_scope, and the same test for a read.
IsCapture(b) == b.module = NULL /\ b.owner # NULL /\ Current # 0 /\ b.owner # Current

\* resolve_visible_global, for a name that no scope binds.
VisibleGlobal(x) ==
  IF FindGlobal(Here, x) # {} THEN {<<Here, x>>}
  ELSE {<<b.module, b.symbol>> : b \in {b \in FromImport(x) :
          b.symbol \notin Private /\ FindGlobal(b.module, b.symbol) # {}}}

\* The global a bare name stands for.
Target(x) == IF x \in DOMAIN global THEN {<<global[x].module, x>>} ELSE VisibleGlobal(x)

-----------------------------------------------------------------------------
\* Statements of the body.

InBody == phase = "body" /\ steps < prog.bound
Refuse ==
  /\ phase' = "refused"
  /\ UNCHANGED <<prog, functions, index, global, scopes, defined, captured, calls, uses, declared, steps>>
Step == steps' = steps + 1 /\ UNCHANGED <<prog, functions, phase, index, global, declared>>

BindLocal(x, t) ==
  scopes' = [scopes EXCEPT ![Len(scopes)].vars =
               Bind(@, x, [type |-> t, module |-> NULL, owner |-> Inner.owner])]

\* x: t = e
Declare(x, t) ==
  /\ InBody
  /\ \/ x \in DOMAIN Inner.vars /\ Inner.vars[x].type # t /\ Refuse
     \/ /\ x \in DOMAIN Inner.vars => Inner.vars[x].type = t
        /\ BindLocal(x, t) /\ Step
        /\ UNCHANGED <<defined, captured, calls, uses>>

\* x = e
Assign(x, t) ==
  /\ InBody
  /\ \/ /\ ~IsBound(x)
        /\ BindLocal(x, t) /\ Step
        /\ UNCHANGED <<defined, captured, calls, uses>>
     \/ /\ IsBound(x)
        /\ LET b == Variable(x)
           IN IF IsCapture(b) \/ ~Assignable(b.type, t) THEN Refuse
              ELSE /\ uses' = IF b.module = NULL THEN uses
                              ELSE uses \cup {[name |-> x, at |-> <<b.module, x>>, bare |-> TRUE]}
                   /\ Step /\ UNCHANGED <<scopes, defined, captured, calls>>

\* x in an expression.
Read(x) ==
  /\ InBody
  /\ \/ /\ IsLocal(x)
        /\ captured' = IF IsCapture(Variable(x))
                       THEN [captured EXCEPT ![Current] = @ \cup {x}] ELSE captured
        /\ Step /\ UNCHANGED <<scopes, defined, calls, uses>>
     \/ /\ ~IsLocal(x) /\ Target(x) # {}
        /\ uses' = uses \cup {[name |-> x, at |-> t, bare |-> TRUE] : t \in Target(x)}
        /\ Step /\ UNCHANGED <<scopes, defined, captured, calls>>
     \/ ~IsLocal(x) /\ Target(x) = {} /\ Refuse

\* m.x in an expression.
ReadQualified(m, x) ==
  /\ InBody
  /\ IF x \in Private \/ \A b \in WholeImport(m) : FindGlobal(b.module, x) = {} THEN Refuse
     ELSE /\ uses' = uses \cup {[name |-> x, at |-> <<b.module, x>>, bare |-> FALSE] : b \in WholeImport(m)}
          /\ Step /\ UNCHANGED <<scopes, defined, captured, calls>>

-----------------------------------------------------------------------------
\* Calls.  In module is NULL for a bare name, else the module of m.f(..).

\* function_visible_lexically
Lexical(f) ==
  f.inside # 0 /\ f.id[1] = prog.run /\ (Current = 0 \/ Current = f.inside)

\* The functions that have the called name or the name an import binding stands
\* for, and pass function_visible_for_call.
IsCandidate(f, x, module, imported, lexicalOnly) ==
  /\ f.name = x \/ \E b \in imported : f.name = b.symbol
  /\ \/ f.inside # 0 /\ module = NULL /\ Lexical(f)
     \/ f.inside = 0 /\ module # NULL /\ f.module = module
     \/ /\ f.inside = 0 /\ module = NULL /\ ~lexicalOnly
        /\ f.module = Here \/ \E b \in imported : f.module = b.module /\ f.name = b.symbol

Compatible(f, args) ==
  Len(f.params) = Len(args) /\ \A k \in DOMAIN args : Assignable(f.params[k], args[k])

\* The score: arguments that are converted.
Score(f, args) == Cardinality({k \in DOMAIN args : args[k] # f.params[k]})

\* Variant with a fault: a better candidate does not end an earlier tie.
ConsiderSticky(state, f, args) ==
  IF state.best = {} \/ \A g \in state.best : Score(f, args) < Score(g, args)
  THEN [best |-> {f}, ambiguous |-> state.ambiguous]
  ELSE IF \A g \in state.best : Score(f, args) = Score(g, args)
       THEN [state EXCEPT !.ambiguous = TRUE] ELSE state

\* The loop of resolve_function_call_type over info->functions.
Consider(state, f, args) ==
  IF state.best = {} \/ \A g \in state.best : Score(f, args) < Score(g, args)
  THEN [best |-> {f}, ambiguous |-> FALSE]
  ELSE IF \A g \in state.best : Score(f, args) = Score(g, args)
       THEN [state EXCEPT !.ambiguous = TRUE] ELSE state

Imported(x, module)    == IF module = NULL THEN FromImport(x) ELSE {}
LexicalOnly(x, module) == module = NULL /\ \E f \in Range(functions) : f.name = x /\ Lexical(f)
IsPrivate(x, module)   ==
  (module # NULL /\ x \in Private) \/ \E b \in Imported(x, module) : b.symbol \in Private
Fits(f, x, module, args) ==
  IsCandidate(f, x, module, Imported(x, module), LexicalOnly(x, module)) /\ Compatible(f, args)

\* The function called, or no function when the call is refused.
Resolved(x, module, args) ==
  LET after[n \in 0 .. Len(functions)] ==
        IF n = 0 THEN [best |-> {}, ambiguous |-> FALSE]
        ELSE IF Fits(functions[n], x, module, args)
        THEN Consider(after[n - 1], functions[n], args) ELSE after[n - 1]
      result == after[Len(functions)]
  IN IF IsPrivate(x, module) \/ result.ambiguous THEN {} ELSE result.best

\* The C call passes each capture of the callee by its name: it gets the
\* variable of the chosen function when nothing closer has that name.
PassedAt(j) ==
  [to |-> j, after |-> j <= defined,
   sees |-> {x \in DOMAIN scopes[1].vars : Levels(x) = {1}},
   hidden |-> {x \in Name : \E d \in Levels(x) : d > 1}]

Call(x, args) ==
  /\ InBody
  /\ LET target == Resolved(x, NULL, args)
     IN IF target = {} THEN Refuse
        ELSE /\ calls' = calls \cup {PassedAt(f.inside) : f \in {f \in target : f.inside # 0}}
             /\ Step /\ UNCHANGED <<scopes, defined, captured, uses>>

CallQualified(m, x, args) ==
  /\ InBody
  /\ IF \A b \in WholeImport(m) : Resolved(x, b.module, args) = {} THEN Refuse
     ELSE Step /\ UNCHANGED <<scopes, defined, captured, calls, uses>>

-----------------------------------------------------------------------------
\* Suites.

Push(s) == scopes' = Append(scopes, s)

\* if, while, else, case: typecheck_branch_suite.
BeginBlock ==
  /\ InBody
  /\ Push([owner |-> NULL, vars |-> << >>])
  /\ Step /\ UNCHANGED <<defined, captured, calls, uses>>

\* for x in range(..)
BeginFor(x) ==
  /\ InBody
  /\ Push([owner |-> NULL, vars |-> [y \in {x} |-> [type |-> "int", module |-> NULL, owner |-> NULL]]])
  /\ Step /\ UNCHANGED <<defined, captured, calls, uses>>

\* def, directly in the suite of the chosen function.
DefineNested ==
  /\ phase = "body" /\ Len(scopes) = 1 /\ defined < Len(Run.nested)
  /\ defined' = defined + 1
  /\ Push(ParamScope(defined + 1, Run.nested[defined + 1].params))
  /\ UNCHANGED <<prog, functions, phase, index, global, captured, calls, uses, declared, steps>>

\* The end of a block or of a nested function.
EndSuite ==
  /\ phase = "body" /\ Len(scopes) > 1
  /\ scopes' = Front(scopes)
  /\ UNCHANGED <<prog, functions, phase, index, global, defined, captured, calls, uses, declared, steps>>

EndRun ==
  /\ phase = "body" /\ Len(scopes) = 1 /\ defined = Len(Run.nested)
  /\ scopes' = << >> /\ phase' = "root" /\ index' = index + 1
  /\ UNCHANGED <<prog, functions, global, defined, captured, calls, uses, declared, steps>>

-----------------------------------------------------------------------------
Init ==
  /\ prog \in Programs
  /\ phase = "collect" /\ functions = << >> /\ index = 1
  /\ global = << >> /\ scopes = << >> /\ defined = 0
  /\ captured = [j \in NestedIds |-> {}]
  /\ calls = {} /\ uses = {} /\ declared = {} /\ steps = 0

Statement ==
  \/ \E x \in prog.words : \/ \E t \in Type : Declare(x, t) \/ Assign(x, t)
                           \/ Read(x) \/ BeginFor(x)
                           \/ \E m \in Module : ReadQualified(m, x)
  \/ \E x \in {f.name : f \in Range(functions)} \ {Run.name}, args \in Arguments :
       \/ Call(x, args)
       \/ \E m \in Module : CallQualified(m, x, args)
  \/ BeginBlock

Next ==
  \/ Collect \/ CheckTyped \/ CheckInferred \/ CheckOther \/ EnterRun \/ Finish
  \/ Statement \/ DefineNested \/ EndSuite \/ EndRun

Spec == Init /\ [][Next]_vars

-----------------------------------------------------------------------------
IsGlobal(m, x) == \E g \in Range(prog.globals) : g.module = m /\ g.name = x

\* The global a bare name of this module should stand for.
Meaning(x) ==
  IF IsGlobal(Here, x) THEN {<<Here, x>>}
  ELSE {<<b.module, b.symbol>> : b \in {b \in FromImport(x) : IsGlobal(b.module, b.symbol)}}

IsVariable(i) == prog.root[i].op # "function"
Emitted(m, x) ==
  \E i \in DOMAIN prog.root : IsVariable(i) /\ prog.root[i].module = m /\ prog.root[i].name = x

\* A global of another module that is emitted too is bound in the same scope.
Homonym(m, x) == \E n \in Module \ {m} : Emitted(n, x)

\* The two ways to find a global, the scope filled while the root is walked and
\* the lists collected before, agree with the import rules wherever the function
\* stands in the root, and what was found in an emitted module is declared in C:
\* unless another emitted module has a global of the same name.
GlobalMeaning ==
  /\ phase = "body" => \A x \in prog.words :
       \A g \in Meaning(x) :
         ~Homonym(g[1], g[2]) /\ g[2] \notin Private => Target(x) = {g}
  /\ phase = "done" => \A u \in uses :
       Emitted(u.at[1], u.at[2]) /\ ~Homonym(u.at[1], u.at[2]) => u.at \in declared

\* The functions a call should choose from: the nested ones of the name, if the
\* enclosing function has any, else the module's own and the imported ones.
Scope(x, module) ==
  LET nested == {f \in Range(functions) : f.inside # 0 /\ f.id[1] = prog.run /\ f.name = x}
  IN IF module # NULL THEN {f \in Range(functions) : f.inside = 0 /\ f.module = module /\ f.name = x}
     ELSE IF nested # {} THEN nested
     ELSE {f \in Range(functions) : /\ f.inside = 0
                       /\ \/ f.module = Here /\ f.name = x
                          \/ \E b \in FromImport(x) : f.module = b.module /\ f.name = b.symbol}

\* The one compatible function that converts the fewest arguments.
Cheapest(x, module, args) ==
  LET fits == {f \in Scope(x, module) : Compatible(f, args)}
      least == {f \in fits : \A g \in fits : Score(f, args) <= Score(g, args)}
  IN IF Cardinality(least) = 1 THEN least ELSE {}

\* A nested function does not find its siblings, and an aliased import finds
\* functions that have the name of the imported one.
Misnamed(x, module) ==
  /\ module = NULL
  /\ \/ Current # 0 /\ \E j \in NestedIds \ {Current} : Run.nested[j].name = x
     \/ \E b \in FromImport(x), f \in Range(functions) :
          b.symbol # x /\ f.name = b.symbol /\ (f.module = Here \/ f.inside # 0)

\* A call is resolved to the one cheapest function its name can mean, in
\* whatever order the functions were registered, and refused if there is none or
\* a tie; private names are refused.
CallMeaning ==
  phase = "body" =>
    \A x \in {f.name : f \in Range(functions)}, module \in Module \cup {NULL}, args \in Arguments :
      LET private == \/ module # NULL /\ x \in Private
                     \/ module = NULL /\ \E b \in FromImport(x) : b.symbol \in Private
      IN ~Misnamed(x, module) =>
           Resolved(x, module, args) = IF private THEN {} ELSE Cheapest(x, module, args)

\* Whatever a nested function captures can be passed by every call that follows
\* its definition, the recursive ones included: the name is that of a variable of
\* the enclosing function's own suite, unless a block declares it again.
CapturesPassed ==
  \A c \in calls : c.after => captured[c.to] \subseteq c.sees \cup c.hidden
=============================================================================
