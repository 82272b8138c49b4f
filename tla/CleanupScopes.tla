---------------------------- MODULE CleanupScopes ----------------------------
(***************************************************************************)
(* How the code generator releases the managed locals of a function: the   *)
(* registry of live locals, the stack of cleanup scopes, and the release   *)
(* calls it writes at the end of every suite, before every return and      *)
(* after the label a break or a continue jumps to.                         *)
(*                                                                         *)
(* A behaviour has two halves.  The generator first walks a function body, *)
(* one statement after another, and emits its C code; then the C function  *)
(* runs once, with every test of a condition going either way.  An emitted *)
(* instruction is identified by its position in the code; a local by the   *)
(* position of its declaration.                                            *)
(***************************************************************************)
EXTENDS Naturals, Sequences, FiniteSets

CONSTANTS
  Name,        (* names the source function uses for managed locals        *)
  NULL,        (* no name, no local                                        *)
  MaxStmts,    (* bound: statements of the source function                 *)
  MaxDepth     (* bound: nested suites (MAX_SCOPE_DEPTH in the code)       *)

ASSUME NameAssumption  == NULL \notin Name
ASSUME BoundAssumption == MaxStmts \in Nat /\ MaxDepth \in Nat

VARIABLES
  kind,     (* what the function returns: "none", "value" or "managed"     *)
  code,     (* the C code emitted so far                                   *)
  locals,   (* managed_locals: the registered locals, in order             *)
  starts,   (* cleanup_scope_starts                                        *)
  loops,    (* loop_ids: the loops around the current statement            *)
  suites,   (* the suites being walked, the function's own first           *)
  stmts,    (* statements walked                                           *)
  pc,       (* the running function: next instruction, 0 before and after  *)
  refs,     (* refs[d]: count of the object local d was last set to        *)
  action,   (* py4_loop_action of the innermost loop                       *)
  result,   (* the local whose object is being returned                    *)
  bad,      (* releases and takes executed on a local without a reference  *)
  leaked    (* locals that went out of existence with their reference      *)

gen  == <<kind, code, locals, starts, loops, suites, stmts>>
run  == <<pc, refs, action, result, bad, leaked>>
vars == <<kind, code, locals, starts, loops, suites, stmts, pc, refs, action, result, bad, leaked>>

\* skips is history: the live locals this exit leaves without releasing them.
Instr(op, id) ==
  [op |-> op, id |-> id, local |-> id, name |-> NULL, act |-> 0, skips |-> {}]

-----------------------------------------------------------------------------
(***************************************************************************)
(* The generator.                                                          *)
(***************************************************************************)
Here == Len(code) + 1
LastOf(s) == s[Len(s)]
ButLast(s) == SubSeq(s, 1, Len(s) - 1)
Suite(k, id, prior) == [kind |-> k, id |-> id, prior |-> prior, returns |-> FALSE]

\* emit_function_definition has pushed the scope of the parameters.
Init ==
  /\ kind \in {"none", "value", "managed"}
  /\ code = << >> /\ locals = << >> /\ starts = <<0>> /\ loops = << >>
  /\ suites = <<Suite("function", 0, FALSE)>>
  /\ stmts = 0
  /\ pc = 0 /\ refs = << >> /\ action = 0 /\ result = 0 /\ bad = {} /\ leaked = {}

\* The local a C identifier denotes: the innermost declaration in scope.
InScope(n) == {k \in DOMAIN locals : code[locals[k]].name = n}
Visible(n) == locals[CHOOSE k \in InScope(n) : \A j \in InScope(n) : j <= k]

Release(d) == [Instr("release", Visible(code[d].name)) EXCEPT !.local = d]

\* The releases of all locals registered after the first n, newest first.
Releases(n) == [k \in 1 .. Len(locals) - n |-> Release(locals[Len(locals) + 1 - k])]
Live == Releases(0)

Walking == suites # << >> /\ stmts < MaxStmts
Deeper == Walking /\ Len(suites) < MaxDepth

Declaration(n) == [Instr("declare", 0) EXCEPT !.name = n]

\* register_ref_local refuses a second local of that name in the scope.
Registrable(n) == \A k \in LastOf(starts) + 1 .. Len(locals) : code[locals[k]].name # n

\* A managed parameter, or  n: T = <value>  for a name new in its suite.
Declare(n) ==
  /\ Walking /\ Registrable(n)
  /\ code' = Append(code, Declaration(n))
  /\ locals' = Append(locals, Here)
  /\ stmts' = stmts + 1
  /\ UNCHANGED <<kind, starts, loops, suites, run>>

Enter(k, id, prior, s) ==
  /\ starts' = Append(s, Len(locals))
  /\ suites' = Append(suites, Suite(k, id, prior))

\* if, and the first case of a match.
BeginIf ==
  /\ Deeper
  /\ code' = Append(code, Instr("if", Here))
  /\ Enter("if", Here, TRUE, starts)
  /\ stmts' = stmts + 1
  /\ UNCHANGED <<kind, locals, loops, run>>

\* pop_cleanup_scope: the releases of the innermost scope, and its end.
PopScope == locals' = SubSeq(locals, 1, LastOf(starts))
ScopeReleases == Releases(LastOf(starts))

\* Variant with a fault: the locals of the branch before stay registered.
BranchKeepsLocals(k) ==
  /\ Walking /\ LastOf(suites).kind = "if"
  /\ LET s == LastOf(suites)
     IN /\ code' = code \o ScopeReleases \o <<Instr(k, s.id)>>
        /\ suites' = Append(ButLast(suites),
                            Suite(IF k = "last" THEN "last" ELSE "if", s.id, s.prior /\ s.returns))
  /\ stmts' = stmts + 1
  /\ UNCHANGED <<kind, locals, starts, loops, run>>

\* elif, else, and the other cases of a match; k = "last" without a test.
Branch(k) ==
  /\ Walking /\ LastOf(suites).kind = "if"
  /\ LET s == LastOf(suites)
     IN /\ code' = code \o ScopeReleases \o <<Instr(k, s.id)>>
        /\ suites' = Append(ButLast(suites),
                            Suite(IF k = "last" THEN "last" ELSE "if", s.id, s.prior /\ s.returns))
  /\ PopScope
  /\ stmts' = stmts + 1
  /\ UNCHANGED <<kind, starts, loops, run>>

\* The suite that ended returns on every path, hence so does the one around.
Leave(returns) ==
  suites' = [ButLast(suites) EXCEPT ![Len(suites) - 1].returns = @ \/ returns]

\* Variant with a fault: a chain without else counts as returning.
EndIfPartial ==
  /\ suites # << >> /\ LastOf(suites).kind \in {"if", "last"}
  /\ LET s == LastOf(suites)
     IN /\ code' = code \o ScopeReleases \o <<Instr("end", s.id)>>
        /\ Leave(s.prior /\ s.returns)
  /\ PopScope
  /\ starts' = ButLast(starts)
  /\ UNCHANGED <<kind, loops, stmts, run>>

EndIf ==
  /\ suites # << >> /\ LastOf(suites).kind \in {"if", "last"}
  /\ LET s == LastOf(suites)
     IN /\ code' = code \o ScopeReleases \o <<Instr("end", s.id)>>
        /\ Leave(s.kind = "last" /\ s.prior /\ s.returns)
  /\ PopScope
  /\ starts' = ButLast(starts)
  /\ UNCHANGED <<kind, loops, stmts, run>>

\* while, and for over a range: a loop without managed variables of its own.
BeginWhile ==
  /\ Deeper
  /\ code' = Append(code, Instr("loop", Here))
  /\ Enter("while", Here, FALSE, starts)
  /\ loops' = Append(loops, Here)
  /\ stmts' = stmts + 1
  /\ UNCHANGED <<kind, locals, run>>

\* for n in <list>: the iterable is held by a C temporary that is not
\* registered; the target is declared in the loop's scope.
BeginFor(n) ==
  /\ Deeper
  /\ code' = code \o <<Declaration(NULL), Instr("loop", Here + 1), Declaration(n)>>
  /\ Enter("for", Here + 1, FALSE, starts)
  /\ locals' = Append(locals, Here + 2)
  /\ loops' = Append(loops, Here + 1)
  /\ stmts' = stmts + 1
  /\ UNCHANGED <<kind, run>>

\* Variant with a fault: the label comes after the releases.
EndLoopLabelLast ==
  /\ suites # << >> /\ LastOf(suites).kind \in {"while", "for"}
  /\ LET s == LastOf(suites)
     IN code' = code \o ScopeReleases
                     \o <<Instr("label", s.id)>> \o <<Instr("next", s.id)>>
                     \o (IF s.kind = "for" THEN <<Instr("release", s.id - 1)>> ELSE << >>)
  /\ Leave(FALSE)
  /\ PopScope
  /\ starts' = ButLast(starts)
  /\ loops' = ButLast(loops)
  /\ UNCHANGED <<kind, stmts, run>>

\* The cleanup label, the releases of the suite, the tests of the action.
EndLoop ==
  /\ suites # << >> /\ LastOf(suites).kind \in {"while", "for"}
  /\ LET s == LastOf(suites)
     IN code' = code \o <<Instr("label", s.id)>> \o ScopeReleases
                     \o <<Instr("next", s.id)>>
                     \o (IF s.kind = "for" THEN <<Instr("release", s.id - 1)>> ELSE << >>)
  /\ Leave(FALSE)
  /\ PopScope
  /\ starts' = ButLast(starts)
  /\ loops' = ButLast(loops)
  /\ UNCHANGED <<kind, stmts, run>>

\* with <resource> as n: registered in the scope that is pushed for it.
BeginWith(n) ==
  /\ Deeper
  /\ code' = Append(code, Declaration(n))
  /\ Enter("with", Here, FALSE, starts)
  /\ locals' = Append(locals, Here)
  /\ stmts' = stmts + 1
  /\ UNCHANGED <<kind, loops, run>>

EndWith ==
  /\ suites # << >> /\ LastOf(suites).kind = "with"
  /\ code' = code \o ScopeReleases
  /\ Leave(FALSE)
  /\ PopScope
  /\ starts' = ButLast(starts)
  /\ UNCHANGED <<kind, loops, stmts, run>>

\* break (a = 1) and continue (a = 2): set the action, go to the label.  The
\* locals of the suites between the loop's suite and this one are skipped.
Jump(a) ==
  /\ Walking /\ loops # << >>
  /\ LET own  == CHOOSE k \in DOMAIN suites : /\ suites[k].kind \in {"while", "for"}
                                              /\ suites[k].id = LastOf(loops)
         kept == IF own = Len(suites) THEN Len(locals) ELSE starts[own + 1]
     IN code' = Append(code, [Instr("goto", LastOf(loops)) EXCEPT
                                !.act = a, !.skips = {locals[k] : k \in kept + 1 .. Len(locals)}])
  /\ stmts' = stmts + 1
  /\ UNCHANGED <<kind, locals, starts, loops, suites, run>>

\* The iterables of the for loops around are not registered.
Iterables == {s.id - 1 : s \in {suites[k] : k \in {j \in DOMAIN suites : suites[j].kind = "for"}}}

Return(emitted, skipped) ==
  /\ Walking
  /\ code' = code \o emitted \o <<[Instr("return", 0) EXCEPT !.skips = skipped \cup Iterables]>>
  /\ suites' = [suites EXCEPT ![Len(suites)].returns = TRUE]
  /\ stmts' = stmts + 1
  /\ UNCHANGED <<kind, locals, starts, loops, run>>

ReturnNone == kind = "none" /\ Return(Live, {})

\* Variant with a fault: only the innermost scope is released.
ReturnLocalInner(n) ==
  /\ kind = "managed" /\ InScope(n) # {}
  /\ Return(<<Instr("take", Visible(n))>> \o ScopeReleases, {})

\* return n: the local's value is retained, then every live local released.
ReturnLocal(n) ==
  /\ kind = "managed" /\ InScope(n) # {}
  /\ Return(<<Instr("take", Visible(n))>> \o Live, {})

\* A value that is not managed is returned without any release.
ReturnValue == kind = "value" /\ Return(<< >>, {locals[k] : k \in DOMAIN locals})

\* Only a function without a value may reach its end; then it is called.
EndFunction ==
  /\ Len(suites) = 1
  /\ kind # "none" => suites[1].returns
  /\ code' = code \o Live \o <<Instr("return", 0)>>
  /\ PopScope
  /\ suites' = << >> /\ starts' = << >>
  /\ pc' = 1 /\ refs' = [k \in DOMAIN code' |-> 0]
  /\ UNCHANGED <<kind, loops, stmts, action, result, bad, leaked>>

Generate ==
  \/ \E n \in Name : Declare(n) \/ BeginFor(n) \/ BeginWith(n) \/ ReturnLocal(n)
  \/ \E k \in {"else", "last"} : Branch(k)
  \/ \E a \in {1, 2} : Jump(a)
  \/ BeginIf \/ EndIf \/ BeginWhile \/ EndLoop \/ EndWith
  \/ ReturnNone \/ ReturnValue \/ EndFunction

-----------------------------------------------------------------------------
(***************************************************************************)
(* The emitted function.                                                   *)
(***************************************************************************)
Does(op) == pc # 0 /\ code[pc].op = op
Ins == code[pc]
Find(op, id) == CHOOSE k \in DOMAIN code : code[k].op = op /\ code[k].id = id
Step == pc' = pc + 1

DoDeclare ==
  /\ Does("declare")
  /\ refs' = [refs EXCEPT ![pc] = 1]
  /\ Step
  /\ UNCHANGED <<gen, action, result, bad, leaked>>

\* decref of a local that holds no reference is undefined: it is recorded.
DoRelease ==
  /\ Does("release")
  /\ IF refs[Ins.id] > 0
     THEN refs' = [refs EXCEPT ![Ins.id] = @ - 1] /\ UNCHANGED bad
     ELSE bad' = bad \cup {pc} /\ UNCHANGED refs
  /\ Step
  /\ UNCHANGED <<gen, action, result, leaked>>

DoTake ==
  /\ Does("take")
  /\ refs' = [refs EXCEPT ![Ins.id] = @ + 1]
  /\ bad' = IF refs[Ins.id] > 0 THEN bad ELSE bad \cup {pc}
  /\ result' = Ins.id
  /\ Step
  /\ UNCHANGED <<gen, action, leaked>>

\* The test of an if chain selects a branch, or none when all have a test.
DoIf ==
  /\ Does("if")
  /\ \/ Step
     \/ \E k \in DOMAIN code :
          /\ code[k].op \in {"else", "last"} /\ code[k].id = pc
          /\ pc' = k + 1
     \/ /\ ~\E k \in DOMAIN code : code[k] = Instr("last", pc)
        /\ pc' = Find("end", pc)
  /\ UNCHANGED <<gen, refs, action, result, bad, leaked>>

\* The end of a branch that is not the chain's last.
DoElse ==
  /\ Does("else") \/ Does("last")
  /\ pc' = Find("end", Ins.id)
  /\ UNCHANGED <<gen, refs, action, result, bad, leaked>>

DoMark ==
  /\ Does("end") \/ Does("label")
  /\ Step
  /\ UNCHANGED <<gen, refs, action, result, bad, leaked>>

DoLoop ==
  /\ Does("loop")
  /\ Step \/ pc' = Find("next", pc) + 1
  /\ UNCHANGED <<gen, refs, action, result, bad, leaked>>

DoGoto ==
  /\ Does("goto")
  /\ action' = Ins.act
  /\ pc' = Find("label", Ins.id)
  /\ UNCHANGED <<gen, refs, result, bad, leaked>>

\* The variables of the loop's body end with the iteration.
DoNext ==
  /\ Does("next")
  /\ LET body == Ins.id + 1 .. pc
     IN /\ leaked' = leaked \cup {d \in body : refs[d] > 0}
        /\ refs' = [d \in DOMAIN refs |-> IF d \in body THEN 0 ELSE refs[d]]
  /\ pc' = IF action = 1 THEN pc + 1 ELSE Ins.id
  /\ action' = 0
  /\ UNCHANGED <<gen, result, bad>>

DoReturn ==
  /\ Does("return")
  /\ leaked' = leaked \cup {d \in DOMAIN refs \ {result} : refs[d] > 0}
  /\ pc' = 0
  /\ UNCHANGED <<gen, refs, action, result, bad>>

Execute ==
  \/ DoDeclare \/ DoRelease \/ DoTake \/ DoIf \/ DoElse \/ DoMark
  \/ DoLoop \/ DoGoto \/ DoNext \/ DoReturn

Next == Generate \/ Execute

Spec == Init /\ [][Next]_vars

-----------------------------------------------------------------------------
Returned == suites = << >> /\ pc = 0

\* The C name in a release is bound by a declaration of an inner suite.
Shadowed(k) == code[k].op = "release" /\ code[k].id # code[k].local

\* A jump to the label of the loop in whose suite d is declared comes before
\* the declaration: the release behind the label meets a d without a value.
LateDeclared(d) ==
  \E g \in 1 .. d - 1 :
    /\ code[g].op = "goto" /\ code[g].id < d
    /\ \E r \in Find("label", code[g].id) .. Find("next", code[g].id) :
         code[r].op = "release" /\ code[r].local = d

\* On every path every release meets a local that holds a reference, except
\* where a name is shadowed or a jump comes before the declaration: the
\* releases at the end of branches, at labels and before returns never meet
\* the same local twice.
ReleasesSound == \A k \in bad : Shadowed(k) \/ LateDeclared(code[k].id)

\* What registering a local refuses in one scope ("registered twice") holds of
\* all releases: apart from jumps over a declaration, none is executed twice.
ReturnReleasesOnce == \A k \in bad : LateDeclared(code[k].id)

\* When an iteration or the function ends, every local of it was released,
\* except those a break, continue or return of the function skips: locals of
\* suites nested in the loop, all locals when a plain value is returned, the
\* iterables of the loops a return leaves, and a shadowed local.
LeaksExplained ==
  \A d \in leaked :
    \/ \E e \in DOMAIN code : d \in code[e].skips
    \/ \E k \in DOMAIN code : Shadowed(k) /\ code[k].local = d

\* The caller receives exactly one reference to the object returned, unless
\* the returned local shadows another one.
ResultOwned ==
  Returned /\ result # 0 =>
    refs[result] = 1 \/ \E k \in DOMAIN code : Shadowed(k) /\ code[k].id = result

\* The return analysis is right: a function that has a value to return never
\* runs into its closing brace.
NoFallThrough == pc # 0 /\ pc = Len(code) => kind = "none"
=============================================================================
