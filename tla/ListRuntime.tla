----------------------------- MODULE ListRuntime -----------------------------
(***************************************************************************)
(* The reference-counted list runtime that emit_list_runtime writes into   *)
(* every generated C program, together with the retain/release code that   *)
(* the statement generator puts around each use of it.                     *)
(*                                                                         *)
(* The elements are themselves managed, the general case being             *)
(*     class Node:  kids: list[Node]                                       *)
(* where a Node value, in a local or in a list, stands for the one pointer *)
(* it holds.  Releasing a list can release others: decref recurses.  The   *)
(* recursion is the variable stack; one step of the model is one iteration *)
(* of one of the runtime's loops.  A failing bounds check calls exit(1):   *)
(* the behaviour just ends there, so the index is a guard.                 *)
(***************************************************************************)
EXTENDS Naturals, Sequences, FiniteSets

CONSTANTS
  Obj,        (* addresses malloc can return for list headers              *)
  Var,        (* managed local variables of the running function           *)
  LoopVar,    (* the local that is the target of its for loop              *)
  NULL,       (* the null pointer, or a local that is not in scope         *)
  MaxLen,     (* bound: longest list                                       *)
  MaxLost     (* bound: references abandoned per object                    *)

ASSUME ObjAssumption   == IsFiniteSet(Obj) /\ NULL \notin Obj
ASSUME VarAssumption   == IsFiniteSet(Var) /\ LoopVar \in Var /\ NULL \notin Var
ASSUME BoundAssumption == MaxLen \in Nat /\ MaxLost \in Nat

VARIABLES
  rc,      (* rc[o]: the refcount field of the header at o                 *)
  mem,     (* mem[o]: "free", "live", or "dying" (inside decref, count 0)  *)
  items,   (* items[o]: items[0 .. len-1]                                  *)
  cursor,  (* cursor[o]: elements already released by decref's or clear's loop *)
  stack,   (* the recursive decref activations, innermost last             *)
  var,     (* var[v]: the pointer held by local v                          *)
  pc,      (* where the emitted statement being executed stands            *)
  dst,     (* target local of the assignment being executed                *)
  tmp,     (* the owned pointer in the statement's py4_tmp_N, if any       *)
  lst, at, (* receiver and index of the set or clear being executed        *)
  arg,     (* value argument of the set being executed                     *)
  args,    (* element values a from_values loop has still to copy          *)
  iter,    (* list held by the for loop being executed                     *)
  idx,     (* its index variable                                           *)
  lost     (* history: retained values that no pointer will ever release   *)

heap == <<rc, mem, stack, cursor>>
stmt == <<pc, dst, tmp, lst, at, arg, args>>
loop == <<iter, idx>>
vars == <<rc, mem, items, cursor, stack, var, pc, dst, tmp, lst, at, arg, args, iter, idx, lost>>

TypeOK ==
  /\ rc \in [Obj -> Nat]
  /\ mem \in [Obj -> {"free", "live", "dying"}]
  /\ items \in [Obj -> Seq(Obj)]
  /\ cursor \in [Obj -> Nat]
  /\ stack \in Seq(Obj)
  /\ var \in [Var -> Obj \cup {NULL}]
  /\ pc \in {"idle", "fill", "release", "store", "discard", "set", "replace", "clear"}
  /\ dst \in Var \cup {NULL}
  /\ tmp \in Obj \cup {NULL}
  /\ lst \in Obj \cup {NULL}
  /\ at \in Nat
  /\ arg \in Obj \cup {NULL}
  /\ args \in Seq(Obj)
  /\ iter \in Obj \cup {NULL}
  /\ idx \in Nat
  /\ lost \in [Obj -> Nat]

Init ==
  /\ rc = [o \in Obj |-> 0]
  /\ mem = [o \in Obj |-> "free"]
  /\ items = [o \in Obj |-> << >>]
  /\ cursor = [o \in Obj |-> 0]
  /\ stack = << >>
  /\ var = [v \in Var |-> NULL]
  /\ pc = "idle"
  /\ dst = NULL /\ tmp = NULL /\ lst = NULL /\ at = 0 /\ arg = NULL /\ args = << >>
  /\ iter = NULL /\ idx = 0
  /\ lost = [o \in Obj |-> 0]

(***************************************************************************)
(* The refcount primitives.                                                *)
(***************************************************************************)
IncRef(o) == rc' = [rc EXCEPT ![o] = @ + 1] /\ UNCHANGED <<mem, stack, cursor>>

\* decref up to the test of the count; at zero the element loop is entered.
Drop(o) ==
  /\ rc' = [rc EXCEPT ![o] = @ - 1]
  /\ IF rc[o] = 1
     THEN mem' = [mem EXCEPT ![o] = "dying"] /\ stack' = Append(stack, o)
     ELSE UNCHANGED <<mem, stack>>

DecRef(o) ==
  /\ IF o = NULL THEN UNCHANGED <<rc, mem, stack>> ELSE Drop(o)
  /\ UNCHANGED cursor

New(o) ==
  /\ mem[o] = "free"
  /\ mem' = [mem EXCEPT ![o] = "live"]
  /\ rc' = [rc EXCEPT ![o] = 1]
  /\ UNCHANGED <<stack, cursor>>

(***************************************************************************)
(* The recursive decref.                                                   *)
(***************************************************************************)
Top == stack[Len(stack)]

\* One iteration of the loop that releases the elements of a dying list.
\* The cursor of the activation advances before the recursive call.
ReleaseElement ==
  /\ stack # << >>
  /\ cursor[Top] < Len(items[Top])
  /\ Drop(items[Top][cursor[Top] + 1])
  /\ cursor' = [cursor EXCEPT ![Top] = @ + 1]
  /\ UNCHANGED <<items, var, stmt, loop, lost>>

\* free(list->items); free(list); return to the caller.
FreeList ==
  /\ stack # << >>
  /\ cursor[Top] = Len(items[Top])
  /\ mem' = [mem EXCEPT ![Top] = "free"]
  /\ items' = [items EXCEPT ![Top] = << >>]
  /\ cursor' = [cursor EXCEPT ![Top] = 0]
  /\ stack' = SubSeq(stack, 1, Len(stack) - 1)
  /\ UNCHANGED <<rc, var, stmt, loop, lost>>

(***************************************************************************)
(* Statements.  A statement starts when the previous one is finished and   *)
(* goes on when the decref it called has returned.                         *)
(***************************************************************************)
At(p) == pc = p /\ stack = << >>
Holds(v) == var[v] # NULL

\* The end of a statement: its temporaries go out of use.
Done ==
  /\ pc' = "idle" /\ dst' = NULL /\ tmp' = NULL
  /\ lst' = NULL /\ at' = 0 /\ arg' = NULL /\ args' = << >>

\* T py4_tmp = <owned value o>;  the target's old value is released next.
Evaluated(v, o) ==
  /\ pc' = "release" /\ dst' = v /\ tmp' = o
  /\ UNCHANGED <<lst, at, arg, args>>

\* Variant with a fault: the borrowed value is not retained.
AssignVarUnretained(v, w) ==
  /\ At("idle") /\ Holds(w)
  /\ Evaluated(v, var[w])
  /\ UNCHANGED <<heap, items, var, loop, lost>>

\* v = <borrowed value o>: the temporary is retained.
AssignVar(v, w) ==
  /\ At("idle") /\ Holds(w)
  /\ IncRef(var[w])
  /\ Evaluated(v, var[w])
  /\ UNCHANGED <<items, var, loop, lost>>

\* Variant with a fault: get hands out the list's own reference.
AssignGetUnretained(v, w, i) ==
  /\ At("idle") /\ Holds(w)
  /\ i \in 1 .. Len(items[var[w]])
  /\ Evaluated(v, items[var[w]][i])
  /\ UNCHANGED <<heap, items, var, loop, lost>>

\* v = w[i]: get retains the element it returns.
AssignGet(v, w, i) ==
  /\ At("idle") /\ Holds(w)
  /\ i \in 1 .. Len(items[var[w]])
  /\ IncRef(items[var[w]][i])
  /\ Evaluated(v, items[var[w]][i])
  /\ UNCHANGED <<items, var, loop, lost>>

ButLast(s) == SubSeq(s, 1, Len(s) - 1)

\* w.pop(): the slot's reference moves to the caller.
PopItem(l) ==
  /\ items[l] # << >>
  /\ items' = [items EXCEPT ![l] = ButLast(@)]

AssignPop(v, w) ==
  /\ At("idle") /\ Holds(w)
  /\ PopItem(var[w])
  /\ Evaluated(v, items[var[w]][Len(items[var[w]])])
  /\ UNCHANGED <<heap, var, loop, lost>>

\* v = from_values(n, values): the header is allocated, the loop starts.
AssignValues(v, o, values) ==
  /\ At("idle")
  /\ Len(values) <= MaxLen
  /\ New(o)
  /\ pc' = "fill" /\ dst' = v /\ tmp' = o /\ args' = values
  /\ UNCHANGED <<items, var, lst, at, arg, loop, lost>>

\* v = [w1, .., wn]
AssignLiteral(v, o, ws) ==
  /\ \A i \in DOMAIN ws : Holds(ws[i])
  /\ AssignValues(v, o, [i \in DOMAIN ws |-> var[ws[i]]])

\* v = w.copy()
AssignCopy(v, o, w) == Holds(w) /\ AssignValues(v, o, items[var[w]])

\* One iteration of from_values: store and retain.
FillStep ==
  /\ At("fill") /\ args # << >>
  /\ items' = [items EXCEPT ![tmp] = Append(@, Head(args))]
  /\ IncRef(Head(args))
  /\ args' = Tail(args)
  /\ UNCHANGED <<var, pc, dst, tmp, lst, at, arg, loop, lost>>

FillDone ==
  /\ At("fill") /\ args = << >>
  /\ pc' = "release"
  /\ UNCHANGED <<heap, items, var, dst, tmp, lst, at, arg, args, loop, lost>>

\* decref(v); then v = py4_tmp.
ReleaseTarget ==
  /\ At("release")
  /\ DecRef(var[dst])
  /\ pc' = "store"
  /\ UNCHANGED <<items, var, dst, tmp, lst, at, arg, args, loop, lost>>

StoreTarget ==
  /\ At("store")
  /\ var' = [var EXCEPT ![dst] = tmp]
  /\ Done
  /\ UNCHANGED <<heap, items, loop, lost>>

\* An expression statement with an owned value: w[i] or w.pop() alone.
ToDiscard(o) == pc' = "discard" /\ tmp' = o /\ UNCHANGED <<dst, lst, at, arg, args>>

DiscardGet(w, i) ==
  /\ At("idle") /\ Holds(w)
  /\ i \in 1 .. Len(items[var[w]])
  /\ IncRef(items[var[w]][i])
  /\ ToDiscard(items[var[w]][i])
  /\ UNCHANGED <<items, var, loop, lost>>

DiscardPop(w) ==
  /\ At("idle") /\ Holds(w)
  /\ PopItem(var[w])
  /\ ToDiscard(items[var[w]][Len(items[var[w]])])
  /\ UNCHANGED <<heap, var, loop, lost>>

DiscardTemp ==
  /\ At("discard")
  /\ DecRef(tmp)
  /\ Done
  /\ UNCHANGED <<items, var, loop, lost>>

\* Variant with a fault: append does not retain.
AppendVarUnretained(w, u) ==
  /\ At("idle") /\ Holds(w) /\ Holds(u)
  /\ Len(items[var[w]]) < MaxLen
  /\ items' = [items EXCEPT ![var[w]] = Append(@, var[u])]
  /\ UNCHANGED <<heap, var, stmt, loop, lost>>

\* w.append(u): the list retains the value.
AppendVar(w, u) ==
  /\ At("idle") /\ Holds(w) /\ Holds(u)
  /\ Len(items[var[w]]) < MaxLen
  /\ items' = [items EXCEPT ![var[w]] = Append(@, var[u])]
  /\ IncRef(var[u])
  /\ UNCHANGED <<var, stmt, loop, lost>>

\* Variant with a fault: append of an owned value does not retain it.
AppendGetOnce(w, u, i) ==
  /\ At("idle") /\ Holds(w) /\ Holds(u)
  /\ i \in 1 .. Len(items[var[u]])
  /\ Len(items[var[w]]) < MaxLen
  /\ LET e == items[var[u]][i]
     IN /\ lost[e] < MaxLost
        /\ items' = [items EXCEPT ![var[w]] = Append(@, e)]
        /\ rc' = [rc EXCEPT ![e] = @ + 1]
        /\ lost' = [lost EXCEPT ![e] = @ + 1]
  /\ UNCHANGED <<mem, stack, cursor, var, stmt, loop>>

\* w.append(u[i]): the argument is emitted inline, so the reference that get
\* took is held by nothing when append has retained the value again.
AppendGet(w, u, i) ==
  /\ At("idle") /\ Holds(w) /\ Holds(u)
  /\ i \in 1 .. Len(items[var[u]])
  /\ Len(items[var[w]]) < MaxLen
  /\ LET e == items[var[u]][i]
     IN /\ lost[e] < MaxLost
        /\ items' = [items EXCEPT ![var[w]] = Append(@, e)]
        /\ rc' = [rc EXCEPT ![e] = @ + 2]
        /\ lost' = [lost EXCEPT ![e] = @ + 1]
  /\ UNCHANGED <<mem, stack, cursor, var, stmt, loop>>

\* w[i] = e: set first releases the element it overwrites.
SetItem(l, i, e) ==
  /\ At("idle")
  /\ pc' = "replace" /\ lst' = l /\ at' = i /\ arg' = e
  /\ UNCHANGED <<items, var, dst, args, loop, lost>>

SetVar(w, i, u) ==
  /\ Holds(w) /\ Holds(u)
  /\ i \in 1 .. Len(items[var[w]])
  /\ DecRef(items[var[w]][i])
  /\ SetItem(var[w], i, var[u])
  /\ UNCHANGED tmp

\* w[i] = u[j]: the C argument holds the reference get took (tmp), evaluated
\* before set releases the old element.
EvalGet(w, i, u, j) ==
  /\ At("idle") /\ Holds(w) /\ Holds(u)
  /\ i \in 1 .. Len(items[var[w]])
  /\ j \in 1 .. Len(items[var[u]])
  /\ LET e == items[var[u]][j]
     IN /\ lost[e] < MaxLost
        /\ IncRef(e)
        /\ tmp' = e /\ arg' = e
  /\ pc' = "set" /\ lst' = var[w] /\ at' = i
  /\ UNCHANGED <<items, var, dst, args, loop, lost>>

SetGet ==
  /\ At("set")
  /\ DecRef(items[lst][at])
  /\ pc' = "replace"
  /\ UNCHANGED <<items, var, dst, tmp, lst, at, arg, args, loop, lost>>

\* list->items[index] = value; retain it.  An owned value keeps one more.
ReplaceStore ==
  /\ At("replace")
  /\ items' = [items EXCEPT ![lst][at] = arg]
  /\ IncRef(arg)
  /\ lost' = IF tmp = NULL THEN lost ELSE [lost EXCEPT ![tmp] = @ + 1]
  /\ Done
  /\ UNCHANGED <<var, loop>>

\* w.clear(): release every element, then len = 0.
Clear(w) ==
  /\ At("idle") /\ Holds(w)
  /\ pc' = "clear" /\ lst' = var[w]
  /\ UNCHANGED <<heap, items, var, dst, tmp, at, arg, args, loop, lost>>

ClearStep ==
  /\ At("clear") /\ cursor[lst] < Len(items[lst])
  /\ Drop(items[lst][cursor[lst] + 1])
  /\ cursor' = [cursor EXCEPT ![lst] = @ + 1]
  /\ UNCHANGED <<items, var, stmt, loop, lost>>

\* Variant with a fault: the loop of clear tests its condition at the end.
ClearDoneNonEmpty ==
  /\ At("clear") /\ cursor[lst] = Len(items[lst]) /\ cursor[lst] > 0
  /\ items' = [items EXCEPT ![lst] = << >>]
  /\ cursor' = [cursor EXCEPT ![lst] = 0]
  /\ Done
  /\ UNCHANGED <<rc, mem, stack, var, loop, lost>>

ClearDone ==
  /\ At("clear") /\ cursor[lst] = Len(items[lst])
  /\ items' = [items EXCEPT ![lst] = << >>]
  /\ cursor' = [cursor EXCEPT ![lst] = 0]
  /\ Done
  /\ UNCHANGED <<rc, mem, stack, var, loop, lost>>

\* Variant with a fault: the local was not registered for cleanup.
DropVarUnregistered(v) ==
  /\ At("idle") /\ Holds(v)
  /\ var' = [var EXCEPT ![v] = NULL]
  /\ UNCHANGED <<heap, items, stmt, loop, lost>>

\* The end of the scope that declared v.
DropVar(v) ==
  /\ At("idle") /\ Holds(v)
  /\ DecRef(var[v])
  /\ var' = [var EXCEPT ![v] = NULL]
  /\ UNCHANGED <<items, stmt, loop, lost>>

\* Variant with a fault: a borrowed iterable is not retained.
ForStartBorrowed(o) ==
  /\ At("idle") /\ iter = NULL
  /\ ~Holds(LoopVar)
  /\ iter' = o /\ idx' = 0
  /\ UNCHANGED <<heap, items, var, stmt, lost>>

\* for LoopVar in w / in w[i]: the loop holds one reference to the list.
ForStart(o) ==
  /\ At("idle") /\ iter = NULL
  /\ ~Holds(LoopVar)
  /\ IncRef(o)
  /\ iter' = o /\ idx' = 0
  /\ UNCHANGED <<items, var, stmt, lost>>

ForVar(w) == Holds(w) /\ ForStart(var[w])
ForGet(w, i) ==
  /\ Holds(w)
  /\ i \in 1 .. Len(items[var[w]])
  /\ ForStart(items[var[w]][i])

\* The length is read again before each iteration; the target is declared
\* with the reference that get takes.
ForNext ==
  /\ At("idle") /\ iter # NULL /\ ~Holds(LoopVar)
  /\ idx < Len(items[iter])
  /\ IncRef(items[iter][idx + 1])
  /\ var' = [var EXCEPT ![LoopVar] = items[iter][idx + 1]]
  /\ idx' = idx + 1
  /\ UNCHANGED <<items, stmt, iter, lost>>

\* Exhausted, or left by a break once the target's scope has been cleaned up.
ForEnd ==
  /\ At("idle") /\ iter # NULL /\ ~Holds(LoopVar)
  /\ idx >= Len(items[iter]) \/ idx > 0
  /\ DecRef(iter)
  /\ iter' = NULL /\ idx' = 0
  /\ UNCHANGED <<items, var, stmt, lost>>

-----------------------------------------------------------------------------
\* The decrefs and loops a running statement has still to execute.
Runtime ==
  \/ ReleaseElement \/ FreeList
  \/ FillStep \/ FillDone \/ ReleaseTarget \/ StoreTarget \/ DiscardTemp
  \/ SetGet \/ ReplaceStore \/ ClearStep \/ ClearDone

Declarable(v) == v # LoopVar \/ Holds(v)

Assignment ==
  \E v \in Var :
    /\ Declarable(v)
    /\ \/ \E w \in Var : AssignVar(v, w) \/ AssignPop(v, w)
       \/ \E w \in Var, i \in 1 .. MaxLen : AssignGet(v, w, i)
       \/ \E o \in Obj, n \in 0 .. MaxLen : \E ws \in [1 .. n -> Var] : AssignLiteral(v, o, ws)
       \/ \E o \in Obj, w \in Var : AssignCopy(v, o, w)

Statement ==
  \/ \E w \in Var, i \in 1 .. MaxLen : DiscardGet(w, i) \/ ForGet(w, i)
  \/ \E w, u \in Var : AppendVar(w, u)
  \/ \E w, u \in Var, i \in 1 .. MaxLen : AppendGet(w, u, i) \/ SetVar(w, i, u)
  \/ \E w, u \in Var, i, j \in 1 .. MaxLen : EvalGet(w, i, u, j)
  \/ \E w \in Var : DiscardPop(w) \/ Clear(w) \/ DropVar(w) \/ ForVar(w)
  \/ ForNext \/ ForEnd

Next == Assignment \/ Statement \/ Runtime

Spec == Init /\ [][Next]_vars

\* A statement that has started is executed to its end: nothing in the
\* generated program can preempt it.
FairSpec == Spec /\ WF_vars(Runtime)

-----------------------------------------------------------------------------
(***************************************************************************)
(* The references the running program still owes a release for.           *)
(***************************************************************************)
One(p) == IF p THEN 1 ELSE 0

\* Locals that hold o; the one whose old value was just released does not.
VarRefs(o) == {v \in Var : var[v] = o /\ ~(pc = "store" /\ v = dst)}

\* Slots that hold o and are neither released by a loop nor being overwritten.
InUse(s) ==
  /\ cursor[s[1]] < s[2] /\ s[2] <= Len(items[s[1]])
  /\ ~(pc = "replace" /\ s = <<lst, at>>)

SlotRefs(o) == {s \in Obj \X (1 .. MaxLen) : InUse(s) /\ items[s[1]][s[2]] = o}

Refs(o) == Cardinality(VarRefs(o)) + Cardinality(SlotRefs(o))
             + One(tmp = o) + One(iter = o) + lost[o]

\* Every refcount is the number of references still to be released: no retain
\* is missing or done twice on any path of append, from_values, get, set, pop,
\* clear, decref, or of the assignments and loops emitted around them.
RefCountExact == \A o \in Obj : rc[o] = Refs(o)

\* No pointer the program can still read or release is to a freed list: the
\* release-before-store order of set and of assignments never frees the value
\* that is about to be stored.
NoDangling ==
  /\ \A o \in Obj : Refs(o) > 0 => mem[o] = "live"
  /\ arg # NULL => mem[arg] = "live"
  /\ lst # NULL => mem[lst] = "live"
  /\ \A i \in DOMAIN args : mem[args[i]] = "live"

-----------------------------------------------------------------------------
(***************************************************************************)
(* What makes RefCountExact inductive.                                     *)
(***************************************************************************)
\* A list is live while its count is positive, dying while an activation of
\* decref works on it (one activation per list), and free otherwise.
Lifecycle ==
  /\ \A o \in Obj : mem[o] = "live" <=> rc[o] > 0
  /\ \A o \in Obj : mem[o] = "dying" <=> \E i \in DOMAIN stack : stack[i] = o
  /\ \A i, j \in DOMAIN stack : stack[i] = stack[j] => i = j

\* Only the loops of decref and of clear release elements in place.
Contents ==
  \A o \in Obj :
    /\ Len(items[o]) <= MaxLen
    /\ cursor[o] <= Len(items[o])
    /\ mem[o] = "free" => items[o] = << >>
    /\ cursor[o] > 0 => mem[o] = "dying" \/ (pc = "clear" /\ o = lst)

\* Which temporaries each point of a statement has, and what keeps the lists
\* they point to alive.
Statements ==
  /\ pc \in {"idle", "clear"} => tmp = NULL
  /\ pc \in {"fill", "release", "store", "discard", "set"} => tmp # NULL
  /\ pc \in {"fill", "release", "store"} => dst \in Var
  /\ lst # NULL <=> pc \in {"set", "replace", "clear"}
  /\ arg # NULL <=> pc \in {"set", "replace"}
  /\ pc \in {"set", "replace"} => at \in 1 .. Len(items[lst])
  /\ pc = "set" => tmp = arg
  /\ pc = "replace" => tmp = arg \/ (tmp = NULL /\ \E v \in Var : var[v] = arg)
  /\ lst # NULL => \E v \in Var : var[v] = lst
  /\ args # << >> => pc = "fill"
  /\ pc = "fill" => /\ stack = << >>
                    /\ Len(items[tmp]) + Len(args) <= MaxLen
                    /\ \A i \in DOMAIN args : mem[args[i]] = "live"

IInv == TypeOK /\ RefCountExact /\ Lifecycle /\ Contents /\ Statements
=============================================================================
