----------------------------- MODULE DictRuntime -----------------------------
(***************************************************************************)
(* The dict[str, V] runtime that codegen_emit_dict_runtime writes into a   *)
(* generated program, V a managed type, with the statements around it.     *)
(*                                                                         *)
(* A dict keeps two parallel arrays in insertion order.  It owns a heap    *)
(* copy of every key, made when the key is inserted and freed when it is   *)
(* removed, and one reference to every value.  The strings a program reads *)
(* from a dict (the variable of a for loop) are the dict's own copies:     *)
(* strings are not managed.                                                *)
(*                                                                         *)
(* No function of the runtime calls the program back, so a call is one     *)
(* step, except that set on an existing key and an assignment are cut      *)
(* where they release a value before they use another.                     *)
(***************************************************************************)
EXTENDS Integers, Sequences, FiniteSets

CONSTANTS
  Dict,     (* addresses of dict headers                                   *)
  KeyAddr,  (* addresses of key copies                                     *)
  Text,     (* the contents of strings                                     *)
  Val,      (* addresses of values                                         *)
  Var,      (* locals that hold a dict                                     *)
  NULL,     (* the null pointer, or no content                             *)
  MaxLen,   (* bound: entries of a dict                                    *)
  MaxLost   (* bound: references abandoned, of the value that has lost most *)

ASSUME NullAssumption  == NULL \notin Dict \cup KeyAddr \cup Text \cup Val
ASSUME SizeAssumption  == /\ \A S \in {Dict, KeyAddr, Text, Val, Var} : IsFiniteSet(S)
                          /\ MaxLen \in Nat /\ MaxLost \in Nat

VARIABLES
  rc,       (* rc[d]: refcount of the header at d, 0 when it is not allocated *)
  keys,     (* keys[d]: addresses of the key copies                        *)
  values,   (* values[d]: the values, in parallel                          *)
  text,     (* text[a]: the string at a, NULL when a is not allocated      *)
  vrc,      (* vrc[v]: refcount of a value, 0 when it is not allocated     *)
  lost,     (* history: references to v that no pointer will ever release  *)
  var,      (* var[x]: the dict local x holds                              *)
  held,     (* the value held by a local of type V                         *)
  pending,  (* the rest of the statement being executed                    *)
  loop      (* the for loop being executed, with the history of its visits *)

store == <<rc, keys, values, text>>
vars == <<rc, keys, values, text, vrc, lost, var, held, pending, loop>>

\* What is left to do: store a value in the local, discard it, store a value
\* in an entry (set), store a dict in a local, or insert a literal's pairs.
Idle == [op |-> "idle"]

NoLoop == [dict |-> NULL, idx |-> 0, name |-> NULL, seen |-> << >>, kept |-> TRUE]

Init ==
  /\ rc = [d \in Dict |-> 0]
  /\ keys = [d \in Dict |-> << >>] /\ values = [d \in Dict |-> << >>]
  /\ text = [a \in KeyAddr |-> NULL]
  /\ vrc = [v \in Val |-> 0] /\ lost = [v \in Val |-> 0]
  /\ var = [x \in Var |-> NULL] /\ held = NULL
  /\ pending = Idle /\ loop = NoLoop

-----------------------------------------------------------------------------
\* find_index: the first entry whose key equals k, 0 if there is none.
Find(d, k) ==
  IF \E i \in DOMAIN keys[d] : text[keys[d][i]] = k
  THEN CHOOSE i \in DOMAIN keys[d] :
         /\ text[keys[d][i]] = k
         /\ \A j \in 1 .. i - 1 : text[keys[d][j]] # k
  ELSE 0

Has(d, k) == Find(d, k) # 0
Entries(d) == DOMAIN keys[d]
KeysOf(d) == {keys[d][i] : i \in Entries(d)}
Slots(d, v) == Cardinality({i \in Entries(d) : values[d][i] = v})

\* new returns an address that is not in use.
NewDict(d) == rc[d] = 0
NewKey(a) == text[a] = NULL
NewVal(v) == vrc[v] = 0

Bump(f, o, n) == [f EXCEPT ![o] = @ + n]
Without(s, i) == SubSeq(s, 1, i - 1) \o SubSeq(s, i + 1, Len(s))

\* Keys freed and values released, one reference per entry.
FreeKeys(d) == text' = [a \in KeyAddr |-> IF a \in KeysOf(d) THEN NULL ELSE text[a]]
ReleaseValues(d) == vrc' = [v \in Val |-> vrc[v] - Slots(d, v)]
Emptied(d) ==
  /\ FreeKeys(d) /\ ReleaseValues(d)
  /\ keys' = [keys EXCEPT ![d] = << >>] /\ values' = [values EXCEPT ![d] = << >>]

\* decref; NULL is ignored.
DecRef(d) ==
  IF d = NULL THEN UNCHANGED <<store, vrc>>
  ELSE /\ rc' = Bump(rc, d, -1)
       /\ IF rc[d] = 1 THEN Emptied(d) ELSE UNCHANGED <<keys, values, text, vrc>>

Ready == pending = Idle
Named(x) == Ready /\ var[x] # NULL
CanLose == \A v \in Val : lost[v] < MaxLost
Removing(d) == loop' = [loop EXCEPT !.kept = @ /\ d # loop.dict]
-----------------------------------------------------------------------------
(***************************************************************************)
(* Values.  "w = e" evaluates e into a temporary, releases the old value   *)
(* of w and stores; an expression statement discards.                      *)
(***************************************************************************)
Evaluated(v) == pending' = [op |-> "local", val |-> v]

StoreHeld ==
  /\ pending.op = "local"
  /\ vrc' = IF held = NULL THEN vrc ELSE Bump(vrc, held, -1)
  /\ held' = pending.val
  /\ pending' = Idle
  /\ UNCHANGED <<store, lost, var, loop>>

Discard ==
  /\ pending.op = "discard"
  /\ vrc' = Bump(vrc, pending.val, -1)
  /\ pending' = Idle
  /\ UNCHANGED <<store, lost, var, held, loop>>

\* w = [1]
AssignFresh(v) ==
  /\ Ready /\ NewVal(v)
  /\ vrc' = [vrc EXCEPT ![v] = 1]
  /\ Evaluated(v)
  /\ UNCHANGED <<store, lost, var, held, loop>>

\* w goes out of scope.
DropHeld ==
  /\ Ready /\ held # NULL
  /\ vrc' = Bump(vrc, held, -1) /\ held' = NULL
  /\ UNCHANGED <<store, lost, var, pending, loop>>

\* w = x.get(k): the value comes retained.
AssignGet(x, k) ==
  /\ Named(x) /\ Has(var[x], k)
  /\ LET v == values[var[x]][Find(var[x], k)]
     IN vrc' = Bump(vrc, v, 1) /\ Evaluated(v)
  /\ UNCHANGED <<store, lost, var, held, loop>>

\* w = x[k]: the same call, but an index is not taken for an owned value and
\* the assignment retains it once more.
AssignIndex(x, k) ==
  /\ Named(x) /\ Has(var[x], k)
  /\ LET v == values[var[x]][Find(var[x], k)]
     IN /\ CanLose
        /\ vrc' = Bump(vrc, v, 2) /\ lost' = Bump(lost, v, 1) /\ Evaluated(v)
  /\ UNCHANGED <<store, var, held, loop>>

\* w = x.get_or(k, w)
AssignGetOr(x, k) ==
  /\ Named(x) /\ held # NULL
  /\ LET v == IF Has(var[x], k) THEN values[var[x]][Find(var[x], k)] ELSE held
     IN vrc' = Bump(vrc, v, 1) /\ Evaluated(v)
  /\ UNCHANGED <<store, lost, var, held, loop>>

\* w = x.get_or(k, [1]): the fallback's own reference is never released.
AssignGetOrFresh(x, k, f) ==
  /\ Named(x) /\ NewVal(f) /\ CanLose
  /\ LET v == IF Has(var[x], k) THEN values[var[x]][Find(var[x], k)] ELSE f
     IN vrc' = Bump([vrc EXCEPT ![f] = 1], v, 1) /\ Evaluated(v)
  /\ lost' = Bump(lost, f, 1)
  /\ UNCHANGED <<store, var, held, loop>>

\* Variant with a fault: the last entry is moved into the hole.
PopSwap(x, k) ==
  /\ Named(x) /\ Has(var[x], k)
  /\ LET d == var[x]
         i == Find(d, k)
         moved(s) == SubSeq([s EXCEPT ![i] = s[Len(s)]], 1, Len(s) - 1)
     IN /\ text' = [text EXCEPT ![keys[d][i]] = NULL]
        /\ keys' = [keys EXCEPT ![d] = moved(@)]
        /\ values' = [values EXCEPT ![d] = moved(@)]
        /\ \E op \in {"local", "discard"} : pending' = [op |-> op, val |-> values[d][i]]
        /\ Removing(d)
  /\ UNCHANGED <<rc, vrc, lost, var, held>>

\* Variant with a fault: the value is not handed over but released.
PopReleased(x, k) ==
  /\ Named(x) /\ Has(var[x], k)
  /\ LET d == var[x]
         i == Find(d, k)
     IN /\ text' = [text EXCEPT ![keys[d][i]] = NULL]
        /\ keys' = [keys EXCEPT ![d] = Without(@, i)]
        /\ values' = [values EXCEPT ![d] = Without(@, i)]
        /\ vrc' = Bump(vrc, values[d][i], -1)
        /\ \E op \in {"local", "discard"} : pending' = [op |-> op, val |-> values[d][i]]
        /\ Removing(d)
  /\ UNCHANGED <<rc, lost, var, held>>

\* w = x.pop(k), x.pop(k): the key is freed, the entry's reference to the
\* value is handed over and the entries behind it move up.
Pop(x, k) ==
  /\ Named(x) /\ Has(var[x], k)
  /\ LET d == var[x]
         i == Find(d, k)
     IN /\ text' = [text EXCEPT ![keys[d][i]] = NULL]
        /\ keys' = [keys EXCEPT ![d] = Without(@, i)]
        /\ values' = [values EXCEPT ![d] = Without(@, i)]
        /\ \E op \in {"local", "discard"} : pending' = [op |-> op, val |-> values[d][i]]
        /\ Removing(d)
  /\ UNCHANGED <<rc, vrc, lost, var, held>>

-----------------------------------------------------------------------------
(***************************************************************************)
(* Entries.                                                                *)
(***************************************************************************)
\* A new entry: the key is copied, the value stored and retained.
Insert(d, k, v) ==
  /\ Len(keys[d]) < MaxLen
  /\ \E a \in {b \in KeyAddr : NewKey(b)} :
       /\ text' = [text EXCEPT ![a] = k]
       /\ keys' = [keys EXCEPT ![d] = Append(@, a)]
  /\ values' = [values EXCEPT ![d] = Append(@, v)]
  /\ UNCHANGED rc

\* Variant with a fault: the argument is the value the dict itself holds.
SetBorrowed(d, k, v, o) ==
  LET i == Find(d, k)
  IN IF i = 0
     THEN /\ Insert(d, k, v)
          /\ vrc' = Bump(vrc, v, 1) /\ UNCHANGED <<lost, pending>>
     ELSE /\ vrc' = Bump(vrc, values[d][i], -1)
          /\ pending' = [op |-> "slot", dict |-> d, at |-> i, val |-> v, owned |-> FALSE]
          /\ UNCHANGED <<store, lost>>

\* set(d, k, v): o references to v came with the argument (1 if it is an owned
\* value).  On an existing key the old value is released first; storing and
\* retaining the new one is StoreEntry.
Set(d, k, v, o) ==
  LET counts == Bump(vrc, v, o)
      i == Find(d, k)
  IN IF i = 0
     THEN /\ Insert(d, k, v)
          /\ vrc' = Bump(counts, v, 1) /\ lost' = Bump(lost, v, o)
          /\ UNCHANGED pending
     ELSE /\ vrc' = Bump(counts, values[d][i], -1)
          /\ pending' = [op |-> "slot", dict |-> d, at |-> i, val |-> v, owned |-> o = 1]
          /\ UNCHANGED <<store, lost>>

StoreEntry ==
  /\ pending.op = "slot"
  /\ values' = [values EXCEPT ![pending.dict][pending.at] = pending.val]
  /\ vrc' = Bump(vrc, pending.val, 1)
  /\ lost' = IF pending.owned THEN Bump(lost, pending.val, 1) ELSE lost
  /\ pending' = Idle
  /\ UNCHANGED <<rc, keys, text, var, held, loop>>

\* x[k] = w, x.set(k, w)
SetHeld(x, k) ==
  /\ Named(x) /\ held # NULL
  /\ Set(var[x], k, held, 0)
  /\ UNCHANGED <<var, held, loop>>

\* x[k] = [1]: the reference the literal came with is never released.
SetFresh(x, k, v) ==
  /\ Named(x) /\ NewVal(v) /\ CanLose
  /\ Set(var[x], k, v, 1)
  /\ UNCHANGED <<var, held, loop>>

\* x[k] = y[l], x[k] = y.get(l): so is the one get adds.
SetGet(x, k, y, l) ==
  /\ Named(x) /\ Named(y) /\ Has(var[y], l)
  /\ LET v == values[var[y]][Find(var[y], l)]
     IN CanLose /\ Set(var[x], k, v, 1)
  /\ UNCHANGED <<var, held, loop>>

Clear(x) ==
  /\ Named(x)
  /\ Emptied(var[x])
  /\ Removing(var[x])
  /\ UNCHANGED <<rc, lost, var, held, pending>>

-----------------------------------------------------------------------------
(***************************************************************************)
(* Dicts.  "x = e" evaluates e, releases the old dict of x and stores.     *)
(***************************************************************************)
Assigning(x, d) == pending' = [op |-> "assign", to |-> x, dict |-> d]

StoreDict ==
  /\ pending.op = "assign"
  /\ DecRef(var[pending.to])
  /\ var' = [var EXCEPT ![pending.to] = pending.dict]
  /\ pending' = Idle
  /\ UNCHANGED <<lost, held, loop>>

\* x = y
AssignVar(x, y) ==
  /\ Named(y)
  /\ rc' = Bump(rc, var[y], 1)
  /\ Assigning(x, var[y])
  /\ UNCHANGED <<keys, values, text, vrc, lost, var, held, loop>>

\* Variant with a fault: the copy shares the keys.
AssignCopyShared(x, y, d) ==
  /\ Named(y) /\ NewDict(d)
  /\ rc' = [rc EXCEPT ![d] = 1]
  /\ keys' = [keys EXCEPT ![d] = keys[var[y]]]
  /\ values' = [values EXCEPT ![d] = values[var[y]]]
  /\ vrc' = [v \in Val |-> vrc[v] + Slots(var[y], v)]
  /\ Assigning(x, d)
  /\ UNCHANGED <<text, lost, var, held, loop>>

\* x = y.copy(): keys are copied, values shared.
AssignCopy(x, y, d) ==
  /\ Named(y) /\ NewDict(d)
  /\ rc' = [rc EXCEPT ![d] = 1]
  /\ \E to \in [Entries(var[y]) -> {a \in KeyAddr : NewKey(a)}] :
       /\ \A i, j \in DOMAIN to : to[i] = to[j] => i = j
       /\ keys' = [keys EXCEPT ![d] = to]
       /\ text' = [a \in KeyAddr |-> IF \E i \in DOMAIN to : to[i] = a
                                     THEN text[keys[var[y]][CHOOSE i \in DOMAIN to : to[i] = a]]
                                     ELSE text[a]]
  /\ values' = [values EXCEPT ![d] = values[var[y]]]
  /\ vrc' = [v \in Val |-> vrc[v] + Slots(var[y], v)]
  /\ Assigning(x, d)
  /\ UNCHANGED <<lost, var, held, loop>>

\* x = {k1: w, k2: w, ...}
AssignLiteral(x, d, ks) ==
  /\ Ready /\ NewDict(d) /\ (ks = << >> \/ held # NULL)
  /\ Len(ks) <= Cardinality({a \in KeyAddr : NewKey(a)})
  /\ rc' = [rc EXCEPT ![d] = 1]
  /\ pending' = [op |-> "fill", to |-> x, dict |-> d, keys |-> ks]
  /\ UNCHANGED <<keys, values, text, vrc, lost, var, held, loop>>

\* from_pairs calls set for each pair; a key that comes again gets the same
\* value w, which is released, stored and retained.
FillPair ==
  /\ pending.op = "fill" /\ pending.keys # << >>
  /\ IF Has(pending.dict, Head(pending.keys))
     THEN UNCHANGED <<store, vrc>>
     ELSE Insert(pending.dict, Head(pending.keys), held) /\ vrc' = Bump(vrc, held, 1)
  /\ pending' = [pending EXCEPT !.keys = Tail(@)]
  /\ UNCHANGED <<lost, var, held, loop>>

Filled ==
  /\ pending.op = "fill" /\ pending.keys = << >>
  /\ Assigning(pending.to, pending.dict)
  /\ UNCHANGED <<store, vrc, lost, var, held, loop>>

\* x goes out of scope.
DropVar(x) ==
  /\ Named(x)
  /\ DecRef(var[x]) /\ var' = [var EXCEPT ![x] = NULL]
  /\ UNCHANGED <<lost, held, pending, loop>>

-----------------------------------------------------------------------------
(***************************************************************************)
(* for k in x: holds a reference to the dict and counts through its        *)
(* entries; any statement can come between two iterations.                 *)
(***************************************************************************)
\* Variant with a fault: the loop does not hold the dict.
ForStartBorrowed(x) ==
  /\ Named(x) /\ loop = NoLoop
  /\ loop' = [NoLoop EXCEPT !.dict = var[x]]
  /\ UNCHANGED <<store, vrc, lost, var, held, pending>>

ForStart(x) ==
  /\ Named(x) /\ loop = NoLoop
  /\ rc' = Bump(rc, var[x], 1)
  /\ loop' = [NoLoop EXCEPT !.dict = var[x]]
  /\ UNCHANGED <<keys, values, text, vrc, lost, var, held, pending>>

\* k = key_at(d, i): the dict's own string.
ForNext ==
  /\ Ready /\ loop.dict # NULL
  /\ loop.idx < Len(keys[loop.dict])
  /\ LET a == keys[loop.dict][loop.idx + 1]
     IN loop' = [loop EXCEPT !.idx = @ + 1, !.name = a, !.seen = Append(@, text[a])]
  /\ UNCHANGED <<store, vrc, lost, var, held, pending>>

\* The test fails, or the body breaks.
ForEnd ==
  /\ Ready /\ loop.dict # NULL
  /\ DecRef(loop.dict)
  /\ loop' = NoLoop
  /\ UNCHANGED <<lost, var, held, pending>>

-----------------------------------------------------------------------------
Literals == UNION {[1 .. n -> Text] : n \in 0 .. MaxLen}

ValueStatement ==
  \/ StoreHeld \/ Discard \/ DropHeld
  \/ \E v \in Val : AssignFresh(v)
  \/ \E x \in Var, k \in Text :
       \/ AssignGet(x, k) \/ AssignIndex(x, k) \/ AssignGetOr(x, k) \/ Pop(x, k)
       \/ \E f \in Val : AssignGetOrFresh(x, k, f)

EntryStatement ==
  \/ StoreEntry
  \/ \E x \in Var : Clear(x)
  \/ \E x \in Var, k \in Text :
       \/ SetHeld(x, k)
       \/ \E v \in Val : SetFresh(x, k, v)
       \/ \E y \in Var, l \in Text : SetGet(x, k, y, l)

DictStatement ==
  \/ StoreDict \/ FillPair \/ Filled
  \/ \E x \in Var : DropVar(x)
  \/ \E x, y \in Var : AssignVar(x, y) \/ \E d \in Dict : AssignCopy(x, y, d)
  \/ \E x \in Var, d \in Dict, ks \in Literals : AssignLiteral(x, d, ks)

ForStatement == ForNext \/ ForEnd \/ \E x \in Var : ForStart(x)

Next == ValueStatement \/ EntryStatement \/ DictStatement \/ ForStatement

Spec == Init /\ [][Next]_vars

-----------------------------------------------------------------------------
One(b) == IF b THEN 1 ELSE 0

\* A key that a set is replacing the value of: the old value is gone already.
Open(d, i) == pending.op = "slot" /\ pending.dict = d /\ pending.at = i

Places == UNION {{d} \X Entries(d) : d \in Dict}
Names(d) == {x \in Var : var[x] = d}
Holders(v) == {p \in Places : values[p[1]][p[2]] = v /\ ~Open(p[1], p[2])}

\* References that are not in a local, or not in a dict.
Passing(d) ==
  One(loop.dict = d) + One(pending.op \in {"assign", "fill"} /\ pending.dict = d)

Loose(v) ==
  One(held = v) + One(pending.op \in {"local", "discard"} /\ pending.val = v)
    + One(pending.op = "slot" /\ pending.val = v /\ pending.owned) + lost[v]

DictRefs(d) == Cardinality(Names(d)) + Passing(d)
ValueRefs(v) == Cardinality(Holders(v)) + Loose(v)

(***************************************************************************)
(* Every reference count is the number of pointers that will be released,  *)
(* plus the references the emitted code has abandoned: no path through the *)
(* runtime forgets a retain or a release.                                  *)
(***************************************************************************)
CountsExact ==
  /\ \A d \in Dict : rc[d] = DictRefs(d)
  /\ \A v \in Val : vrc[v] = ValueRefs(v)

(***************************************************************************)
(* Whatever a local, an entry, a temporary or a loop points to is          *)
(* allocated, also between the release of an old value and the store of    *)
(* the new one.                                                            *)
(***************************************************************************)
NoDangling ==
  /\ \A x \in Var : var[x] # NULL => rc[var[x]] > 0
  /\ loop.dict # NULL => rc[loop.dict] > 0
  /\ pending.op \in {"slot", "assign", "fill"} => rc[pending.dict] > 0
  /\ pending.op \in {"local", "discard", "slot"} => vrc[pending.val] > 0
  /\ held # NULL => vrc[held] > 0
  /\ \A d \in Dict : \A i \in Entries(d) : Open(d, i) \/ vrc[values[d][i]] > 0

(***************************************************************************)
(* Every key copy belongs to exactly one entry of one dict, so it is freed *)
(* once and neither leaks nor is shared (copy, literals, pop and set of an *)
(* existing key); and no dict holds two entries with equal keys, which get *)
(* and pop would tell apart by position.                                   *)
(***************************************************************************)
KeysOwnedOnce ==
  /\ \A a \in KeyAddr :
       Cardinality({p \in Places : keys[p[1]][p[2]] = a}) = One(text[a] # NULL)
  /\ \A d \in Dict : \A i, j \in Entries(d) : text[keys[d][i]] = text[keys[d][j]] => i = j

(***************************************************************************)
(* A for loop whose body removes no entry of the dict visits the entries   *)
(* in insertion order, each once, those the body adds included, whatever   *)
(* it does to the local that named the dict; and its variable can be read. *)
(* (After a pop or clear of that dict neither holds: the variable may      *)
(* point to freed memory and the entry after the removed one is skipped.)  *)
(***************************************************************************)
LoopFaithful ==
  loop.dict # NULL /\ loop.kept =>
    /\ loop.idx <= Len(keys[loop.dict])
    /\ loop.seen = [i \in 1 .. loop.idx |-> text[keys[loop.dict][i]]]
    /\ \A i, j \in DOMAIN loop.seen : loop.seen[i] = loop.seen[j] => i = j
    /\ loop.idx > 0 => text[loop.name] = loop.seen[loop.idx]

-----------------------------------------------------------------------------
(***************************************************************************)
(* What makes the four inductive.                                          *)
(***************************************************************************)
Pending ==
  {Idle} \cup [op : {"local", "discard"}, val : Val]
    \cup [op : {"slot"}, dict : Dict, at : Nat, val : Val, owned : BOOLEAN]
    \cup [op : {"assign"}, to : Var, dict : Dict]
    \cup [op : {"fill"}, to : Var, dict : Dict, keys : Seq(Text)]

TypeOK ==
  /\ rc \in [Dict -> Nat] /\ vrc \in [Val -> Nat] /\ lost \in [Val -> Nat]
  /\ keys \in [Dict -> Seq(KeyAddr)] /\ values \in [Dict -> Seq(Val)]
  /\ text \in [KeyAddr -> Text \cup {NULL}]
  /\ var \in [Var -> Dict \cup {NULL}] /\ held \in Val \cup {NULL}
  /\ pending \in Pending
  /\ loop \in [dict : Dict \cup {NULL}, idx : Nat, name : KeyAddr \cup {NULL},
              seen : Seq(Text), kept : BOOLEAN]

\* The two arrays are parallel, and those of a freed dict are gone.
Arrays ==
  \A d \in Dict :
    /\ Len(keys[d]) = Len(values[d]) /\ Len(keys[d]) <= MaxLen
    /\ rc[d] = 0 => keys[d] = << >>

\* Entries have key copies of their own, with texts of their own in a dict,
\* and no other copy exists.
Owned ==
  /\ \A d \in Dict : \A i \in Entries(d) : text[keys[d][i]] # NULL
  /\ \A a \in KeyAddr : text[a] # NULL => \E d \in Dict : a \in KeysOf(d)
  /\ \A d, e \in Dict : \A i \in Entries(d), j \in Entries(e) :
       keys[d][i] = keys[e][j] => d = e /\ i = j
  /\ \A d \in Dict : \A i, j \in Entries(d) : text[keys[d][i]] = text[keys[d][j]] => i = j

\* Who keeps alive what the rest of a statement works on.
Statements ==
  /\ pending.op = "slot" =>
       /\ pending.at \in Entries(pending.dict) /\ rc[pending.dict] > 0
       /\ pending.owned \/ pending.val = held
  /\ pending.op = "fill" => pending.keys = << >> \/ held # NULL

\* The loop has visited the first idx entries and holds the key of the last.
Visits ==
  loop.dict # NULL /\ loop.kept =>
    /\ loop.idx <= Len(keys[loop.dict])
    /\ loop.seen = [i \in 1 .. loop.idx |-> text[keys[loop.dict][i]]]
    /\ loop.idx > 0 => loop.name = keys[loop.dict][loop.idx]

IInv == TypeOK /\ CountsExact /\ Arrays /\ Owned /\ Statements /\ Visits
=============================================================================
