---------------------------- MODULE DictRefinement ----------------------------
(***************************************************************************)
(* DictRuntime implements OrderedMaps: the parallel arrays and the key     *)
(* copies are an ordered map, whatever sequence of insertions, removals    *)
(* and copies made them.                                                   *)
(***************************************************************************)
EXTENDS DictRuntime

Maps == INSTANCE OrderedMaps WITH
  map <- << >>, local <- << >>, fresh <- NULL, value <- NULL, result <- NULL,
  over <- NULL, visited <- << >>

\* A set counts from the release of the old value.
Content(d) ==
  [order |-> [i \in Entries(d) |-> text[keys[d][i]]],
   at    |-> [k \in {text[a] : a \in KeysOf(d)} |->
                LET i == Find(d, k) IN IF Open(d, i) THEN pending.val ELSE values[d][i]]]

\* A literal counts as a whole from its allocation.
AbsMap ==
  [d \in Dict |->
    IF rc[d] = 0 THEN NULL
    ELSE IF pending.op = "fill" /\ pending.dict = d
    THEN Maps!PutAll(Content(d), pending.keys, held)
    ELSE Content(d)]

AbsFresh  == IF pending.op \in {"fill", "assign"} THEN pending.dict ELSE NULL
AbsResult == IF pending.op \in {"local", "discard"} THEN pending.val ELSE NULL

Ordered == INSTANCE OrderedMaps WITH
  map <- AbsMap, local <- var, fresh <- AbsFresh, value <- held, result <- AbsResult,
  over <- loop.dict, visited <- loop.seen

(***************************************************************************)
(* pop, set, clear, copy, literals and for loops read and leave what an    *)
(* insertion-ordered map would: set keeps the place of an existing key,    *)
(* pop the order of the others and hands over the value of its key, a copy *)
(* is independent of its original, no read changes a dict, and a dict      *)
(* disappears only when nothing names it.                                  *)
(***************************************************************************)
ImplementsOrderedMaps == Ordered!OSpec
=============================================================================
