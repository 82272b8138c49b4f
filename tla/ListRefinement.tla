---------------------------- MODULE ListRefinement ----------------------------
(***************************************************************************)
(* ListRuntime implements ManagedLists: a statement takes effect in one    *)
(* step of its execution, all other steps are invisible, and freed memory  *)
(* is out of the program's reach.                                          *)
(***************************************************************************)
EXTENDS ListRuntime

\* An assignment takes effect when the old value of its target is released,
\* an item assignment when the old element is, a literal when it is allocated
\* and clear when it starts.
AbsLocal == IF pc = "store" THEN [var EXCEPT ![dst] = tmp] ELSE var

AbsTemp == IF pc \in {"store", "replace"} THEN NULL ELSE tmp

AbsList == [o \in Obj |->
  CASE mem[o] # "live"            -> << >>
    [] pc = "fill" /\ o = tmp     -> items[o] \o args
    [] pc = "replace" /\ o = lst  -> [items[o] EXCEPT ![at] = arg]
    [] pc = "clear" /\ o = lst    -> << >>
    [] OTHER                      -> items[o]]

Lists == INSTANCE ManagedLists
  WITH local <- AbsLocal, temp <- AbsTemp, over <- iter, pos <- idx,
       list <- AbsList, alive <- {o \in Obj : mem[o] = "live"}

\* The runtime keeps the promise of the language: every interleaving of its
\* retains and releases reads the same values as a garbage-collected heap, and
\* no list is freed while a local, a temporary or a loop still leads to it.
ImplementsManagedLists == Lists!ASpec

Roots == {var[v] : v \in Var} \cup {iter}

Children(o) == {items[o][i] : i \in DOMAIN items[o]}

\* The lists that o contains, directly or through other lists.
Descendants(o) == Lists!Reachable(Children(o), items)

\* Between statements every list that is still allocated is reachable, or hangs
\* on a list that contains itself, or on a value that was passed inline to
\* append or to an item assignment: there is no fourth way to leak.
GarbageIsExplained ==
  At("idle") =>
    LET excused == {o \in Obj : mem[o] = "live" /\ (lost[o] > 0 \/ o \in Descendants(o))}
    IN {o \in Obj : mem[o] # "free"} \subseteq
         Lists!Reachable(Roots \cup excused, items)

\* A statement that has begun comes to its end, however deep the lists are
\* nested and whatever cycles they form: the recursive decref terminates.
StatementsFinish == pc # "idle" \/ stack # << >> ~> At("idle")
=============================================================================
