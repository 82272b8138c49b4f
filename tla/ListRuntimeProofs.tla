-------------------------- MODULE ListRuntimeProofs --------------------------
(***************************************************************************)
(* RefCountExact and NoDangling hold for any number of lists and locals    *)
(* and for lists of any length: IInv is inductive.  From it, the runtime   *)
(* implements ManagedLists, and garbage is explained.                      *)
(***************************************************************************)
EXTENDS ListRefinement, TLAPS, FiniteSetTheorems, WellFoundedInduction

USE ObjAssumption, VarAssumption, BoundAssumption

Slot == Obj \X (1 .. MaxLen)

-----------------------------------------------------------------------------
(***************************************************************************)
(* Counting.                                                               *)
(***************************************************************************)

\* A set that loses one of its elements is smaller by one.
LEMMA CardLose ==
  ASSUME NEW S, NEW T, NEW x \in S, IsFiniteSet(S), T = S \ {x}
  PROVE  Cardinality(T) = Cardinality(S) - 1
BY FS_RemoveElement

\* A set that gains a new element is larger by one.
LEMMA CardGain ==
  ASSUME NEW S, NEW T, NEW x, x \notin S, IsFiniteSet(S), T = S \cup {x}
  PROVE  Cardinality(T) = Cardinality(S) + 1
BY FS_AddElement

\* A finite set with an element is not counted as empty.
LEMMA CardPositive ==
  ASSUME NEW S, NEW x \in S, IsFiniteSet(S)
  PROVE  Cardinality(S) \in Nat /\ Cardinality(S) >= 1
<1>1. Cardinality(S) \in Nat
  BY FS_CardinalityType
<1>2. Cardinality(S) # 0
  BY FS_EmptySet
<1> QED
  BY <1>1, <1>2

\* There are finitely many locals and slots, so finitely many hold a list.
LEMMA RefsFinite ==
  ASSUME NEW o \in Obj
  PROVE  /\ IsFiniteSet(VarRefs(o)) /\ Cardinality(VarRefs(o)) \in Nat
         /\ IsFiniteSet(SlotRefs(o)) /\ Cardinality(SlotRefs(o)) \in Nat
<1>1. IsFiniteSet(VarRefs(o))
  BY FS_Subset DEF VarRefs
<1>2. IsFiniteSet(1 .. MaxLen)
  BY FS_Interval
<1>3. IsFiniteSet(Obj \X (1 .. MaxLen))
  BY <1>2, FS_Product
<1>4. IsFiniteSet(SlotRefs(o))
  BY <1>3, FS_Subset DEF SlotRefs
<1> QED
  BY <1>1, <1>4, FS_CardinalityType

\* ... and the same of the next state.
LEMMA RefsFinitePrimed ==
  ASSUME NEW o \in Obj
  PROVE  /\ IsFiniteSet(VarRefs(o)') /\ Cardinality(VarRefs(o)') \in Nat
         /\ IsFiniteSet(SlotRefs(o)') /\ Cardinality(SlotRefs(o)') \in Nat
<1>1. IsFiniteSet(VarRefs(o)')
  BY FS_Subset DEF VarRefs
<1>2. IsFiniteSet(1 .. MaxLen)
  BY FS_Interval
<1>3. IsFiniteSet(Obj \X (1 .. MaxLen))
  BY <1>2, FS_Product
<1>4. IsFiniteSet(SlotRefs(o)')
  BY <1>3, FS_Subset DEF SlotRefs
<1> QED
  BY <1>1, <1>4, FS_CardinalityType

\* A counted reference keeps the count, and so the list, alive.
LEMMA CountedIsLive ==
  ASSUME IInv, NEW o \in Obj,
         \/ VarRefs(o) # {} \/ SlotRefs(o) # {} \/ tmp = o \/ iter = o \/ lost[o] > 0
  PROVE  rc[o] >= 1 /\ mem[o] = "live"
<1>1. rc[o] = Refs(o) /\ rc[o] \in Nat /\ lost[o] \in Nat
  BY DEF IInv, RefCountExact, TypeOK
<1>2. VarRefs(o) # {} => Cardinality(VarRefs(o)) >= 1
  BY CardPositive, RefsFinite
<1>3. SlotRefs(o) # {} => Cardinality(SlotRefs(o)) >= 1
  BY CardPositive, RefsFinite
<1>4. Refs(o) >= 1
  BY <1>1, <1>2, <1>3, RefsFinite DEF Refs, One
<1> QED
  BY <1>1, <1>4 DEF IInv, Lifecycle

-----------------------------------------------------------------------------
(***************************************************************************)
(* How a step changes the two counted sets.                                *)
(***************************************************************************)

\* No local changes hands.
LEMMA SameVars ==
  ASSUME NEW o \in Obj, var' = var,
         UNCHANGED <<pc, dst>> \/ (pc # "store" /\ pc' # "store")
  PROVE  VarRefs(o)' = VarRefs(o)
BY DEF VarRefs

\* No slot changes hands.
LEMMA SameSlots ==
  ASSUME NEW o \in Obj, items' = items, cursor' = cursor,
         UNCHANGED <<pc, lst, at>> \/ (pc # "replace" /\ pc' # "replace")
  PROVE  SlotRefs(o)' = SlotRefs(o)
BY DEF SlotRefs, InUse

\* The slots in use keep their elements.
LEMMA EqualSlots ==
  ASSUME NEW o \in Obj,
         \A t \in Slot : InUse(t)' <=> InUse(t),
         \A t \in Slot : InUse(t) => items'[t[1]][t[2]] = items[t[1]][t[2]]
  PROVE  SlotRefs(o)' = SlotRefs(o)
BY DEF SlotRefs, Slot

\* Slot s, which held e, goes out of use.
LEMMA SlotLost ==
  ASSUME NEW o \in Obj, NEW e \in Obj, NEW s \in Slot,
         InUse(s), items[s[1]][s[2]] = e,
         \A t \in Slot : InUse(t)' <=> InUse(t) /\ t # s,
         \A t \in Slot : InUse(t)' => items'[t[1]][t[2]] = items[t[1]][t[2]]
  PROVE  Cardinality(SlotRefs(o)') = Cardinality(SlotRefs(o)) - One(o = e)
<1>1. CASE o = e
  <2>1. s \in SlotRefs(o)
    BY <1>1 DEF SlotRefs, Slot
  <2>2. SlotRefs(o)' = SlotRefs(o) \ {s}
    BY <1>1 DEF SlotRefs, Slot
  <2> QED
    BY <1>1, <2>1, <2>2, CardLose, RefsFinite DEF One
<1>2. CASE o # e
  <2>1. SlotRefs(o)' = SlotRefs(o)
    BY <1>2 DEF SlotRefs, Slot
  <2> QED
    BY <1>2, <2>1, RefsFinite DEF One
<1> QED
  BY <1>1, <1>2

\* Slot s comes into use and holds e.
LEMMA SlotGained ==
  ASSUME NEW o \in Obj, NEW e \in Obj, NEW s \in Slot,
         ~InUse(s), items'[s[1]][s[2]] = e,
         \A t \in Slot : InUse(t)' <=> InUse(t) \/ t = s,
         \A t \in Slot : InUse(t) => items'[t[1]][t[2]] = items[t[1]][t[2]]
  PROVE  Cardinality(SlotRefs(o)') = Cardinality(SlotRefs(o)) + One(o = e)
<1>1. CASE o = e
  <2>1. s \notin SlotRefs(o)
    BY DEF SlotRefs
  <2>2. SlotRefs(o)' = SlotRefs(o) \cup {s}
    BY <1>1 DEF SlotRefs, Slot
  <2> QED
    BY <1>1, <2>1, <2>2, CardGain, RefsFinite DEF One
<1>2. CASE o # e
  <2>1. SlotRefs(o)' = SlotRefs(o)
    BY <1>2 DEF SlotRefs, Slot
  <2> QED
    BY <1>2, <2>1, RefsFinite DEF One
<1> QED
  BY <1>1, <1>2

\* Local v, which held e, no longer counts.
LEMMA VarLost ==
  ASSUME NEW o \in Obj, NEW v \in Var, NEW e, pc # "store", var[v] = e,
         \A u \in Var : u # v => (var'[u] = var[u] /\ ~(pc' = "store" /\ u = dst')),
         var'[v] = NULL \/ (pc' = "store" /\ dst' = v)
  PROVE  Cardinality(VarRefs(o)') = Cardinality(VarRefs(o)) - One(o = e)
<1>1. CASE o = e
  <2>1. v \in VarRefs(o)
    BY <1>1 DEF VarRefs
  <2>2. VarRefs(o)' = VarRefs(o) \ {v}
    BY <1>1 DEF VarRefs
  <2> QED
    BY <1>1, <2>1, <2>2, CardLose, RefsFinite DEF One
<1>2. CASE o # e
  <2>1. VarRefs(o)' = VarRefs(o)
    BY <1>2 DEF VarRefs
  <2> QED
    BY <1>2, <2>1, RefsFinite DEF One
<1> QED
  BY <1>1, <1>2

\* Local v, which did not count, holds e.
LEMMA VarGained ==
  ASSUME NEW o \in Obj, NEW v \in Var, NEW e,
         var[v] = NULL \/ (pc = "store" /\ dst = v),
         \A u \in Var : u # v => (var'[u] = var[u] /\ ~(pc = "store" /\ u = dst)),
         pc' # "store", var'[v] = e
  PROVE  Cardinality(VarRefs(o)') = Cardinality(VarRefs(o)) + One(o = e)
<1>1. CASE o = e
  <2>1. v \notin VarRefs(o)
    BY <1>1 DEF VarRefs
  <2>2. VarRefs(o)' = VarRefs(o) \cup {v}
    BY <1>1 DEF VarRefs
  <2> QED
    BY <1>1, <2>1, <2>2, CardGain, RefsFinite DEF One
<1>2. CASE o # e
  <2>1. VarRefs(o)' = VarRefs(o)
    BY <1>2 DEF VarRefs
  <2> QED
    BY <1>2, <2>1, RefsFinite DEF One
<1> QED
  BY <1>1, <1>2

-----------------------------------------------------------------------------
(***************************************************************************)
(* The refcount primitives.                                                *)
(***************************************************************************)

\* Retaining a live list.
LEMMA IncEffect ==
  ASSUME IInv, NEW e \in Obj, mem[e] = "live", rc' = [rc EXCEPT ![e] = @ + 1],
         UNCHANGED <<mem, stack>>
  PROVE  /\ rc' \in [Obj -> Nat]
         /\ \A o \in Obj : rc'[o] = rc[o] + One(o = e)
         /\ Lifecycle'
<1>1. rc \in [Obj -> Nat]
  BY DEF IInv, TypeOK
<1>2. rc' \in [Obj -> Nat] /\ \A o \in Obj : rc'[o] = rc[o] + One(o = e)
  BY <1>1 DEF One
<1>3. Lifecycle'
  BY <1>1, <1>2 DEF IInv, Lifecycle, One
<1> QED
  BY <1>2, <1>3

\* Releasing a live list: at zero it is dying and has its own activation.
LEMMA DropEffect ==
  ASSUME IInv, NEW e \in Obj, mem[e] = "live", Drop(e)
  PROVE  /\ rc' \in [Obj -> Nat] /\ mem' \in [Obj -> {"free", "live", "dying"}]
         /\ stack' \in Seq(Obj)
         /\ \A o \in Obj : rc'[o] = rc[o] - One(o = e)
         /\ \A o \in Obj : mem'[o] = "free" <=> mem[o] = "free"
         /\ \A o \in Obj : mem[o] = "dying" => mem'[o] = "dying"
         /\ Lifecycle'
<1>1. rc \in [Obj -> Nat] /\ mem \in [Obj -> {"free", "live", "dying"}] /\ stack \in Seq(Obj)
  BY DEF IInv, TypeOK
<1>2. rc[e] \in Nat /\ rc[e] > 0 /\ rc[e] - 1 \in Nat
  BY <1>1 DEF IInv, Lifecycle
<1>3. rc' \in [Obj -> Nat] /\ \A o \in Obj : rc'[o] = rc[o] - One(o = e)
  BY <1>1, <1>2 DEF Drop, One
<1>4. CASE rc[e] = 1
  <2>1. mem' = [mem EXCEPT ![e] = "dying"] /\ stack' = Append(stack, e)
    BY <1>4 DEF Drop
  <2>2. /\ stack' \in Seq(Obj) /\ Len(stack') = Len(stack) + 1
        /\ \A i \in 1 .. Len(stack) : stack'[i] = stack[i]
        /\ stack'[Len(stack) + 1] = e
        /\ DOMAIN stack = 1 .. Len(stack) /\ DOMAIN stack' = 1 .. Len(stack')
        /\ Len(stack) \in Nat
    BY <1>1, <2>1
  <2>3. \A i \in DOMAIN stack : stack[i] # e
    BY DEF IInv, Lifecycle
  <2>4. \A o \in Obj : mem'[o] = "live" <=> rc'[o] > 0
    BY <1>1, <1>3, <1>4, <2>1 DEF IInv, Lifecycle, One
  <2>5. \A o \in Obj : mem'[o] = "dying" <=> \E i \in DOMAIN stack' : stack'[i] = o
    <3>1. ASSUME NEW o \in Obj, mem'[o] = "dying"
          PROVE  \E i \in DOMAIN stack' : stack'[i] = o
      <4>1. CASE o = e
        BY <2>2, <4>1
      <4>2. CASE o # e
        <5>1. mem[o] = "dying"
          BY <1>1, <2>1, <3>1, <4>2
        <5>2. PICK i \in DOMAIN stack : stack[i] = o
          BY <5>1 DEF IInv, Lifecycle
        <5> QED
          BY <2>2, <5>2
      <4> QED
        BY <4>1, <4>2
    <3>2. ASSUME NEW o \in Obj, NEW i \in DOMAIN stack', stack'[i] = o
          PROVE  mem'[o] = "dying"
      <4>1. CASE i = Len(stack) + 1
        BY <1>1, <2>1, <2>2, <3>2, <4>1
      <4>2. CASE i # Len(stack) + 1
        <5>1. i \in DOMAIN stack /\ stack[i] = o
          BY <2>2, <3>2, <4>2
        <5>2. mem[o] = "dying" /\ o # e
          BY <2>3, <5>1 DEF IInv, Lifecycle
        <5> QED
          BY <1>1, <2>1, <5>2
      <4> QED
        BY <4>1, <4>2
    <3> QED
      BY <3>1, <3>2
  <2>6. \A i, j \in DOMAIN stack' : stack'[i] = stack'[j] => i = j
    BY <2>2, <2>3 DEF IInv, Lifecycle
  <2>7. Lifecycle'
    BY <2>4, <2>5, <2>6 DEF Lifecycle
  <2> QED
    BY <1>1, <1>3, <2>1, <2>2, <2>7 DEF IInv, Lifecycle
<1>5. CASE rc[e] # 1
  <2>1. UNCHANGED <<mem, stack>>
    BY <1>5 DEF Drop
  <2>2. Lifecycle'
    BY <1>2, <1>3, <1>5, <2>1, <1>1 DEF IInv, Lifecycle, One
  <2> QED
    BY <1>1, <1>3, <2>1, <2>2
<1> QED
  BY <1>4, <1>5

-----------------------------------------------------------------------------
(***************************************************************************)
(* Statements that evaluate a value into a temporary.                      *)
(***************************************************************************)

\* A value that is already referred to is retained: AssignVar, AssignGet,
\* DiscardGet.
LEMMA TakeTemp ==
  ASSUME IInv, At("idle"), NEW e \in Obj, mem[e] = "live", IncRef(e), tmp' = e,
         pc' \in {"release", "discard"}, dst' \in Var \cup {NULL},
         pc' = "release" => dst' \in Var,
         UNCHANGED <<lst, at, arg, args, items, var, loop, lost>>
  PROVE  IInv'
<1> USE DEF At
<1>1. /\ rc' \in [Obj -> Nat] /\ Lifecycle'
      /\ \A o \in Obj : rc'[o] = rc[o] + One(o = e)
  BY IncEffect DEF IncRef
<1>2. TypeOK'
  BY <1>1 DEF IInv, TypeOK, IncRef, loop
<1>3. RefCountExact'
  <2> SUFFICES ASSUME NEW o \in Obj PROVE rc'[o] = Refs(o)'
    BY DEF RefCountExact
  <2>1. VarRefs(o)' = VarRefs(o)
    BY SameVars
  <2>2. SlotRefs(o)' = SlotRefs(o)
    BY SameSlots DEF IncRef
  <2>3. tmp = NULL /\ rc[o] = Refs(o) /\ lost[o] \in Nat
    BY DEF IInv, RefCountExact, Statements, TypeOK
  <2>4. rc'[o] = rc[o] + One(o = e)
    BY <1>1
  <2>5. Refs(o)' = Cardinality(VarRefs(o)) + Cardinality(SlotRefs(o))
                     + One(e = o) + One(iter = o) + lost[o]
    BY <2>1, <2>2 DEF Refs, loop
  <2> QED
    BY <2>3, <2>4, <2>5, RefsFinite DEF Refs, One
<1>4. Contents'
  BY DEF IInv, Contents, IncRef
<1>5. Statements'
  BY DEF IInv, Statements, TypeOK
<1> QED
  BY <1>1, <1>2, <1>3, <1>4, <1>5 DEF IInv

\* Locals of the running program point to live lists between statements.
LEMMA VarLive ==
  ASSUME IInv, pc # "store", NEW w \in Var, Holds(w)
  PROVE  var[w] \in Obj /\ mem[var[w]] = "live"
<1>1. var[w] \in Obj
  BY DEF IInv, TypeOK, Holds
<1>2. w \in VarRefs(var[w])
  BY DEF VarRefs
<1> QED
  BY <1>1, <1>2, CountedIsLive

\* So do the elements of a live list that no clear is working on.
LEMMA ItemLive ==
  ASSUME IInv, pc \notin {"clear", "replace"}, NEW l \in Obj, mem[l] = "live",
         NEW i \in 1 .. Len(items[l])
  PROVE  /\ items[l][i] \in Obj /\ mem[items[l][i]] = "live"
         /\ <<l, i>> \in Slot /\ InUse(<<l, i>>)
<1>1. items[l] \in Seq(Obj) /\ items[l][i] \in Obj
  BY DEF IInv, TypeOK
<1>2. <<l, i>> \in Slot
  BY <1>1 DEF IInv, Contents, Slot
<1>3. cursor[l] = 0
  <2>1. cursor[l] \in Nat
    BY DEF IInv, TypeOK
  <2>2. ~(cursor[l] > 0)
    BY DEF IInv, Contents
  <2> QED
    BY <2>1, <2>2
<1>4. InUse(<<l, i>>)
  BY <1>1, <1>3 DEF InUse
<1>5. <<l, i>> \in SlotRefs(items[l][i])
  BY <1>2, <1>4 DEF SlotRefs, Slot
<1> QED
  BY <1>1, <1>2, <1>4, <1>5, CountedIsLive

LEMMA AssignVarStep ==
  ASSUME IInv, NEW v \in Var, NEW w \in Var, AssignVar(v, w)
  PROVE  IInv'
<1>1. var[w] \in Obj /\ mem[var[w]] = "live"
  BY VarLive DEF AssignVar, At
<1> QED
  BY <1>1, TakeTemp DEF AssignVar, Evaluated

LEMMA AssignGetStep ==
  ASSUME IInv, NEW v \in Var, NEW w \in Var, NEW i \in 1 .. MaxLen, AssignGet(v, w, i)
  PROVE  IInv'
<1>1. var[w] \in Obj /\ mem[var[w]] = "live"
  BY VarLive DEF AssignGet, At
<1>2. items[var[w]][i] \in Obj /\ mem[items[var[w]][i]] = "live"
  BY <1>1, ItemLive DEF AssignGet, At
<1> QED
  BY <1>2, TakeTemp DEF AssignGet, Evaluated

LEMMA DiscardGetStep ==
  ASSUME IInv, NEW w \in Var, NEW i \in 1 .. MaxLen, DiscardGet(w, i)
  PROVE  IInv'
<1>1. var[w] \in Obj /\ mem[var[w]] = "live"
  BY VarLive DEF DiscardGet, At
<1>2. items[var[w]][i] \in Obj /\ mem[items[var[w]][i]] = "live"
  BY <1>1, ItemLive DEF DiscardGet, At
<1>3. dst \in Var \cup {NULL}
  BY DEF IInv, TypeOK
<1> QED
  BY <1>2, <1>3, TakeTemp DEF DiscardGet, ToDiscard

\* A prefix of a sequence.
LEMMA PrefixProperties ==
  ASSUME NEW s \in Seq(Obj), NEW n \in Nat, n <= Len(s)
  PROVE  /\ SubSeq(s, 1, n) \in Seq(Obj) /\ Len(SubSeq(s, 1, n)) = n
         /\ \A i \in 1 .. n : SubSeq(s, 1, n)[i] = s[i]
OBVIOUS

\* A sequence without its last element.
LEMMA ButLastProperties ==
  ASSUME NEW s \in Seq(Obj), s # << >>
  PROVE  /\ Len(s) \in Nat /\ Len(s) > 0
         /\ ButLast(s) \in Seq(Obj) /\ Len(ButLast(s)) = Len(s) - 1
         /\ \A i \in 1 .. Len(s) - 1 : ButLast(s)[i] = s[i]
<1> DEFINE n == Len(s) - 1
<1>1. Len(s) \in Nat /\ Len(s) > 0
  OBVIOUS
<1>2. n \in Nat /\ n <= Len(s)
  BY <1>1
<1>3. ButLast(s) = SubSeq(s, 1, n)
  BY DEF ButLast
<1> HIDE DEF n
<1>4. /\ ButLast(s) \in Seq(Obj) /\ Len(ButLast(s)) = n
      /\ \A i \in 1 .. n : ButLast(s)[i] = s[i]
  BY <1>2, <1>3, PrefixProperties
<1> QED
  BY <1>1, <1>4 DEF n

\* The slot of a popped element hands its reference to the temporary:
\* AssignPop, DiscardPop.
LEMMA PopTemp ==
  ASSUME IInv, At("idle"), NEW l \in Obj, mem[l] = "live", PopItem(l),
         tmp' = items[l][Len(items[l])],
         pc' \in {"release", "discard"}, dst' \in Var \cup {NULL},
         pc' = "release" => dst' \in Var,
         UNCHANGED <<rc, mem, stack, cursor, lst, at, arg, args, var, iter, idx, lost>>
  PROVE  IInv'
<1> USE DEF At
<1> DEFINE n == Len(items[l])
           e == items[l][n]
<1>1. /\ items \in [Obj -> Seq(Obj)] /\ items[l] \in Seq(Obj) /\ items[l] # << >>
      /\ items' = [items EXCEPT ![l] = ButLast(items[l])]
  BY DEF IInv, TypeOK, PopItem
<1>2. /\ n \in Nat /\ n > 0
      /\ ButLast(items[l]) \in Seq(Obj) /\ Len(ButLast(items[l])) = n - 1
      /\ \A i \in 1 .. n - 1 : ButLast(items[l])[i] = items[l][i]
  BY <1>1, ButLastProperties
<1>3. e \in Obj /\ <<l, n>> \in Slot /\ InUse(<<l, n>>)
  BY <1>1, <1>2, ItemLive
<1>4. /\ items' \in [Obj -> Seq(Obj)] /\ items'[l] = ButLast(items[l])
      /\ \A k \in Obj : k # l => items'[k] = items[k]
  BY <1>1, <1>2
<1>5. TypeOK'
  BY <1>3, <1>4 DEF IInv, TypeOK
<1>6. RefCountExact'
  <2> SUFFICES ASSUME NEW o \in Obj PROVE rc'[o] = Refs(o)'
    BY DEF RefCountExact
  <2>1. VarRefs(o)' = VarRefs(o)
    BY SameVars
  <2>2. \A t \in Slot : InUse(t)' <=> InUse(t) /\ t # <<l, n>>
    <3> SUFFICES ASSUME NEW t \in Slot PROVE InUse(t)' <=> InUse(t) /\ t # <<l, n>>
      OBVIOUS
    <3>1. t[1] \in Obj /\ t[2] \in 1 .. MaxLen /\ t = <<t[1], t[2]>>
      BY DEF Slot
    <3>2. CASE t[1] = l
      BY <1>1, <1>2, <1>4, <3>1, <3>2 DEF InUse
    <3>3. CASE t[1] # l
      BY <1>4, <3>1, <3>3 DEF InUse
    <3> QED
      BY <3>2, <3>3
  <2>3. \A t \in Slot : InUse(t)' => items'[t[1]][t[2]] = items[t[1]][t[2]]
    <3> SUFFICES ASSUME NEW t \in Slot, InUse(t)' PROVE items'[t[1]][t[2]] = items[t[1]][t[2]]
      OBVIOUS
    <3>1. t[1] \in Obj /\ t[2] \in 1 .. MaxLen /\ t[2] <= Len(items'[t[1]])
      BY DEF Slot, InUse
    <3>2. CASE t[1] = l
      <4>1. t[2] \in 1 .. n - 1
        BY <1>2, <1>4, <3>1, <3>2
      <4>2. items'[l][t[2]] = items[l][t[2]]
        BY <1>2, <1>4, <4>1
      <4> QED
        BY <3>2, <4>2
    <3>3. CASE t[1] # l
      BY <1>4, <3>1, <3>3
    <3> QED
      BY <3>2, <3>3
  <2>4. Cardinality(SlotRefs(o)') = Cardinality(SlotRefs(o)) - One(o = e)
    BY <1>3, <2>2, <2>3, SlotLost
  <2>5. tmp = NULL /\ rc[o] = Refs(o) /\ lost[o] \in Nat
    BY DEF IInv, RefCountExact, Statements, TypeOK
  <2>6. Refs(o)' = Cardinality(VarRefs(o)) + Cardinality(SlotRefs(o)')
                     + One(e = o) + One(iter = o) + lost[o]
    BY <2>1 DEF Refs
  <2>7. Refs(o)' = Refs(o)
    BY <2>4, <2>5, <2>6, RefsFinite DEF Refs, One
  <2> QED
    BY <2>5, <2>7
<1>7. Lifecycle'
  BY DEF IInv, Lifecycle
<1>8. Contents'
  <2> SUFFICES ASSUME NEW o \in Obj
               PROVE /\ Len(items'[o]) <= MaxLen /\ cursor[o] <= Len(items'[o])
                     /\ mem[o] = "free" => items'[o] = << >>
                     /\ cursor[o] > 0 => mem[o] = "dying"
    BY DEF Contents
  <2>1. cursor[o] \in Nat /\ Len(items[o]) <= MaxLen /\ cursor[o] <= Len(items[o])
        /\ (mem[o] = "free" => items[o] = << >>) /\ (cursor[o] > 0 => mem[o] = "dying")
    BY DEF IInv, Contents, TypeOK
  <2>2. CASE o = l
    BY <1>2, <1>4, <2>1, <2>2
  <2>3. CASE o # l
    BY <1>4, <2>1, <2>3
  <2> QED
    BY <2>2, <2>3
<1>9. Statements'
  BY <1>3 DEF IInv, Statements, TypeOK
<1> QED
  BY <1>5, <1>6, <1>7, <1>8, <1>9 DEF IInv

LEMMA AssignPopStep ==
  ASSUME IInv, NEW v \in Var, NEW w \in Var, AssignPop(v, w)
  PROVE  IInv'
<1>1. var[w] \in Obj /\ mem[var[w]] = "live"
  BY VarLive DEF AssignPop, At
<1> QED
  BY <1>1, PopTemp DEF AssignPop, Evaluated, heap, loop

LEMMA DiscardPopStep ==
  ASSUME IInv, NEW w \in Var, DiscardPop(w)
  PROVE  IInv'
<1>1. var[w] \in Obj /\ mem[var[w]] = "live"
  BY VarLive DEF DiscardPop, At
<1>2. dst \in Var \cup {NULL}
  BY DEF IInv, TypeOK
<1> QED
  BY <1>1, <1>2, PopTemp DEF DiscardPop, ToDiscard, heap, loop

-----------------------------------------------------------------------------
(***************************************************************************)
(* Statements that add an element.                                         *)
(***************************************************************************)

\* What appending e to l does to the lists and to the slots in use.
LEMMA AppendSlot ==
  ASSUME IInv, NEW l \in Obj, NEW e \in Obj, Len(items[l]) < MaxLen,
         items' = [items EXCEPT ![l] = Append(@, e)], cursor' = cursor,
         pc # "replace", pc' # "replace"
  PROVE  /\ items' \in [Obj -> Seq(Obj)]
         /\ Len(items'[l]) = Len(items[l]) + 1
         /\ \A o \in Obj : o # l => items'[o] = items[o]
         /\ \A o \in Obj : Len(items'[o]) <= MaxLen /\ cursor[o] <= Len(items'[o])
         /\ \A o \in Obj : Cardinality(SlotRefs(o)') = Cardinality(SlotRefs(o)) + One(o = e)
<1> DEFINE n == Len(items[l])
<1>0. items \in [Obj -> Seq(Obj)] /\ items[l] \in Seq(Obj)
  BY DEF IInv, TypeOK
<1>1. items \in [Obj -> Seq(Obj)] /\ items[l] \in Seq(Obj) /\ n \in Nat
  BY <1>0
<1>2. /\ Append(items[l], e) \in Seq(Obj) /\ Len(Append(items[l], e)) = n + 1
      /\ \A i \in 1 .. n : Append(items[l], e)[i] = items[l][i]
      /\ Append(items[l], e)[n + 1] = e
  BY <1>1
<1>3. /\ items' \in [Obj -> Seq(Obj)] /\ items'[l] = Append(items[l], e)
      /\ \A k \in Obj : k # l => items'[k] = items[k]
  BY <1>1, <1>2
<1>4. ASSUME NEW o \in Obj
      PROVE  Len(items'[o]) <= MaxLen /\ cursor[o] <= Len(items'[o])
  <2>1. cursor[o] \in Nat /\ Len(items[o]) <= MaxLen /\ cursor[o] <= Len(items[o])
    BY DEF IInv, Contents, TypeOK
  <2>2. CASE o = l
    BY <1>1, <1>2, <1>3, <2>1, <2>2
  <2>3. CASE o # l
    BY <1>3, <2>1, <2>3
  <2> QED
    BY <2>2, <2>3
<1>5. ASSUME NEW o \in Obj
      PROVE  Cardinality(SlotRefs(o)') = Cardinality(SlotRefs(o)) + One(o = e)
  <2> DEFINE s == <<l, n + 1>>
  <2>1. s \in Slot /\ ~InUse(s) /\ items'[s[1]][s[2]] = e
    BY <1>1, <1>2, <1>3 DEF Slot, InUse
  <2>2. cursor[l] \in Nat /\ cursor[l] <= n
    BY DEF IInv, Contents, TypeOK
  <2>3. \A t \in Slot : InUse(t)' <=> InUse(t) \/ t = s
    <3> SUFFICES ASSUME NEW t \in Slot PROVE InUse(t)' <=> InUse(t) \/ t = s
      OBVIOUS
    <3>1. t[1] \in Obj /\ t[2] \in 1 .. MaxLen /\ t = <<t[1], t[2]>>
      BY DEF Slot
    <3>2. CASE t[1] = l
      BY <1>1, <1>2, <1>3, <2>2, <3>1, <3>2 DEF InUse
    <3>3. CASE t[1] # l
      BY <1>3, <3>1, <3>3 DEF InUse
    <3> QED
      BY <3>2, <3>3
  <2>4. \A t \in Slot : InUse(t) => items'[t[1]][t[2]] = items[t[1]][t[2]]
    <3> SUFFICES ASSUME NEW t \in Slot, InUse(t) PROVE items'[t[1]][t[2]] = items[t[1]][t[2]]
      OBVIOUS
    <3>1. t[1] \in Obj /\ t[2] \in 1 .. MaxLen /\ t[2] <= Len(items[t[1]])
      BY DEF Slot, InUse
    <3>2. CASE t[1] = l
      <4>1. t[2] \in 1 .. n
        BY <1>1, <3>1, <3>2
      <4>2. items'[l][t[2]] = items[l][t[2]]
        BY <1>2, <1>3, <4>1
      <4> QED
        BY <3>2, <4>2
    <3>3. CASE t[1] # l
      BY <1>3, <3>1, <3>3
    <3> QED
      BY <3>2, <3>3
  <2> QED
    BY <2>1, <2>3, <2>4, SlotGained
<1> QED
  BY <1>2, <1>3, <1>4, <1>5

\* from_values and copy allocate a header that nothing refers to yet.
LEMMA AssignValuesStep ==
  ASSUME IInv, NEW v \in Var, NEW o \in Obj, NEW values \in Seq(Obj),
         \A i \in DOMAIN values : mem[values[i]] = "live",
         AssignValues(v, o, values)
  PROVE  IInv'
<1> USE DEF At, AssignValues, New, loop
<1>0. rc \in [Obj -> Nat] /\ mem \in [Obj -> {"free", "live", "dying"}]
  BY DEF IInv, TypeOK
<1>1. rc[o] = 0 /\ rc \in [Obj -> Nat] /\ mem \in [Obj -> {"free", "live", "dying"}]
  BY <1>0 DEF IInv, Lifecycle
<1>2. items[o] = << >> /\ cursor[o] = 0
  BY DEF IInv, Contents, TypeOK
<1>3. TypeOK'
  BY DEF IInv, TypeOK
<1>4. RefCountExact'
  <2> SUFFICES ASSUME NEW p \in Obj PROVE rc'[p] = Refs(p)'
    BY DEF RefCountExact
  <2>1. VarRefs(p)' = VarRefs(p)
    BY SameVars
  <2>2. SlotRefs(p)' = SlotRefs(p)
    BY SameSlots
  <2>3. tmp = NULL /\ rc[p] = Refs(p) /\ lost[p] \in Nat
    BY DEF IInv, RefCountExact, Statements, TypeOK
  <2>4. Refs(p)' = Cardinality(VarRefs(p)) + Cardinality(SlotRefs(p))
                     + One(o = p) + One(iter = p) + lost[p]
    BY <2>1, <2>2 DEF Refs
  <2>5. Refs(p)' = rc[p] + One(o = p)
    BY <2>3, <2>4, RefsFinite DEF Refs, One
  <2>6. rc'[p] = rc[p] + One(o = p)
    BY <1>1 DEF One
  <2> QED
    BY <2>5, <2>6
<1>5. Lifecycle'
  BY <1>1 DEF IInv, Lifecycle
<1>6. Contents'
  BY <1>1, <1>2 DEF IInv, Contents
<1>7. Statements'
  <2>1. Len(items'[tmp']) + Len(args') <= MaxLen
    BY <1>2
  <2>2. \A i \in DOMAIN args' : mem'[args'[i]] = "live"
    BY <1>1
  <2> QED
    BY <2>1, <2>2 DEF IInv, Statements
<1> QED
  BY <1>3, <1>4, <1>5, <1>6, <1>7 DEF IInv

LEMMA AssignLiteralStep ==
  ASSUME IInv, NEW v \in Var, NEW o \in Obj, NEW n \in Nat, NEW ws \in [1 .. n -> Var],
         AssignLiteral(v, o, ws)
  PROVE  IInv'
<1> DEFINE values == [i \in DOMAIN ws |-> var[ws[i]]]
<1>1. \A i \in 1 .. n : ws[i] \in Var /\ Holds(ws[i])
  BY DEF AssignLiteral
<1>2. pc = "idle" /\ AssignValues(v, o, values)
  BY DEF AssignLiteral, AssignValues, At
<1>3. \A i \in 1 .. n : var[ws[i]] \in Obj /\ mem[var[ws[i]]] = "live"
  BY <1>1, <1>2, VarLive
<1>4. values \in Seq(Obj) /\ \A i \in DOMAIN values : mem[values[i]] = "live"
  BY <1>3
<1> HIDE DEF values
<1> QED
  BY <1>2, <1>4, AssignValuesStep

LEMMA AssignCopyStep ==
  ASSUME IInv, NEW v \in Var, NEW o \in Obj, NEW w \in Var, AssignCopy(v, o, w)
  PROVE  IInv'
<1>1. pc = "idle" /\ Holds(w) /\ AssignValues(v, o, items[var[w]])
  BY DEF AssignCopy, AssignValues, At
<1>2. var[w] \in Obj /\ mem[var[w]] = "live"
  BY <1>1, VarLive
<1>3. items[var[w]] \in Seq(Obj) /\ DOMAIN items[var[w]] = 1 .. Len(items[var[w]])
  BY <1>2 DEF IInv, TypeOK
<1>4. \A i \in DOMAIN items[var[w]] : mem[items[var[w]][i]] = "live"
  BY <1>1, <1>2, <1>3, ItemLive
<1> QED
  BY <1>1, <1>3, <1>4, AssignValuesStep

LEMMA FillStepStep ==
  ASSUME IInv, FillStep
  PROVE  IInv'
<1> USE DEF At, FillStep, loop
<1> DEFINE e == Head(args)
<1>1. tmp \in Obj /\ args \in Seq(Obj) /\ args # << >> /\ items \in [Obj -> Seq(Obj)]
  BY DEF IInv, Statements, TypeOK
<1>2. /\ e \in Obj /\ e = args[1] /\ Tail(args) \in Seq(Obj)
      /\ Len(args) \in Nat /\ Len(args) > 0 /\ Len(Tail(args)) = Len(args) - 1
      /\ \A i \in 1 .. Len(args) - 1 : Tail(args)[i] = args[i + 1]
      /\ DOMAIN args = 1 .. Len(args) /\ DOMAIN Tail(args) = 1 .. Len(args) - 1
  BY <1>1
<1>3. \A i \in 1 .. Len(args) : mem[args[i]] = "live"
  BY <1>2 DEF IInv, Statements
<1>4. Len(items[tmp]) \in Nat /\ Len(items[tmp]) + Len(args) <= MaxLen
  BY <1>1 DEF IInv, Statements
<1> HIDE DEF e
<1>b. /\ mem[e] = "live" /\ Len(items[tmp]) < MaxLen
      /\ items' = [items EXCEPT ![tmp] = Append(@, e)] /\ IncRef(e)
      /\ pc # "replace" /\ pc' # "replace" /\ cursor' = cursor
  BY <1>2, <1>3, <1>4 DEF e, IncRef
<1>5. /\ items' \in [Obj -> Seq(Obj)]
      /\ Len(items'[tmp]) = Len(items[tmp]) + 1
      /\ \A o \in Obj : o # tmp => items'[o] = items[o]
      /\ \A o \in Obj : Len(items'[o]) <= MaxLen /\ cursor[o] <= Len(items'[o])
      /\ \A o \in Obj : Cardinality(SlotRefs(o)') = Cardinality(SlotRefs(o)) + One(o = e)
  <2> DEFINE l == tmp
  <2>1. /\ l \in Obj /\ e \in Obj /\ Len(items[l]) < MaxLen
        /\ items' = [items EXCEPT ![l] = Append(@, e)] /\ cursor' = cursor
        /\ pc # "replace" /\ pc' # "replace"
    BY <1>1, <1>2, <1>b
  <2> HIDE DEF l, FillStep, At
  <2>2. /\ items' \in [Obj -> Seq(Obj)]
        /\ Len(items'[l]) = Len(items[l]) + 1
        /\ \A o \in Obj : o # l => items'[o] = items[o]
        /\ \A o \in Obj : Len(items'[o]) <= MaxLen /\ cursor[o] <= Len(items'[o])
        /\ \A o \in Obj : Cardinality(SlotRefs(o)') = Cardinality(SlotRefs(o)) + One(o = e)
    BY <2>1, AppendSlot
  <2> QED
    BY <2>2 DEF l
<1>6. /\ rc' \in [Obj -> Nat] /\ Lifecycle'
      /\ \A o \in Obj : rc'[o] = rc[o] + One(o = e)
  <2>1. e \in Obj /\ mem[e] = "live" /\ rc' = [rc EXCEPT ![e] = @ + 1] /\ UNCHANGED <<mem, stack>>
    BY <1>2, <1>b DEF IncRef
  <2> HIDE DEF FillStep, At, e
  <2> QED
    BY <2>1, IncEffect
<1>7. TypeOK'
  BY <1>2, <1>5, <1>6 DEF IInv, TypeOK, IncRef
<1>8. RefCountExact'
  <2> SUFFICES ASSUME NEW o \in Obj PROVE rc'[o] = Refs(o)'
    BY DEF RefCountExact
  <2>1. VarRefs(o)' = VarRefs(o)
    BY SameVars
  <2>2. rc[o] = Refs(o) /\ lost[o] \in Nat
    BY DEF IInv, RefCountExact, TypeOK
  <2>3. Refs(o)' = Cardinality(VarRefs(o)) + Cardinality(SlotRefs(o)')
                     + One(tmp = o) + One(iter = o) + lost[o]
    BY <2>1 DEF Refs
  <2>4. Cardinality(SlotRefs(o)') = Cardinality(SlotRefs(o)) + One(o = e)
    BY <1>5
  <2>5. Refs(o)' = rc[o] + One(o = e)
    BY <2>2, <2>3, <2>4, RefsFinite DEF Refs, One
  <2> QED
    BY <1>6, <2>5
<1>9. Contents'
  <2>1. mem[tmp] = "live"
    BY <1>1, CountedIsLive
  <2> QED
    BY <1>5, <2>1 DEF IInv, Contents, IncRef
<1>10. Statements'
  <2>1. Len(items'[tmp]) + Len(args') <= MaxLen
    BY <1>2, <1>4, <1>5
  <2>2. \A i \in DOMAIN args' : mem[args'[i]] = "live"
    BY <1>2, <1>3
  <2> QED
    BY <2>1, <2>2 DEF IInv, Statements, IncRef
<1> QED
  BY <1>6, <1>7, <1>8, <1>9, <1>10 DEF IInv

LEMMA FillDoneStep ==
  ASSUME IInv, FillDone
  PROVE  IInv'
<1> USE DEF At, FillDone, loop, heap
<1>1. TypeOK'
  BY DEF IInv, TypeOK
<1>2. RefCountExact'
  <2> SUFFICES ASSUME NEW o \in Obj PROVE rc'[o] = Refs(o)'
    BY DEF RefCountExact
  <2>1. VarRefs(o)' = VarRefs(o)
    BY SameVars
  <2>2. SlotRefs(o)' = SlotRefs(o)
    BY SameSlots
  <2>3. Refs(o)' = Refs(o)
    BY <2>1, <2>2 DEF Refs
  <2> QED
    BY <2>3 DEF IInv, RefCountExact
<1>3. Lifecycle' /\ Contents' /\ Statements'
  BY DEF IInv, Lifecycle, Contents, Statements
<1> QED
  BY <1>1, <1>2, <1>3 DEF IInv

LEMMA AppendVarStep ==
  ASSUME IInv, NEW w \in Var, NEW u \in Var, AppendVar(w, u)
  PROVE  IInv'
<1> USE DEF At, AppendVar, stmt, loop
<1> DEFINE l == var[w]
           e == var[u]
<1>1. l \in Obj /\ mem[l] = "live" /\ e \in Obj /\ mem[e] = "live"
  BY VarLive
<1> HIDE DEF l, e
<1>2. /\ items' \in [Obj -> Seq(Obj)]
      /\ \A o \in Obj : o # l => items'[o] = items[o]
      /\ \A o \in Obj : Len(items'[o]) <= MaxLen /\ cursor[o] <= Len(items'[o])
      /\ \A o \in Obj : Cardinality(SlotRefs(o)') = Cardinality(SlotRefs(o)) + One(o = e)
  <2>1. /\ Len(items[l]) < MaxLen /\ items' = [items EXCEPT ![l] = Append(@, e)]
        /\ cursor' = cursor /\ pc # "replace" /\ pc' # "replace"
    BY DEF IncRef, l, e
  <2> HIDE DEF At, AppendVar
  <2> QED
    BY <1>1, <2>1, AppendSlot
<1>3. /\ rc' \in [Obj -> Nat] /\ Lifecycle'
      /\ \A o \in Obj : rc'[o] = rc[o] + One(o = e)
  BY <1>1, IncEffect DEF IncRef, e
<1>4. TypeOK'
  BY <1>2, <1>3 DEF IInv, TypeOK, IncRef
<1>5. RefCountExact'
  <2> SUFFICES ASSUME NEW o \in Obj PROVE rc'[o] = Refs(o)'
    BY DEF RefCountExact
  <2>1. VarRefs(o)' = VarRefs(o)
    BY SameVars
  <2>2. rc[o] = Refs(o) /\ lost[o] \in Nat
    BY DEF IInv, RefCountExact, TypeOK
  <2>3. Refs(o)' = Cardinality(VarRefs(o)) + Cardinality(SlotRefs(o)')
                     + One(tmp = o) + One(iter = o) + lost[o]
    BY <2>1 DEF Refs
  <2>4. Cardinality(SlotRefs(o)') = Cardinality(SlotRefs(o)) + One(o = e)
    BY <1>2
  <2>5. Refs(o)' = rc[o] + One(o = e)
    BY <2>2, <2>3, <2>4, RefsFinite DEF Refs, One
  <2> QED
    BY <1>3, <2>5
<1>6. Contents'
  BY <1>1, <1>2 DEF IInv, Contents, IncRef
<1>7. Statements'
  BY DEF IInv, Statements
<1> QED
  BY <1>3, <1>4, <1>5, <1>6, <1>7 DEF IInv

LEMMA AppendGetStep ==
  ASSUME IInv, NEW w \in Var, NEW u \in Var, NEW i \in 1 .. MaxLen, AppendGet(w, u, i)
  PROVE  IInv'
<1> USE DEF At, stmt, loop
<1> DEFINE l == var[w]
           e == items[var[u]][i]
<1>1. /\ pc = "idle" /\ Holds(w) /\ Holds(u) /\ i \in 1 .. Len(items[var[u]])
      /\ Len(items[l]) < MaxLen
      /\ items' = [items EXCEPT ![l] = Append(@, e)]
      /\ rc' = [rc EXCEPT ![e] = @ + 2]
      /\ lost' = [lost EXCEPT ![e] = @ + 1]
      /\ UNCHANGED <<mem, stack, cursor, var, stmt, loop>>
  BY DEF AppendGet
<1>2. l \in Obj /\ mem[l] = "live" /\ var[u] \in Obj /\ mem[var[u]] = "live"
  BY <1>1, VarLive
<1>3. e \in Obj /\ mem[e] = "live"
  BY <1>1, <1>2, ItemLive
<1> HIDE DEF l, e
<1>4. /\ items' \in [Obj -> Seq(Obj)]
      /\ \A o \in Obj : o # l => items'[o] = items[o]
      /\ \A o \in Obj : Len(items'[o]) <= MaxLen /\ cursor[o] <= Len(items'[o])
      /\ \A o \in Obj : Cardinality(SlotRefs(o)') = Cardinality(SlotRefs(o)) + One(o = e)
  BY <1>1, <1>2, <1>3, AppendSlot
<1>5. rc \in [Obj -> Nat] /\ lost \in [Obj -> Nat]
  BY DEF IInv, TypeOK
<1>6. /\ rc' \in [Obj -> Nat] /\ lost' \in [Obj -> Nat]
      /\ \A o \in Obj : rc'[o] = rc[o] + One(o = e) + One(o = e)
      /\ \A o \in Obj : lost'[o] = lost[o] + One(o = e)
  <2>1. rc' = [rc EXCEPT ![e] = @ + 2] /\ lost' = [lost EXCEPT ![e] = @ + 1]
    BY <1>1
  <2>2. rc' \in [Obj -> Nat] /\ \A o \in Obj : rc'[o] = rc[o] + One(o = e) + One(o = e)
    BY <1>3, <1>5, <2>1 DEF One
  <2>3. lost' \in [Obj -> Nat] /\ \A o \in Obj : lost'[o] = lost[o] + One(o = e)
    BY <1>3, <1>5, <2>1 DEF One
  <2> QED
    BY <2>2, <2>3
<1>7. TypeOK'
  BY <1>1, <1>4, <1>6 DEF IInv, TypeOK
<1>8. RefCountExact'
  <2> SUFFICES ASSUME NEW o \in Obj PROVE rc'[o] = Refs(o)'
    BY DEF RefCountExact
  <2>1. VarRefs(o)' = VarRefs(o)
    BY <1>1, SameVars
  <2>2. rc[o] = Refs(o) /\ lost[o] \in Nat
    BY DEF IInv, RefCountExact, TypeOK
  <2>3. Refs(o)' = Cardinality(VarRefs(o)) + Cardinality(SlotRefs(o)')
                     + One(tmp = o) + One(iter = o) + lost'[o]
    BY <1>1, <2>1 DEF Refs
  <2>4. /\ Cardinality(SlotRefs(o)') = Cardinality(SlotRefs(o)) + One(o = e)
        /\ lost'[o] = lost[o] + One(o = e)
    BY <1>4, <1>6
  <2>5. Refs(o)' = rc[o] + One(o = e) + One(o = e)
    BY <2>2, <2>3, <2>4, RefsFinite DEF Refs, One
  <2> QED
    BY <1>6, <2>5
<1>9. Lifecycle'
  <2>1. \A o \in Obj : rc'[o] > 0 <=> rc[o] > 0
    BY <1>3, <1>5, <1>6 DEF IInv, Lifecycle, One
  <2> QED
    BY <1>1, <2>1 DEF IInv, Lifecycle
<1>10. Contents'
  BY <1>1, <1>2, <1>4 DEF IInv, Contents
<1>11. Statements'
  BY <1>1 DEF IInv, Statements
<1> QED
  BY <1>7, <1>8, <1>9, <1>10, <1>11 DEF IInv

-----------------------------------------------------------------------------
(***************************************************************************)
(* Statements that release a reference.                                    *)
(***************************************************************************)

\* Dropping a reference leaves the contents of the lists as they are.
LEMMA DropContents ==
  ASSUME IInv, NEW e \in Obj, mem[e] = "live", Drop(e),
         UNCHANGED <<items, cursor>>, (pc = "clear" => pc' = "clear" /\ lst' = lst)
  PROVE  Contents'
<1> SUFFICES ASSUME NEW o \in Obj
             PROVE  /\ Len(items[o]) <= MaxLen /\ cursor[o] <= Len(items[o])
                    /\ mem'[o] = "free" => items[o] = << >>
                    /\ cursor[o] > 0 => mem'[o] = "dying" \/ (pc' = "clear" /\ o = lst')
  BY DEF Contents
<1>1. mem'[o] = "free" <=> mem[o] = "free"
  BY DropEffect
<1>2. mem[o] = "dying" => mem'[o] = "dying"
  BY DropEffect
<1> QED
  BY <1>1, <1>2 DEF IInv, Contents

LEMMA DiscardTempStep ==
  ASSUME IInv, DiscardTemp
  PROVE  IInv'
<1> USE DEF At, DiscardTemp, loop, Done
<1>1. tmp \in Obj /\ mem[tmp] = "live" /\ Drop(tmp) /\ cursor' = cursor
  <2>1. tmp \in Obj
    BY DEF IInv, Statements, TypeOK
  <2> QED
    BY <2>1, CountedIsLive DEF DecRef
<1> DEFINE e == tmp
<1> HIDE DEF e
<1>2. /\ rc' \in [Obj -> Nat] /\ mem' \in [Obj -> {"free", "live", "dying"}]
      /\ stack' \in Seq(Obj) /\ Lifecycle'
      /\ \A o \in Obj : rc'[o] = rc[o] - One(o = e)
  BY <1>1, DropEffect DEF e
<1>3. TypeOK'
  BY <1>1, <1>2 DEF IInv, TypeOK
<1>4. RefCountExact'
  <2> SUFFICES ASSUME NEW o \in Obj PROVE rc'[o] = Refs(o)'
    BY DEF RefCountExact
  <2>1. VarRefs(o)' = VarRefs(o)
    BY SameVars
  <2>2. SlotRefs(o)' = SlotRefs(o)
    BY <1>1, SameSlots
  <2>3. rc[o] = Refs(o) /\ lost[o] \in Nat /\ rc'[o] = rc[o] - One(o = e)
    BY <1>2 DEF IInv, RefCountExact, TypeOK
  <2>4. Refs(o)' = Cardinality(VarRefs(o)) + Cardinality(SlotRefs(o))
                     + One(NULL = o) + One(iter = o) + lost[o]
    BY <2>1, <2>2 DEF Refs
  <2>5. Refs(o)' = Refs(o) - One(o = e)
    BY <2>3, <2>4, RefsFinite DEF Refs, One, e
  <2> QED
    BY <2>3, <2>5
<1>5. Contents'
  BY <1>1, DropContents
<1>6. Statements'
  BY DEF IInv, Statements
<1> QED
  BY <1>2, <1>3, <1>4, <1>5, <1>6 DEF IInv

LEMMA ReleaseTargetStep ==
  ASSUME IInv, ReleaseTarget
  PROVE  IInv'
<1> USE DEF At, ReleaseTarget, loop
<1>1. /\ pc = "release" /\ pc' = "store" /\ dst \in Var /\ tmp # NULL
      /\ UNCHANGED <<items, var, dst, tmp, lst, at, arg, args, iter, idx, lost>>
  BY DEF IInv, Statements
<1>2. CASE var[dst] = NULL
  <2>1. UNCHANGED <<rc, mem, stack, cursor>>
    BY <1>2 DEF DecRef
  <2>2. TypeOK'
    BY <1>1, <2>1 DEF IInv, TypeOK
  <2>3. RefCountExact'
    <3> SUFFICES ASSUME NEW o \in Obj PROVE rc'[o] = Refs(o)'
      BY DEF RefCountExact
    <3>1. VarRefs(o)' = VarRefs(o)
      BY <1>1, <1>2 DEF VarRefs
    <3>2. SlotRefs(o)' = SlotRefs(o)
      BY <1>1, <2>1, SameSlots
    <3>3. Refs(o)' = Refs(o)
      BY <1>1, <3>1, <3>2 DEF Refs
    <3> QED
      BY <2>1, <3>3 DEF IInv, RefCountExact
  <2>4. Lifecycle' /\ Contents' /\ Statements'
    BY <1>1, <2>1 DEF IInv, Lifecycle, Contents, Statements
  <2> QED
    BY <2>2, <2>3, <2>4 DEF IInv
<1>3. CASE var[dst] # NULL
  <2> DEFINE e == var[dst]
  <2>1. e \in Obj /\ mem[e] = "live" /\ Drop(e) /\ cursor' = cursor
    BY <1>1, <1>3, VarLive DEF DecRef, Holds
  <2> HIDE DEF e
  <2>2. /\ rc' \in [Obj -> Nat] /\ mem' \in [Obj -> {"free", "live", "dying"}]
        /\ stack' \in Seq(Obj) /\ Lifecycle'
        /\ \A o \in Obj : rc'[o] = rc[o] - One(o = e)
    BY <2>1, DropEffect
  <2>3. TypeOK'
    <3>1. TypeOK
      BY DEF IInv
    <3> QED
      BY <1>1, <2>1, <2>2, <3>1 DEF TypeOK
  <2>4. RefCountExact'
    <3> SUFFICES ASSUME NEW o \in Obj PROVE rc'[o] = Refs(o)'
      BY DEF RefCountExact
    <3> DEFINE v == dst
    <3>0. v \in Var /\ var[v] = e
      BY <1>1 DEF e
    <3>a. /\ \A u \in Var : u # v => (var'[u] = var[u] /\ ~(pc' = "store" /\ u = dst'))
          /\ var'[v] = NULL \/ (pc' = "store" /\ dst' = v)
          /\ pc # "store"
      BY <1>1
    <3> HIDE DEF v
    <3>1. Cardinality(VarRefs(o)') = Cardinality(VarRefs(o)) - One(o = e)
      BY <1>1, <3>0, <3>a, VarLost
    <3>2. SlotRefs(o)' = SlotRefs(o)
      BY <1>1, <2>1, SameSlots
    <3>3. rc[o] = Refs(o) /\ lost[o] \in Nat /\ rc'[o] = rc[o] - One(o = e)
      BY <2>2 DEF IInv, RefCountExact, TypeOK
    <3>4. Refs(o)' = Cardinality(VarRefs(o)') + Cardinality(SlotRefs(o))
                       + One(tmp = o) + One(iter = o) + lost[o]
      BY <1>1, <3>2 DEF Refs
    <3>5. Refs(o)' = Refs(o) - One(o = e)
      BY <3>1, <3>3, <3>4, RefsFinite DEF Refs, One
    <3> QED
      BY <3>3, <3>5
  <2>5. Contents'
    BY <1>1, <2>1, DropContents
  <2>6. Statements'
    BY <1>1 DEF IInv, Statements
  <2> QED
    BY <2>2, <2>3, <2>4, <2>5, <2>6 DEF IInv
<1> QED
  BY <1>2, <1>3

LEMMA StoreTargetStep ==
  ASSUME IInv, StoreTarget
  PROVE  IInv'
<1> USE DEF At, StoreTarget, loop, heap, Done
<1> DEFINE v == dst
           e == tmp
<1>1. v \in Var /\ e \in Obj /\ pc = "store" /\ pc' = "idle" /\ var' = [var EXCEPT ![v] = e]
      /\ UNCHANGED <<rc, mem, stack, cursor, items, iter, idx, lost>>
  BY DEF IInv, Statements, TypeOK
<1>2. var \in [Var -> Obj \cup {NULL}]
  BY DEF IInv, TypeOK
<1>3. TypeOK'
  BY <1>1, <1>2 DEF IInv, TypeOK
<1>4. RefCountExact'
  <2> SUFFICES ASSUME NEW o \in Obj PROVE rc'[o] = Refs(o)'
    BY DEF RefCountExact
  <2>1. /\ pc = "store" /\ dst = v /\ pc' # "store" /\ var'[v] = e
        /\ \A u \in Var : u # v => (var'[u] = var[u] /\ ~(pc = "store" /\ u = dst))
    BY <1>1, <1>2
  <2>2. SlotRefs(o)' = SlotRefs(o)
    BY <1>1, SameSlots
  <2>3. rc[o] = Refs(o) /\ lost[o] \in Nat
    BY DEF IInv, RefCountExact, TypeOK
  <2>4. Refs(o)' = Cardinality(VarRefs(o)') + Cardinality(SlotRefs(o))
                     + One(NULL = o) + One(iter = o) + lost[o]
    BY <1>1, <2>2 DEF Refs
  <2>5. Refs(o) = Cardinality(VarRefs(o)) + Cardinality(SlotRefs(o))
                     + One(e = o) + One(iter = o) + lost[o]
    BY DEF Refs
  <2> HIDE DEF v, e, StoreTarget
  <2>6. Cardinality(VarRefs(o)') = Cardinality(VarRefs(o)) + One(o = e)
    BY <1>1, <2>1, VarGained
  <2>7. Refs(o)' = Refs(o)
    BY <2>3, <2>4, <2>5, <2>6, RefsFinite DEF One
  <2> QED
    BY <1>1, <2>3, <2>7
<1>5. Lifecycle' /\ Contents' /\ Statements'
  BY <1>1 DEF IInv, Lifecycle, Contents, Statements
<1> QED
  BY <1>3, <1>4, <1>5 DEF IInv

LEMMA DropVarStep ==
  ASSUME IInv, NEW v \in Var, DropVar(v)
  PROVE  IInv'
<1> USE DEF At, DropVar, loop, stmt
<1> DEFINE e == var[v]
<1>1. /\ e \in Obj /\ mem[e] = "live" /\ Drop(e) /\ cursor' = cursor
      /\ pc = "idle" /\ var' = [var EXCEPT ![v] = NULL] /\ var \in [Var -> Obj \cup {NULL}]
      /\ UNCHANGED <<items, pc, dst, tmp, lst, at, arg, args, iter, idx, lost>>
  BY VarLive DEF DecRef, Holds, IInv, TypeOK
<1>2. var[v] = e
  OBVIOUS
<1> HIDE DEF e, DropVar
<1>3. /\ rc' \in [Obj -> Nat] /\ mem' \in [Obj -> {"free", "live", "dying"}]
      /\ stack' \in Seq(Obj) /\ Lifecycle'
      /\ \A o \in Obj : rc'[o] = rc[o] - One(o = e)
  BY <1>1, DropEffect
<1>4. TypeOK'
  BY <1>1, <1>3 DEF IInv, TypeOK
<1>5. RefCountExact'
  <2> SUFFICES ASSUME NEW o \in Obj PROVE rc'[o] = Refs(o)'
    BY DEF RefCountExact
  <2>1. Cardinality(VarRefs(o)') = Cardinality(VarRefs(o)) - One(o = e)
    BY <1>1, <1>2, VarLost
  <2>2. SlotRefs(o)' = SlotRefs(o)
    BY <1>1, SameSlots
  <2>3. rc[o] = Refs(o) /\ lost[o] \in Nat /\ rc'[o] = rc[o] - One(o = e)
    BY <1>3 DEF IInv, RefCountExact, TypeOK
  <2>4. Refs(o)' = Cardinality(VarRefs(o)') + Cardinality(SlotRefs(o))
                     + One(tmp = o) + One(iter = o) + lost[o]
    BY <1>1, <2>2 DEF Refs
  <2>5. Refs(o)' = Refs(o) - One(o = e)
    BY <2>1, <2>3, <2>4, RefsFinite DEF Refs, One
  <2> QED
    BY <2>3, <2>5
<1>6. Contents'
  BY <1>1, DropContents
<1>7. Statements'
  BY <1>1 DEF IInv, Statements
<1> QED
  BY <1>3, <1>4, <1>5, <1>6, <1>7 DEF IInv

\* The loop of a for statement takes a reference and gives it back.
LEMMA ForStartStep ==
  ASSUME IInv, NEW e \in Obj, mem[e] = "live", ForStart(e)
  PROVE  IInv'
<1> USE DEF At, ForStart, stmt
<1>1. /\ rc' \in [Obj -> Nat] /\ Lifecycle'
      /\ \A o \in Obj : rc'[o] = rc[o] + One(o = e)
  BY IncEffect DEF IncRef
<1>2. TypeOK'
  BY <1>1 DEF IInv, TypeOK, IncRef
<1>3. RefCountExact'
  <2> SUFFICES ASSUME NEW o \in Obj PROVE rc'[o] = Refs(o)'
    BY DEF RefCountExact
  <2>1. VarRefs(o)' = VarRefs(o)
    BY SameVars
  <2>2. SlotRefs(o)' = SlotRefs(o)
    BY SameSlots DEF IncRef
  <2>3. iter = NULL /\ rc[o] = Refs(o) /\ lost[o] \in Nat /\ rc'[o] = rc[o] + One(o = e)
    BY <1>1 DEF IInv, RefCountExact, TypeOK
  <2>4. Refs(o)' = Cardinality(VarRefs(o)) + Cardinality(SlotRefs(o))
                     + One(tmp = o) + One(e = o) + lost[o]
    BY <2>1, <2>2 DEF Refs
  <2>5. Refs(o)' = Refs(o) + One(o = e)
    BY <2>3, <2>4, RefsFinite DEF Refs, One
  <2> QED
    BY <2>3, <2>5
<1>4. Contents'
  BY DEF IInv, Contents, IncRef
<1>5. Statements'
  BY DEF IInv, Statements, IncRef
<1> QED
  BY <1>1, <1>2, <1>3, <1>4, <1>5 DEF IInv

LEMMA ForVarStep ==
  ASSUME IInv, NEW w \in Var, ForVar(w)
  PROVE  IInv'
<1>1. var[w] \in Obj /\ mem[var[w]] = "live"
  BY VarLive DEF ForVar, ForStart, At
<1> QED
  BY <1>1, ForStartStep DEF ForVar

LEMMA ForGetStep ==
  ASSUME IInv, NEW w \in Var, NEW i \in 1 .. MaxLen, ForGet(w, i)
  PROVE  IInv'
<1>1. var[w] \in Obj /\ mem[var[w]] = "live"
  BY VarLive DEF ForGet, ForStart, At
<1>2. items[var[w]][i] \in Obj /\ mem[items[var[w]][i]] = "live"
  BY <1>1, ItemLive DEF ForGet, ForStart, At
<1> QED
  BY <1>2, ForStartStep DEF ForGet

LEMMA ForNextStep ==
  ASSUME IInv, ForNext
  PROVE  IInv'
<1> USE DEF At, stmt
<1> DEFINE e == items[iter][idx + 1]
<1>1. /\ iter \in Obj /\ idx \in Nat /\ idx < Len(items[iter]) /\ pc = "idle"
      /\ var[LoopVar] = NULL /\ rc' = [rc EXCEPT ![e] = @ + 1]
      /\ var' = [var EXCEPT ![LoopVar] = e] /\ idx' = idx + 1
      /\ var \in [Var -> Obj \cup {NULL}]
      /\ UNCHANGED <<mem, stack, cursor, items, pc, dst, tmp, lst, at, arg, args, iter, lost>>
  BY DEF ForNext, IInv, TypeOK, Holds, IncRef
<1>2. mem[iter] = "live"
  BY <1>1, CountedIsLive
<1>3. items[iter] \in Seq(Obj)
  BY <1>1 DEF IInv, TypeOK
<1>4. idx + 1 \in 1 .. Len(items[iter])
  BY <1>1, <1>3
<1>5. e \in Obj /\ mem[e] = "live"
  BY <1>1, <1>2, <1>4, ItemLive
<1> HIDE DEF e
<1>6. /\ rc' \in [Obj -> Nat] /\ Lifecycle'
      /\ \A o \in Obj : rc'[o] = rc[o] + One(o = e)
  BY <1>1, <1>5, IncEffect
<1>7. TypeOK'
  <2>1. var' \in [Var -> Obj \cup {NULL}] /\ idx' \in Nat
    BY <1>1, <1>5
  <2> QED
    BY <1>1, <1>6, <2>1 DEF IInv, TypeOK
<1>8. RefCountExact'
  <2> SUFFICES ASSUME NEW o \in Obj PROVE rc'[o] = Refs(o)'
    BY DEF RefCountExact
  <2>1. /\ pc # "store" /\ pc' # "store" /\ var'[LoopVar] = e
        /\ \A u \in Var : u # LoopVar => (var'[u] = var[u] /\ ~(pc = "store" /\ u = dst))
    BY <1>1
  <2>2. Cardinality(VarRefs(o)') = Cardinality(VarRefs(o)) + One(o = e)
    BY <1>1, <2>1, VarGained
  <2>3. SlotRefs(o)' = SlotRefs(o)
    BY <1>1, SameSlots
  <2>4. rc[o] = Refs(o) /\ lost[o] \in Nat /\ rc'[o] = rc[o] + One(o = e)
    BY <1>6 DEF IInv, RefCountExact, TypeOK
  <2>5. Refs(o)' = Cardinality(VarRefs(o)') + Cardinality(SlotRefs(o))
                     + One(tmp = o) + One(iter = o) + lost[o]
    BY <1>1, <2>3 DEF Refs
  <2>6. Refs(o)' = Refs(o) + One(o = e)
    BY <2>2, <2>4, <2>5, RefsFinite DEF Refs, One
  <2> QED
    BY <2>4, <2>6
<1>9. Contents'
  BY <1>1 DEF IInv, Contents
<1>10. Statements'
  BY <1>1 DEF IInv, Statements
<1> QED
  BY <1>6, <1>7, <1>8, <1>9, <1>10 DEF IInv

LEMMA ForEndStep ==
  ASSUME IInv, ForEnd
  PROVE  IInv'
<1> USE DEF At, ForEnd, stmt
<1> DEFINE e == iter
<1>1. e \in Obj /\ mem[e] = "live" /\ Drop(e) /\ cursor' = cursor
  <2>1. iter \in Obj
    BY DEF IInv, TypeOK
  <2> QED
    BY <2>1, CountedIsLive DEF DecRef
<1> HIDE DEF e
<1>3. /\ rc' \in [Obj -> Nat] /\ mem' \in [Obj -> {"free", "live", "dying"}]
      /\ stack' \in Seq(Obj) /\ Lifecycle'
      /\ \A o \in Obj : rc'[o] = rc[o] - One(o = e)
  BY <1>1, DropEffect DEF e
<1>4. TypeOK'
  BY <1>1, <1>3 DEF IInv, TypeOK
<1>5. RefCountExact'
  <2> SUFFICES ASSUME NEW o \in Obj PROVE rc'[o] = Refs(o)'
    BY DEF RefCountExact
  <2>1. VarRefs(o)' = VarRefs(o)
    BY SameVars
  <2>2. SlotRefs(o)' = SlotRefs(o)
    BY <1>1, SameSlots
  <2>3. rc[o] = Refs(o) /\ lost[o] \in Nat /\ rc'[o] = rc[o] - One(o = e)
    BY <1>3 DEF IInv, RefCountExact, TypeOK
  <2>4. Refs(o)' = Cardinality(VarRefs(o)) + Cardinality(SlotRefs(o))
                     + One(tmp = o) + One(NULL = o) + lost[o]
    BY <2>1, <2>2 DEF Refs
  <2>5. Refs(o)' = Refs(o) - One(o = e)
    BY <2>3, <2>4, RefsFinite DEF Refs, One, e
  <2> QED
    BY <2>3, <2>5
<1>6. Contents'
  BY <1>1, DropContents
<1>7. Statements'
  BY DEF IInv, Statements
<1> QED
  BY <1>3, <1>4, <1>5, <1>6, <1>7 DEF IInv

-----------------------------------------------------------------------------
(***************************************************************************)
(* Item assignment.                                                        *)
(***************************************************************************)

\* set releases the element in slot <<l, i>>: SetVar and SetGet.
LEMMA SetRelease ==
  ASSUME IInv, pc \in {"idle", "set"}, NEW l \in Obj, mem[l] = "live",
         NEW i \in 1 .. Len(items[l]),
         Drop(items[l][i]), cursor' = cursor, pc' = "replace", lst' = l, at' = i,
         arg' \in Obj, Statements',
         UNCHANGED <<items, var, dst, tmp, args, iter, idx, lost>>
  PROVE  IInv'
<1> DEFINE e == items[l][i]
           s == <<l, i>>
<1>1. e \in Obj /\ mem[e] = "live" /\ s \in Slot /\ InUse(s)
  BY ItemLive
<1>2. items[s[1]][s[2]] = e /\ Drop(e)
  OBVIOUS
<1>3. i \in Nat
  BY DEF IInv, TypeOK
<1> HIDE DEF e
<1>4. /\ rc' \in [Obj -> Nat] /\ mem' \in [Obj -> {"free", "live", "dying"}]
      /\ stack' \in Seq(Obj) /\ Lifecycle'
      /\ \A o \in Obj : rc'[o] = rc[o] - One(o = e)
  BY <1>1, <1>2, DropEffect
<1>5. TypeOK'
  BY <1>3, <1>4 DEF IInv, TypeOK
<1>6. RefCountExact'
  <2> SUFFICES ASSUME NEW o \in Obj PROVE rc'[o] = Refs(o)'
    BY DEF RefCountExact
  <2>1. VarRefs(o)' = VarRefs(o)
    BY SameVars
  <2>2. \A t \in Slot : InUse(t)' <=> InUse(t) /\ t # s
    BY DEF InUse
  <2>3. \A t \in Slot : InUse(t)' => items'[t[1]][t[2]] = items[t[1]][t[2]]
    OBVIOUS
  <2> HIDE DEF s
  <2>4. Cardinality(SlotRefs(o)') = Cardinality(SlotRefs(o)) - One(o = e)
    BY <1>1, <1>2, <2>2, <2>3, SlotLost
  <2>5. rc[o] = Refs(o) /\ lost[o] \in Nat /\ rc'[o] = rc[o] - One(o = e)
    BY <1>4 DEF IInv, RefCountExact, TypeOK
  <2>6. Refs(o)' = Cardinality(VarRefs(o)) + Cardinality(SlotRefs(o)')
                     + One(tmp = o) + One(iter = o) + lost[o]
    BY <2>1 DEF Refs
  <2> DEFINE v == Cardinality(VarRefs(o))
             n == Cardinality(SlotRefs(o))
  <2>a. Refs(o) = v + n + One(tmp = o) + One(iter = o) + lost[o] /\ v \in Nat /\ n \in Nat
    BY RefsFinite DEF Refs
  <2>b. Refs(o)' = v + (n - One(o = e)) + One(tmp = o) + One(iter = o) + lost[o]
    BY <2>4, <2>6
  <2> HIDE DEF v, n
  <2>7. Refs(o)' = Refs(o) - One(o = e)
    BY <2>5, <2>a, <2>b DEF One
  <2> QED
    BY <2>5, <2>7
<1>7. Contents'
  BY <1>1, <1>2, DropContents
<1> QED
  BY <1>4, <1>5, <1>6, <1>7 DEF IInv

LEMMA SetVarStep ==
  ASSUME IInv, NEW w \in Var, NEW u \in Var, NEW i \in 1 .. MaxLen, SetVar(w, i, u)
  PROVE  IInv'
<1> USE DEF At, SetVar, SetItem, loop
<1>1. var[w] \in Obj /\ mem[var[w]] = "live" /\ var[u] \in Obj
  BY VarLive
<1>2. items[var[w]][i] \in Obj
  BY <1>1, ItemLive
<1>3. Drop(items[var[w]][i]) /\ cursor' = cursor
  BY <1>2 DEF DecRef
<1>4. Statements'
  BY <1>1 DEF IInv, Statements
<1> QED
  BY <1>1, <1>3, <1>4, SetRelease

LEMMA SetGetStep ==
  ASSUME IInv, SetGet
  PROVE  IInv'
<1> USE DEF At, SetGet, loop
<1>1. /\ pc = "set" /\ lst \in Obj /\ at \in 1 .. Len(items[lst]) /\ arg \in Obj
      /\ tmp = arg /\ \E v \in Var : var[v] = lst
  BY DEF IInv, Statements, TypeOK
<1>2. mem[lst] = "live"
  BY <1>1, VarLive DEF Holds
<1>3. items[lst][at] \in Obj
  BY <1>1, <1>2, ItemLive
<1>4. Drop(items[lst][at]) /\ cursor' = cursor
  BY <1>3 DEF DecRef
<1>5. Statements'
  BY <1>1 DEF IInv, Statements
<1> DEFINE l == lst
           i == at
<1>6. /\ l \in Obj /\ mem[l] = "live" /\ i \in 1 .. Len(items[l])
      /\ Drop(items[l][i]) /\ cursor' = cursor /\ pc' = "replace" /\ lst' = l /\ at' = i
      /\ arg' \in Obj /\ UNCHANGED <<items, var, dst, tmp, args, iter, idx, lost>>
  BY <1>1, <1>2, <1>4
<1> HIDE DEF l, i, SetGet
<1> QED
  BY <1>1, <1>5, <1>6, SetRelease

LEMMA EvalGetStep ==
  ASSUME IInv, NEW w \in Var, NEW u \in Var, NEW i \in 1 .. MaxLen, NEW j \in 1 .. MaxLen,
         EvalGet(w, i, u, j)
  PROVE  IInv'
<1> USE DEF At, loop
<1> DEFINE e == items[var[u]][j]
<1>1. var[w] \in Obj /\ mem[var[w]] = "live" /\ var[u] \in Obj /\ mem[var[u]] = "live"
  BY VarLive DEF EvalGet
<1>2. e \in Obj /\ mem[e] = "live"
  BY <1>1, ItemLive DEF EvalGet
<1>3. /\ pc = "idle" /\ stack = << >> /\ IncRef(e) /\ tmp' = e /\ arg' = e
      /\ pc' = "set" /\ lst' = var[w] /\ at' = i /\ i \in 1 .. Len(items[var[w]])
      /\ UNCHANGED <<items, var, dst, args, iter, idx, lost>>
  BY DEF EvalGet
<1> HIDE DEF e
<1>4. /\ rc' \in [Obj -> Nat] /\ Lifecycle'
      /\ \A o \in Obj : rc'[o] = rc[o] + One(o = e)
  BY <1>2, <1>3, IncEffect DEF IncRef
<1>5. TypeOK'
  <2>1. at' \in Nat /\ lst' \in Obj /\ tmp' \in Obj /\ arg' \in Obj
    BY <1>1, <1>2, <1>3
  <2>2. UNCHANGED <<mem, stack, cursor>>
    BY <1>3 DEF IncRef
  <2> QED
    BY <1>3, <1>4, <2>1, <2>2 DEF IInv, TypeOK
<1>6. RefCountExact'
  <2> SUFFICES ASSUME NEW o \in Obj PROVE rc'[o] = Refs(o)'
    BY DEF RefCountExact
  <2>1. VarRefs(o)' = VarRefs(o)
    BY <1>3, SameVars
  <2>2. SlotRefs(o)' = SlotRefs(o)
    BY <1>3, SameSlots DEF IncRef
  <2>3. tmp = NULL /\ rc[o] = Refs(o) /\ lost[o] \in Nat /\ rc'[o] = rc[o] + One(o = e)
    BY <1>3, <1>4 DEF IInv, RefCountExact, Statements, TypeOK
  <2>4. Refs(o)' = Cardinality(VarRefs(o)) + Cardinality(SlotRefs(o))
                     + One(e = o) + One(iter = o) + lost[o]
    BY <1>3, <2>1, <2>2 DEF Refs
  <2>5. Refs(o)' = Refs(o) + One(o = e)
    BY <2>3, <2>4, RefsFinite DEF Refs, One
  <2> QED
    BY <2>3, <2>5
<1>7. Contents'
  BY <1>3 DEF IInv, Contents, IncRef
<1>8. Statements'
  BY <1>1, <1>2, <1>3 DEF IInv, Statements
<1> QED
  BY <1>4, <1>5, <1>6, <1>7, <1>8 DEF IInv

LEMMA ReplaceStoreStep ==
  ASSUME IInv, ReplaceStore
  PROVE  IInv'
<1> USE DEF At
<1> DEFINE l == lst
           i == at
           e == arg
           s == <<l, i>>
<1>1. /\ l \in Obj /\ i \in 1 .. Len(items[l]) /\ e \in Obj
      /\ tmp = e \/ (tmp = NULL /\ \E v \in Var : var[v] = e)
      /\ \E v \in Var : var[v] = l
  BY DEF ReplaceStore, IInv, Statements, TypeOK
<1>2. mem[l] = "live" /\ mem[e] = "live"
  BY <1>1, VarLive, CountedIsLive DEF Holds, ReplaceStore
<1>3. items \in [Obj -> Seq(Obj)] /\ items[l] \in Seq(Obj) /\ Len(items[l]) \in Nat
  <2>1. items \in [Obj -> Seq(Obj)]
    BY DEF IInv, TypeOK
  <2> QED
    BY <1>1, <2>1
<1>4. /\ pc = "replace" /\ lst = l /\ at = i /\ stack = << >> /\ IncRef(e)
      /\ items' = [items EXCEPT ![l] = [items[l] EXCEPT ![i] = e]]
      /\ lost' = IF tmp = NULL THEN lost ELSE [lost EXCEPT ![tmp] = @ + 1]
      /\ pc' = "idle" /\ dst' = NULL /\ tmp' = NULL /\ lst' = NULL /\ at' = 0 /\ arg' = NULL
      /\ args' = << >> /\ UNCHANGED <<var, iter, idx>>
  BY <1>1, <1>3 DEF ReplaceStore, Done, loop
<1>5. lost \in [Obj -> Nat]
  BY DEF IInv, TypeOK
<1> HIDE DEF l, i, e
<1>6. /\ [items[l] EXCEPT ![i] = e] \in Seq(Obj)
      /\ Len([items[l] EXCEPT ![i] = e]) = Len(items[l])
      /\ \A k \in 1 .. Len(items[l]) : k # i => [items[l] EXCEPT ![i] = e][k] = items[l][k]
      /\ [items[l] EXCEPT ![i] = e][i] = e
  BY <1>1, <1>3
<1>7. /\ items' \in [Obj -> Seq(Obj)]
      /\ \A o \in Obj : Len(items'[o]) = Len(items[o])
      /\ \A k \in Obj : k # l => items'[k] = items[k]
      /\ items'[l] = [items[l] EXCEPT ![i] = e]
  BY <1>1, <1>3, <1>4, <1>6
<1>8. /\ rc' \in [Obj -> Nat] /\ Lifecycle'
      /\ \A o \in Obj : rc'[o] = rc[o] + One(o = e)
  BY <1>1, <1>2, <1>4, IncEffect DEF IncRef
<1>9. lost' \in [Obj -> Nat] /\ \A o \in Obj : lost'[o] = lost[o] + One(tmp = o)
  BY <1>1, <1>4, <1>5 DEF One
<1>10. TypeOK'
  BY <1>4, <1>7, <1>8, <1>9 DEF IInv, TypeOK, IncRef
<1>11. RefCountExact'
  <2> SUFFICES ASSUME NEW o \in Obj PROVE rc'[o] = Refs(o)'
    BY DEF RefCountExact
  <2>1. VarRefs(o)' = VarRefs(o)
    BY <1>4, SameVars
  <2>2. s \in Slot /\ ~InUse(s)
    <3>1. Len(items[l]) <= MaxLen
      BY <1>1 DEF IInv, Contents
    <3>2. i \in 1 .. MaxLen
      BY <1>1, <1>3, <3>1
    <3> QED
      BY <1>1, <1>4, <3>2 DEF InUse, Slot
  <2>3. items'[s[1]][s[2]] = e
    BY <1>6, <1>7
  <2>4. cursor[l] = 0
    <3>1. cursor[l] \in Nat
      BY <1>1 DEF IInv, TypeOK
    <3>2. ~(cursor[l] > 0)
      BY <1>1, <1>2, <1>4 DEF IInv, Contents
    <3> QED
      BY <3>1, <3>2
  <2>5. \A t \in Slot : InUse(t)' <=> InUse(t) \/ t = s
    <3> SUFFICES ASSUME NEW t \in Slot PROVE InUse(t)' <=> InUse(t) \/ t = s
      OBVIOUS
    <3>1. t[1] \in Obj /\ t[2] \in 1 .. MaxLen /\ t = <<t[1], t[2]>>
      BY DEF Slot
    <3>2. Len(items'[t[1]]) = Len(items[t[1]]) /\ cursor' = cursor
      BY <1>4, <1>7, <3>1 DEF IncRef
    <3> QED
      BY <1>1, <1>4, <2>4, <3>1, <3>2 DEF InUse
  <2>6. \A t \in Slot : InUse(t) => items'[t[1]][t[2]] = items[t[1]][t[2]]
    <3> SUFFICES ASSUME NEW t \in Slot, InUse(t) PROVE items'[t[1]][t[2]] = items[t[1]][t[2]]
      OBVIOUS
    <3>1. t[1] \in Obj /\ t[2] \in 1 .. Len(items[t[1]]) /\ t # s /\ t = <<t[1], t[2]>>
      BY <1>4 DEF Slot, InUse
    <3>2. CASE t[1] = l
      <4>1. t[2] # i /\ t[2] \in 1 .. Len(items[l])
        BY <3>1, <3>2
      <4>2. items'[l][t[2]] = items[l][t[2]]
        BY <1>6, <1>7, <4>1
      <4> QED
        BY <3>2, <4>2
    <3>3. CASE t[1] # l
      BY <1>7, <3>1, <3>3
    <3> QED
      BY <3>2, <3>3
  <2> HIDE DEF s
  <2>7. Cardinality(SlotRefs(o)') = Cardinality(SlotRefs(o)) + One(o = e)
    BY <1>1, <2>2, <2>3, <2>5, <2>6, SlotGained
  <2>8. rc[o] = Refs(o) /\ rc'[o] = rc[o] + One(o = e) /\ lost'[o] = lost[o] + One(tmp = o)
    BY <1>8, <1>9 DEF IInv, RefCountExact
  <2>9. lost[o] \in Nat
    BY <1>5
  <2>10. Refs(o)' = Cardinality(VarRefs(o)) + Cardinality(SlotRefs(o)')
                     + One(NULL = o) + One(iter = o) + lost'[o]
    BY <1>4, <2>1 DEF Refs
  <2>11. Refs(o)' = Refs(o) + One(o = e)
    BY <2>7, <2>8, <2>9, <2>10, RefsFinite DEF Refs, One
  <2> QED
    BY <2>8, <2>11
<1>12. Contents'
  BY <1>2, <1>4, <1>7 DEF IInv, Contents, IncRef, TypeOK
<1>13. Statements'
  BY <1>4 DEF IInv, Statements
<1> QED
  BY <1>8, <1>10, <1>11, <1>12, <1>13 DEF IInv

-----------------------------------------------------------------------------
(***************************************************************************)
(* The loops of clear and of decref.                                       *)
(***************************************************************************)

LEMMA ClearStart ==
  ASSUME IInv, NEW w \in Var, Clear(w)
  PROVE  IInv'
<1> USE DEF At, Clear, loop, heap
<1>1. var[w] \in Obj
  BY VarLive
<1>2. TypeOK'
  BY <1>1 DEF IInv, TypeOK
<1>3. RefCountExact'
  <2> SUFFICES ASSUME NEW o \in Obj PROVE rc'[o] = Refs(o)'
    BY DEF RefCountExact
  <2>1. VarRefs(o)' = VarRefs(o)
    BY SameVars
  <2>2. SlotRefs(o)' = SlotRefs(o)
    BY SameSlots
  <2>3. Refs(o)' = Refs(o)
    BY <2>1, <2>2 DEF Refs
  <2> QED
    BY <2>3 DEF IInv, RefCountExact
<1>4. Lifecycle' /\ Contents'
  BY DEF IInv, Lifecycle, Contents
<1>5. Statements'
  BY <1>1 DEF IInv, Statements
<1> QED
  BY <1>2, <1>3, <1>4, <1>5 DEF IInv

\* One iteration of either loop: element cursor[l] of l is released.
LEMMA ReleaseNext ==
  ASSUME IInv, NEW l \in Obj, pc # "replace" \/ l # lst,
         cursor[l] < Len(items[l]), mem[l] = "dying" \/ (pc = "clear" /\ l = lst),
         pc = "fill" => stack # << >>,
         Drop(items[l][cursor[l] + 1]), cursor' = [cursor EXCEPT ![l] = @ + 1],
         UNCHANGED <<items, var, pc, dst, tmp, lst, at, arg, args, iter, idx, lost>>
  PROVE  IInv'
<1> DEFINE k == cursor[l] + 1
           e == items[l][k]
           s == <<l, k>>
<1>1. items[l] \in Seq(Obj) /\ cursor[l] \in Nat /\ cursor \in [Obj -> Nat]
  BY DEF IInv, TypeOK
<1>2. k \in 1 .. Len(items[l]) /\ Len(items[l]) \in Nat /\ Len(items[l]) <= MaxLen
  BY <1>1 DEF IInv, Contents
<1>3. s \in Slot /\ InUse(s) /\ e \in Obj
  BY <1>1, <1>2 DEF Slot, InUse
<1>4. mem[e] = "live"
  <2>1. s \in SlotRefs(e)
    BY <1>3 DEF SlotRefs, Slot
  <2> QED
    BY <1>3, <2>1, CountedIsLive
<1>5. /\ items[s[1]][s[2]] = e /\ Drop(e)
      /\ cursor'[l] = k /\ \A o \in Obj : o # l => cursor'[o] = cursor[o]
      /\ cursor' \in [Obj -> Nat]
  BY <1>1
<1> HIDE DEF e
<1>6. /\ rc' \in [Obj -> Nat] /\ mem' \in [Obj -> {"free", "live", "dying"}]
      /\ stack' \in Seq(Obj) /\ Lifecycle'
      /\ \A o \in Obj : rc'[o] = rc[o] - One(o = e)
      /\ \A o \in Obj : mem'[o] = "free" <=> mem[o] = "free"
      /\ \A o \in Obj : mem[o] = "dying" => mem'[o] = "dying"
  BY <1>3, <1>4, <1>5, DropEffect
<1>7. TypeOK'
  BY <1>5, <1>6 DEF IInv, TypeOK
<1>8. RefCountExact'
  <2> SUFFICES ASSUME NEW o \in Obj PROVE rc'[o] = Refs(o)'
    BY DEF RefCountExact
  <2>1. VarRefs(o)' = VarRefs(o)
    BY SameVars
  <2>2. \A t \in Slot : InUse(t)' <=> InUse(t) /\ t # s
    <3> SUFFICES ASSUME NEW t \in Slot PROVE InUse(t)' <=> InUse(t) /\ t # s
      OBVIOUS
    <3>1. t[1] \in Obj /\ t[2] \in 1 .. MaxLen /\ t = <<t[1], t[2]>>
      BY DEF Slot
    <3>2. CASE t[1] = l
      <4>1. k < t[2] <=> cursor[l] < t[2] /\ t[2] # k
        BY <1>1, <3>1
      <4>2. t # s <=> t[2] # k
        BY <3>1, <3>2
      <4> QED
        BY <1>5, <3>2, <4>1, <4>2 DEF InUse
    <3>3. CASE t[1] # l
      BY <1>5, <3>1, <3>3 DEF InUse
    <3> QED
      BY <3>2, <3>3
  <2>3. \A t \in Slot : InUse(t)' => items'[t[1]][t[2]] = items[t[1]][t[2]]
    OBVIOUS
  <2> HIDE DEF s, k
  <2>4. Cardinality(SlotRefs(o)') = Cardinality(SlotRefs(o)) - One(o = e)
    BY <1>3, <1>5, <2>2, <2>3, SlotLost
  <2>5. rc[o] = Refs(o) /\ lost[o] \in Nat /\ rc'[o] = rc[o] - One(o = e)
    BY <1>6 DEF IInv, RefCountExact, TypeOK
  <2>6. Refs(o)' = Cardinality(VarRefs(o)) + Cardinality(SlotRefs(o)')
                     + One(tmp = o) + One(iter = o) + lost[o]
    BY <2>1 DEF Refs
  <2>7. Refs(o)' = Refs(o) - One(o = e)
    BY <2>4, <2>5, <2>6, RefsFinite DEF Refs, One
  <2> QED
    BY <2>5, <2>7
<1>9. Contents'
  <2> SUFFICES ASSUME NEW o \in Obj
               PROVE  /\ Len(items[o]) <= MaxLen /\ cursor'[o] <= Len(items[o])
                      /\ mem'[o] = "free" => items[o] = << >>
                      /\ cursor'[o] > 0 => mem'[o] = "dying" \/ (pc = "clear" /\ o = lst)
    BY DEF Contents
  <2>1. /\ Len(items[o]) <= MaxLen /\ cursor[o] <= Len(items[o])
        /\ mem[o] = "free" => items[o] = << >>
        /\ cursor[o] > 0 => mem[o] = "dying" \/ (pc = "clear" /\ o = lst)
    BY DEF IInv, Contents
  <2>2. (mem'[o] = "free" <=> mem[o] = "free") /\ (mem[o] = "dying" => mem'[o] = "dying")
    BY <1>6
  <2>3. CASE o = l
    BY <1>2, <1>5, <2>1, <2>2, <2>3
  <2>4. CASE o # l
    BY <1>5, <2>1, <2>2, <2>4
  <2> QED
    BY <2>3, <2>4
<1>10. Statements'
  BY DEF IInv, Statements
<1> QED
  BY <1>6, <1>7, <1>8, <1>9, <1>10 DEF IInv

LEMMA ClearStepStep ==
  ASSUME IInv, ClearStep
  PROVE  IInv'
<1> DEFINE l == lst
<1>1. /\ l \in Obj /\ pc = "clear" /\ l = lst /\ cursor[l] < Len(items[l])
      /\ Drop(items[l][cursor[l] + 1]) /\ cursor' = [cursor EXCEPT ![l] = @ + 1]
      /\ UNCHANGED <<items, var, pc, dst, tmp, lst, at, arg, args, iter, idx, lost>>
  BY DEF ClearStep, At, stmt, loop, IInv, Statements, TypeOK
<1> HIDE DEF l
<1> QED
  BY <1>1, ReleaseNext

\* The innermost activation works on a dying list.
LEMMA TopDying ==
  ASSUME IInv, stack # << >>
  PROVE  /\ Top \in Obj /\ mem[Top] = "dying" /\ pc # "fill" /\ Top # lst
         /\ Len(stack) \in Nat /\ Len(stack) > 0 /\ stack \in Seq(Obj)
<1>1. stack \in Seq(Obj)
  BY DEF IInv, TypeOK
<1>2. Len(stack) \in Nat /\ Len(stack) > 0 /\ Len(stack) \in DOMAIN stack
  BY <1>1
<1>3. Top \in Obj
  BY <1>1, <1>2 DEF Top
<1>4. mem[Top] = "dying"
  BY <1>2, <1>3 DEF Top, IInv, Lifecycle
<1>5. pc # "fill"
  BY DEF IInv, Statements
<1>6. lst # NULL => lst \in Obj /\ mem[lst] = "live"
  <2>1. lst # NULL => pc # "store" /\ \E v \in Var : var[v] = lst
    BY DEF IInv, Statements
  <2>2. lst # NULL => lst \in Obj
    BY DEF IInv, TypeOK
  <2> QED
    BY <2>1, <2>2, VarLive DEF Holds
<1> QED
  BY <1>1, <1>2, <1>3, <1>4, <1>5, <1>6

LEMMA ReleaseElementStep ==
  ASSUME IInv, ReleaseElement
  PROVE  IInv'
<1> DEFINE l == Top
<1>1. l \in Obj /\ mem[l] = "dying" /\ l # lst /\ stack # << >>
  BY TopDying DEF ReleaseElement
<1>2. /\ cursor[l] < Len(items[l])
      /\ Drop(items[l][cursor[l] + 1]) /\ cursor' = [cursor EXCEPT ![l] = @ + 1]
      /\ UNCHANGED <<items, var, pc, dst, tmp, lst, at, arg, args, iter, idx, lost>>
  BY DEF ReleaseElement, stmt, loop
<1> HIDE DEF l
<1> QED
  BY <1>1, <1>2, ReleaseNext

\* A list all of whose elements are released has no slot in use: forgetting
\* its elements changes no count.
LEMMA Emptied ==
  ASSUME IInv, NEW l \in Obj, cursor[l] = Len(items[l]), pc # "replace" \/ l # lst,
         items' = [items EXCEPT ![l] = << >>], cursor' = [cursor EXCEPT ![l] = 0],
         UNCHANGED <<pc, lst, at>> \/ (pc # "replace" /\ pc' # "replace")
  PROVE  /\ items' \in [Obj -> Seq(Obj)] /\ cursor' \in [Obj -> Nat]
         /\ items'[l] = << >> /\ cursor'[l] = 0
         /\ \A o \in Obj : o # l => items'[o] = items[o] /\ cursor'[o] = cursor[o]
         /\ \A o \in Obj : SlotRefs(o)' = SlotRefs(o)
<1>1. items \in [Obj -> Seq(Obj)] /\ cursor \in [Obj -> Nat]
  BY DEF IInv, TypeOK
<1>2. /\ items' \in [Obj -> Seq(Obj)] /\ cursor' \in [Obj -> Nat]
      /\ items'[l] = << >> /\ cursor'[l] = 0
      /\ \A o \in Obj : o # l => items'[o] = items[o] /\ cursor'[o] = cursor[o]
  BY <1>1
<1>3. \A t \in Slot : InUse(t)' <=> InUse(t)
  <2> SUFFICES ASSUME NEW t \in Slot PROVE InUse(t)' <=> InUse(t)
    OBVIOUS
  <2>1. t[1] \in Obj /\ t[2] \in 1 .. MaxLen
    BY DEF Slot
  <2>2. CASE t[1] = l
    <3>1. ~(cursor[l] < t[2] /\ t[2] <= Len(items[l]))
      BY <1>1, <2>1
    <3>2. ~(t[2] <= Len(items'[l]))
      BY <1>2, <2>1
    <3> QED
      BY <2>2, <3>1, <3>2 DEF InUse
  <2>3. CASE t[1] # l
    BY <1>2, <2>1, <2>3 DEF InUse
  <2> QED
    BY <2>2, <2>3
<1>4. \A t \in Slot : InUse(t) => items'[t[1]][t[2]] = items[t[1]][t[2]]
  <2> SUFFICES ASSUME NEW t \in Slot, InUse(t) PROVE items'[t[1]][t[2]] = items[t[1]][t[2]]
    OBVIOUS
  <2>1. t[1] \in Obj /\ t[2] \in 1 .. MaxLen /\ cursor[t[1]] < t[2] /\ t[2] <= Len(items[t[1]])
    BY DEF Slot, InUse
  <2>2. t[1] # l
    BY <1>1, <2>1
  <2> QED
    BY <1>2, <2>1, <2>2
<1> QED
  BY <1>2, <1>3, <1>4, EqualSlots

LEMMA ClearDoneStep ==
  ASSUME IInv, ClearDone
  PROVE  IInv'
<1> USE DEF At, loop
<1> DEFINE l == lst
<1>1. /\ l \in Obj /\ pc = "clear" /\ cursor[l] = Len(items[l])
      /\ items' = [items EXCEPT ![l] = << >>] /\ cursor' = [cursor EXCEPT ![l] = 0]
      /\ UNCHANGED <<rc, mem, stack, var, iter, idx, lost>> /\ tmp = NULL
      /\ pc' = "idle" /\ dst' = NULL /\ tmp' = NULL /\ lst' = NULL /\ at' = 0 /\ arg' = NULL
      /\ args' = << >> /\ lst = l
  BY DEF ClearDone, Done, IInv, Statements, TypeOK
<1> HIDE DEF l
<1>2. /\ items' \in [Obj -> Seq(Obj)] /\ cursor' \in [Obj -> Nat]
      /\ items'[l] = << >> /\ cursor'[l] = 0
      /\ \A o \in Obj : o # l => items'[o] = items[o] /\ cursor'[o] = cursor[o]
      /\ \A o \in Obj : SlotRefs(o)' = SlotRefs(o)
  BY <1>1, Emptied
<1>3. TypeOK'
  BY <1>1, <1>2 DEF IInv, TypeOK
<1>4. RefCountExact'
  <2> SUFFICES ASSUME NEW o \in Obj PROVE rc'[o] = Refs(o)'
    BY DEF RefCountExact
  <2>1. VarRefs(o)' = VarRefs(o)
    BY <1>1, SameVars
  <2>2. Refs(o)' = Refs(o)
    BY <1>1, <1>2, <2>1 DEF Refs
  <2> QED
    BY <1>1, <2>2 DEF IInv, RefCountExact
<1>5. Lifecycle'
  BY <1>1 DEF IInv, Lifecycle
<1>6. Contents'
  <2> SUFFICES ASSUME NEW o \in Obj
               PROVE  /\ Len(items'[o]) <= MaxLen /\ cursor'[o] <= Len(items'[o])
                      /\ mem[o] = "free" => items'[o] = << >>
                      /\ cursor'[o] > 0 => mem[o] = "dying"
    BY <1>1 DEF Contents
  <2>1. CASE o = l
    BY <1>2, <2>1
  <2>2. CASE o # l
    BY <1>1, <1>2, <2>2 DEF IInv, Contents
  <2> QED
    BY <2>1, <2>2
<1>7. Statements'
  BY <1>1 DEF IInv, Statements
<1> QED
  BY <1>3, <1>4, <1>5, <1>6, <1>7 DEF IInv

LEMMA FreeListStep ==
  ASSUME IInv, FreeList
  PROVE  IInv'
<1> DEFINE l == Top
           n == Len(stack) - 1
<1>1. /\ l \in Obj /\ mem[l] = "dying" /\ pc # "fill" /\ l # lst
      /\ Len(stack) \in Nat /\ Len(stack) > 0 /\ stack \in Seq(Obj) /\ l = stack[Len(stack)]
      /\ n \in Nat /\ n <= Len(stack)
  BY TopDying DEF FreeList, Top
<1>2. /\ cursor[l] = Len(items[l])
      /\ mem' = [mem EXCEPT ![l] = "free"]
      /\ items' = [items EXCEPT ![l] = << >>] /\ cursor' = [cursor EXCEPT ![l] = 0]
      /\ stack' = SubSeq(stack, 1, n)
      /\ UNCHANGED <<rc, var, pc, dst, tmp, lst, at, arg, args, iter, idx, lost>>
  BY DEF FreeList, stmt, loop
<1> HIDE DEF l
<1>3. /\ items' \in [Obj -> Seq(Obj)] /\ cursor' \in [Obj -> Nat]
      /\ items'[l] = << >> /\ cursor'[l] = 0
      /\ \A o \in Obj : o # l => items'[o] = items[o] /\ cursor'[o] = cursor[o]
      /\ \A o \in Obj : SlotRefs(o)' = SlotRefs(o)
  BY <1>1, <1>2, Emptied
<1>4. /\ stack' \in Seq(Obj) /\ Len(stack') = n /\ \A i \in 1 .. n : stack'[i] = stack[i]
      /\ DOMAIN stack' = 1 .. n /\ DOMAIN stack = 1 .. Len(stack)
  <2> HIDE DEF n
  <2> QED
    BY <1>1, <1>2, PrefixProperties
<1>5. /\ mem \in [Obj -> {"free", "live", "dying"}] /\ mem' \in [Obj -> {"free", "live", "dying"}]
      /\ mem'[l] = "free" /\ \A o \in Obj : o # l => mem'[o] = mem[o]
  <2>1. mem \in [Obj -> {"free", "live", "dying"}]
    BY DEF IInv, TypeOK
  <2> QED
    BY <1>1, <1>2, <2>1
<1>6. TypeOK'
  BY <1>2, <1>3, <1>4, <1>5 DEF IInv, TypeOK
<1>7. RefCountExact'
  <2> SUFFICES ASSUME NEW o \in Obj PROVE rc'[o] = Refs(o)'
    BY DEF RefCountExact
  <2>1. VarRefs(o)' = VarRefs(o)
    BY <1>2, SameVars
  <2>2. Refs(o)' = Refs(o)
    BY <1>2, <1>3, <2>1 DEF Refs
  <2> QED
    BY <1>2, <2>2 DEF IInv, RefCountExact
<1>8. Lifecycle'
  <2>1. \A o \in Obj : mem'[o] = "live" <=> rc'[o] > 0
    BY <1>1, <1>2, <1>5 DEF IInv, Lifecycle
  <2>2. \A i \in 1 .. n : stack[i] # l
    BY <1>1, <1>4 DEF IInv, Lifecycle
  <2>3. ASSUME NEW o \in Obj
        PROVE  mem'[o] = "dying" <=> \E i \in DOMAIN stack' : stack'[i] = o
    <3>1. CASE o = l
      BY <1>4, <1>5, <2>2, <3>1
    <3>2. CASE o # l
      <4>1. mem'[o] = "dying" <=> \E i \in DOMAIN stack : stack[i] = o
        BY <1>5, <3>2 DEF IInv, Lifecycle
      <4>2. ASSUME NEW i \in DOMAIN stack, stack[i] = o
            PROVE  \E j \in DOMAIN stack' : stack'[j] = o
        <5>1. i \in 1 .. n
          BY <1>1, <1>4, <3>2, <4>2
        <5> QED
          BY <1>4, <4>2, <5>1
      <4>3. ASSUME NEW i \in DOMAIN stack', stack'[i] = o
            PROVE  \E j \in DOMAIN stack : stack[j] = o
        BY <1>1, <1>4, <4>3
      <4> QED
        BY <4>1, <4>2, <4>3
    <3> QED
      BY <3>1, <3>2
  <2>4. \A i, j \in DOMAIN stack' : stack'[i] = stack'[j] => i = j
    BY <1>1, <1>4 DEF IInv, Lifecycle
  <2> QED
    BY <2>1, <2>3, <2>4 DEF Lifecycle
<1>9. Contents'
  <2> SUFFICES ASSUME NEW o \in Obj
               PROVE  /\ Len(items'[o]) <= MaxLen /\ cursor'[o] <= Len(items'[o])
                      /\ mem'[o] = "free" => items'[o] = << >>
                      /\ cursor'[o] > 0 => mem'[o] = "dying" \/ (pc = "clear" /\ o = lst)
    BY <1>2 DEF Contents
  <2>1. CASE o = l
    BY <1>3, <2>1
  <2>2. CASE o # l
    BY <1>3, <1>5, <2>2 DEF IInv, Contents
  <2> QED
    BY <2>1, <2>2
<1>10. Statements'
  <2>1. lst # NULL => items'[lst] = items[lst]
    BY <1>1, <1>3 DEF IInv, TypeOK
  <2>2. pc \in {"set", "replace"} => at \in 1 .. Len(items'[lst])
    BY <2>1 DEF IInv, Statements
  <2> QED
    BY <1>1, <1>2, <2>2 DEF IInv, Statements
<1> QED
  BY <1>6, <1>7, <1>8, <1>9, <1>10 DEF IInv

-----------------------------------------------------------------------------
(***************************************************************************)
(* The theorems.                                                           *)
(***************************************************************************)

\* When the program starts nothing is allocated and nothing is referred to.
LEMMA InitIInv ==
  ASSUME Init
  PROVE  IInv
<1>1. TypeOK /\ Lifecycle /\ Contents /\ Statements
  BY DEF Init, TypeOK, Lifecycle, Contents, Statements
<1>2. ASSUME NEW o \in Obj
      PROVE  rc[o] = Refs(o)
  <2>1. VarRefs(o) = {}
    BY DEF Init, VarRefs
  <2>2. SlotRefs(o) = {}
    BY DEF Init, SlotRefs, InUse
  <2>3. rc[o] = 0 /\ tmp # o /\ iter # o /\ lost[o] = 0
    BY DEF Init
  <2> QED
    BY <2>1, <2>2, <2>3, FS_EmptySet DEF Refs, One
<1> QED
  BY <1>1, <1>2 DEF IInv, RefCountExact

\* A step that changes nothing.
LEMMA StutterIInv ==
  ASSUME IInv, UNCHANGED vars
  PROVE  IInv'
<1>1. TypeOK'
  BY DEF IInv, vars, TypeOK
<1>2. RefCountExact'
  <2> SUFFICES ASSUME NEW o \in Obj
               PROVE  rc'[o] = Refs(o)'
    BY DEF RefCountExact
  <2>1. VarRefs(o)' = VarRefs(o)
    BY DEF vars, VarRefs
  <2>2. SlotRefs(o)' = SlotRefs(o)
    BY DEF vars, SlotRefs, InUse
  <2>3. One(tmp = o)' = One(tmp = o) /\ One(iter = o)' = One(iter = o)
    BY DEF vars, One
  <2>4. rc'[o] = rc[o] /\ lost'[o] = lost[o]
    BY DEF vars
  <2> QED
    BY <2>1, <2>2, <2>3, <2>4 DEF Refs, IInv, RefCountExact
<1>3. Lifecycle'
  BY DEF IInv, vars, Lifecycle
<1>4. Contents'
  BY DEF IInv, vars, Contents
<1>5. Statements'
  BY DEF IInv, vars, Statements
<1> QED
  BY <1>1, <1>2, <1>3, <1>4, <1>5 DEF IInv

\* Every statement and every step of the runtime preserves IInv.
LEMMA NextIInv ==
  ASSUME IInv, [Next]_vars
  PROVE  IInv'
<1>1. CASE Assignment
  <2>1. ASSUME NEW v \in Var, NEW w \in Var, AssignVar(v, w) \/ AssignPop(v, w)
        PROVE  IInv'
    BY <2>1, AssignVarStep, AssignPopStep
  <2>2. ASSUME NEW v \in Var, NEW w \in Var, NEW i \in 1 .. MaxLen, AssignGet(v, w, i)
        PROVE  IInv'
    BY <2>2, AssignGetStep
  <2>3. ASSUME NEW v \in Var, NEW o \in Obj, NEW n \in 0 .. MaxLen,
               NEW ws \in [1 .. n -> Var], AssignLiteral(v, o, ws)
        PROVE  IInv'
    BY <2>3, AssignLiteralStep
  <2>4. ASSUME NEW v \in Var, NEW o \in Obj, NEW w \in Var, AssignCopy(v, o, w)
        PROVE  IInv'
    BY <2>4, AssignCopyStep
  <2> QED
    BY <1>1, <2>1, <2>2, <2>3, <2>4 DEF Assignment
<1>2. CASE Statement
  <2>1. ASSUME NEW w \in Var, NEW i \in 1 .. MaxLen, DiscardGet(w, i) \/ ForGet(w, i)
        PROVE  IInv'
    BY <2>1, DiscardGetStep, ForGetStep
  <2>2. ASSUME NEW w \in Var, NEW u \in Var, AppendVar(w, u)
        PROVE  IInv'
    BY <2>2, AppendVarStep
  <2>3. ASSUME NEW w \in Var, NEW u \in Var, NEW i \in 1 .. MaxLen,
               AppendGet(w, u, i) \/ SetVar(w, i, u)
        PROVE  IInv'
    BY <2>3, AppendGetStep, SetVarStep
  <2>4. ASSUME NEW w \in Var, NEW u \in Var, NEW i \in 1 .. MaxLen, NEW j \in 1 .. MaxLen,
               EvalGet(w, i, u, j)
        PROVE  IInv'
    BY <2>4, EvalGetStep
  <2>5. ASSUME NEW w \in Var, DiscardPop(w) \/ Clear(w) \/ DropVar(w) \/ ForVar(w)
        PROVE  IInv'
    BY <2>5, DiscardPopStep, ClearStart, DropVarStep, ForVarStep
  <2>6. ASSUME ForNext \/ ForEnd
        PROVE  IInv'
    BY <2>6, ForNextStep, ForEndStep
  <2> QED
    BY <1>2, <2>1, <2>2, <2>3, <2>4, <2>5, <2>6 DEF Statement
<1>3. CASE Runtime
  BY <1>3, ReleaseElementStep, FreeListStep, FillStepStep, FillDoneStep, ReleaseTargetStep,
     StoreTargetStep, DiscardTempStep, SetGetStep, ReplaceStoreStep, ClearStepStep,
     ClearDoneStep DEF Runtime
<1> QED
  BY <1>1, <1>2, <1>3, StutterIInv DEF Next

\* No reference is counted to a list that is dying or free.
LEMMA IInvNoDangling ==
  ASSUME IInv
  PROVE  NoDangling
<1>1. ASSUME NEW o \in Obj, Refs(o) > 0
      PROVE  mem[o] = "live"
  BY <1>1 DEF IInv, RefCountExact, Lifecycle
<1>2. lst # NULL => mem[lst] = "live"
  <2>1. lst # NULL => pc # "store" /\ \E v \in Var : var[v] = lst
    BY DEF IInv, Statements
  <2> QED
    BY <2>1, VarLive DEF Holds
<1>3. arg # NULL => mem[arg] = "live"
  <2>1. arg # NULL => /\ pc # "store" /\ arg \in Obj
                      /\ tmp = arg \/ \E v \in Var : var[v] = arg
    BY DEF IInv, Statements, TypeOK
  <2>2. arg # NULL /\ tmp = arg => mem[arg] = "live"
    BY <2>1, CountedIsLive
  <2> QED
    BY <2>1, <2>2, VarLive DEF Holds
<1>4. \A i \in DOMAIN args : mem[args[i]] = "live"
  <2>1. CASE args = << >>
    BY <2>1
  <2>2. CASE args # << >>
    BY <2>2 DEF IInv, Statements
  <2> QED
    BY <2>1, <2>2
<1> QED
  BY <1>1, <1>2, <1>3, <1>4 DEF NoDangling

\* IInv holds throughout every run of the generated program.
THEOREM Inductive == Spec => []IInv
<1>1. Init => IInv
  BY InitIInv
<1>2. IInv /\ [Next]_vars => IInv'
  BY NextIInv
<1> QED
  BY <1>1, <1>2, PTL DEF Spec

\* In particular no refcount is ever negative.
THEOREM Typing == Spec => []TypeOK
<1>1. IInv => TypeOK
  BY DEF IInv
<1> QED
  BY <1>1, Inductive, PTL

\* Retains and releases balance, for any number of lists, locals and elements.
THEOREM Exactness == Spec => []RefCountExact
<1>1. IInv => RefCountExact
  BY DEF IInv
<1> QED
  BY <1>1, Inductive, PTL

\* The generated program never reads or releases a freed list.
THEOREM Safety == Spec => []NoDangling
<1>1. IInv => NoDangling
  BY IInvNoDangling
<1> QED
  BY <1>1, Inductive, PTL

-----------------------------------------------------------------------------
Live == {o \in Obj : mem[o] = "live"}

-----------------------------------------------------------------------------
(***************************************************************************)
(* The heap of the abstract program is closed: whatever it can reach has   *)
(* not been reclaimed.                                                     *)
(***************************************************************************)

\* The elements of a list, by where its statement stands.
LEMMA AbsListFacts ==
  ASSUME NEW o \in Obj, mem[o] = "live"
  PROVE  /\ pc = "fill" /\ o = tmp => AbsList[o] = items[o] \o args
         /\ pc = "replace" /\ o = lst => AbsList[o] = [items[o] EXCEPT ![at] = arg]
         /\ pc = "clear" /\ o = lst => AbsList[o] = << >>
         /\ pc \notin {"fill", "replace", "clear"} => AbsList[o] = items[o]
         /\ pc = "fill" /\ o # tmp => AbsList[o] = items[o]
         /\ pc \in {"replace", "clear"} /\ o # lst => AbsList[o] = items[o]
BY DEF AbsList

\* A name of a list that is in use.
LEMMA NamesLive ==
  ASSUME IInv
  PROVE  /\ \A v \in Var : AbsLocal[v] # NULL => AbsLocal[v] \in Live
         /\ tmp # NULL => tmp \in Live
         /\ iter # NULL => iter \in Live
         /\ AbsTemp # NULL => AbsTemp \in Live
<1>1. tmp \in Obj \cup {NULL} /\ iter \in Obj \cup {NULL} /\ var \in [Var -> Obj \cup {NULL}]
  BY DEF IInv, TypeOK
<1>2. /\ tmp # NULL => tmp \in Live
      /\ iter # NULL => iter \in Live
  BY <1>1, CountedIsLive DEF Live
<1>3. ASSUME NEW v \in Var, AbsLocal[v] # NULL
      PROVE  AbsLocal[v] \in Live
  <2>1. CASE pc = "store" /\ v = dst
    <3>1. AbsLocal[v] = tmp
      BY <1>1, <2>1 DEF AbsLocal
    <3> QED
      BY <1>2, <1>3, <3>1
  <2>2. CASE ~(pc = "store" /\ v = dst)
    <3>1. AbsLocal[v] = var[v]
      BY <1>1, <2>2 DEF AbsLocal
    <3>2. var[v] \in Obj /\ v \in VarRefs(var[v])
      BY <1>1, <1>3, <2>2, <3>1 DEF VarRefs
    <3> QED
      BY <3>1, <3>2, CountedIsLive DEF Live
  <2> QED
    BY <2>1, <2>2
<1>4. AbsTemp # NULL => AbsTemp \in Live
  BY <1>2 DEF AbsTemp
<1> QED
  BY <1>2, <1>3, <1>4

\* A slot of a live list that is neither released nor overwritten.
Given(o, i) == (pc = "clear" /\ o = lst) \/ (pc = "replace" /\ o = lst /\ i = at)

LEMMA SlotLive ==
  ASSUME IInv, NEW o \in Obj, mem[o] = "live", NEW i \in DOMAIN items[o], ~Given(o, i)
  PROVE  items[o][i] \in Live
<1>1. /\ items[o] \in Seq(Obj) /\ cursor[o] \in Nat /\ Len(items[o]) <= MaxLen /\ cursor[o] = 0
  <2>1. items[o] \in Seq(Obj) /\ cursor[o] \in Nat
    BY DEF IInv, TypeOK
  <2>2. Len(items[o]) <= MaxLen /\ (cursor[o] > 0 => mem[o] = "dying" \/ (pc = "clear" /\ o = lst))
    BY DEF IInv, Contents
  <2>3. ~(cursor[o] > 0)
    BY <2>2 DEF Given
  <2> QED
    BY <2>1, <2>2, <2>3
<1>2. i \in 1 .. MaxLen /\ i \in Nat /\ i <= Len(items[o]) /\ cursor[o] < i
  <2> DEFINE n == Len(items[o])
  <2>1. i \in 1 .. n /\ n \in Nat /\ n <= MaxLen /\ cursor[o] = 0
    BY <1>1
  <2> HIDE DEF n
  <2>2. i \in 1 .. MaxLen /\ i \in Nat /\ i <= n /\ 0 < i
    BY <2>1, BoundAssumption
  <2> QED
    BY <2>1, <2>2 DEF n
<1>3. items[o][i] \in Obj
  BY <1>1
<1>4. <<o, i>> \in SlotRefs(items[o][i])
  BY <1>2, <1>3 DEF SlotRefs, InUse, Given
<1> QED
  BY <1>3, <1>4, CountedIsLive DEF Live

LEMMA ElementsLive ==
  ASSUME IInv, NEW o \in Live, NEW i \in DOMAIN AbsList[o]
  PROVE  AbsList[o][i] \in Live
<1>1. /\ o \in Obj /\ mem[o] = "live" /\ items[o] \in Seq(Obj) /\ args \in Seq(Obj)
      /\ arg \in Obj \cup {NULL}
  BY DEF IInv, TypeOK, Live
<1>2. CASE pc = "fill" /\ o = tmp
  <2>1. AbsList[o] = items[o] \o args
    BY <1>1, <1>2, AbsListFacts
  <2>2. \A j \in DOMAIN args : args[j] \in Live
    BY <1>1, <1>2 DEF IInv, Statements, Live
  <2>3. \A j \in DOMAIN items[o] : items[o][j] \in Live
    BY <1>1, <1>2, SlotLive DEF Given
  <2>4. \/ i \in DOMAIN items[o] /\ AbsList[o][i] = items[o][i]
        \/ i - Len(items[o]) \in DOMAIN args /\ AbsList[o][i] = args[i - Len(items[o])]
    BY <1>1, <2>1
  <2> QED
    BY <2>2, <2>3, <2>4
<1>3. CASE pc = "replace" /\ o = lst
  <2>1. AbsList[o] = [items[o] EXCEPT ![at] = arg]
    BY <1>1, <1>3, AbsListFacts
  <2>2. arg \in Live
    <3>1. arg # NULL /\ (tmp = arg \/ \E v \in Var : var[v] = arg)
      BY <1>3 DEF IInv, Statements
    <3>2. \A v \in Var : AbsLocal[v] = var[v]
      BY <1>3 DEF AbsLocal
    <3> QED
      BY <3>1, <3>2, NamesLive
  <2>3. i \in DOMAIN items[o] /\ AbsList[o][i] = IF i = at THEN arg ELSE items[o][i]
    BY <1>1, <2>1
  <2> QED
    BY <1>1, <1>3, <2>2, <2>3, SlotLive DEF Given
<1>4. CASE pc = "clear" /\ o = lst
  <2>1. AbsList[o] = << >>
    BY <1>1, <1>4, AbsListFacts
  <2> QED
    BY <2>1
<1>5. CASE ~(pc = "fill" /\ o = tmp) /\ ~(pc = "replace" /\ o = lst) /\ ~(pc = "clear" /\ o = lst)
  <2>1. AbsList[o] = items[o]
    BY <1>1, <1>5 DEF AbsList
  <2> QED
    BY <1>1, <1>5, <2>1, SlotLive DEF Given
<1> QED
  BY <1>2, <1>3, <1>4, <1>5

\* A set that has the roots and is closed has what can be reached.
LEMMA ReachableWithin ==
  ASSUME NEW S \in SUBSET Obj, NEW roots, NEW elems, roots \ {NULL} \subseteq S,
         \A o \in S : \A i \in DOMAIN elems[o] : elems[o][i] \in S
  PROVE  Lists!Reachable(roots, elems) \subseteq S
BY DEF Lists!Reachable

LEMMA ReachableLive ==
  IInv => Lists!Reachable({AbsLocal[v] : v \in Var} \cup {AbsTemp, iter}, AbsList) \subseteq Live
<1> SUFFICES ASSUME IInv
             PROVE  Lists!Reachable({AbsLocal[v] : v \in Var} \cup {AbsTemp, iter}, AbsList)
                      \subseteq Live
  OBVIOUS
<1>1. ({AbsLocal[v] : v \in Var} \cup {AbsTemp, iter}) \ {NULL} \subseteq Live
  BY NamesLive
<1>2. Live \in SUBSET Obj
  BY DEF Live
<1> QED
  BY <1>1, <1>2, ElementsLive, ReachableWithin

LEMMA ReachableLiveNext ==
  IInv' => (Lists!Reachable({AbsLocal[v] : v \in Var} \cup {AbsTemp, iter}, AbsList) \subseteq Live)'
BY ReachableLive, PTL

LEMMA Reclaimed ==
  ASSUME IInv', NEW S, \A o \in Obj : mem'[o] = "live" => mem[o] = "live" \/ o \in S
  PROVE  Lists!Reclaim(S)
BY ReachableLiveNext DEF Lists!Reclaim, Live

-----------------------------------------------------------------------------
(***************************************************************************)
(* How a step looks to the abstract program.                               *)
(***************************************************************************)

\* A step that the abstract program does not see.
LEMMA KeptStep ==
  ASSUME IInv', \A o \in Obj : mem'[o] = "live" => mem[o] = "live" /\ AbsList'[o] = AbsList[o],
         AbsLocal' = AbsLocal, AbsTemp' = AbsTemp, iter' = iter, idx' = idx
  PROVE  Lists!ANext
<1>1. Lists!Keep
  BY DEF Lists!Keep, Lists!Elems
<1>2. Lists!Reclaim({})
  BY Reclaimed
<1> QED
  BY <1>1, <1>2 DEF Lists!ANext

\* Steps that change the list a local names.
LEMMA AppendStep ==
  ASSUME NEW w \in Var, AbsLocal[w] # NULL, Lists!AppendTo(AbsLocal[w]), Lists!Reclaim({})
  PROVE  Lists!ANext
<1>1. \E v \in Var : AbsLocal[v] # NULL /\ Lists!AppendTo(AbsLocal[v])
  OBVIOUS
<1> QED
  BY <1>1 DEF Lists!ANext

LEMMA SetStep ==
  ASSUME NEW w \in Var, AbsLocal[w] # NULL, Lists!SetIn(AbsLocal[w]), Lists!Reclaim({})
  PROVE  Lists!ANext
<1>1. \E v \in Var : AbsLocal[v] # NULL /\ Lists!SetIn(AbsLocal[v])
  OBVIOUS
<1> QED
  BY <1>1 DEF Lists!ANext

LEMMA EmptyStep ==
  ASSUME NEW w \in Var, AbsLocal[w] # NULL, Lists!ClearAll(AbsLocal[w]), Lists!Reclaim({})
  PROVE  Lists!ANext
<1>1. \E v \in Var : AbsLocal[v] # NULL /\ Lists!ClearAll(AbsLocal[v])
  OBVIOUS
<1> QED
  BY <1>1 DEF Lists!ANext

\* A decref takes a list out of use, or leaves all as they are.
LEMMA DropLive ==
  ASSUME IInv, NEW e \in Obj, Drop(e)
  PROVE  \A o \in Obj : mem'[o] = "live" => mem[o] = "live"
BY DEF IInv, TypeOK, Drop

LEMMA DecRefLive ==
  ASSUME IInv, NEW e \in Obj \cup {NULL}, DecRef(e)
  PROVE  \A o \in Obj : mem'[o] = "live" => mem[o] = "live"
BY DropLive DEF DecRef

\* Between statements the abstract state is the concrete one.
LEMMA IdleFacts ==
  ASSUME IInv, pc = "idle"
  PROVE  /\ AbsLocal = var /\ AbsTemp = NULL /\ tmp = NULL
         /\ \A o \in Obj : mem[o] = "live" => AbsList[o] = items[o]
BY AbsListFacts DEF IInv, Statements, AbsLocal, AbsTemp

-----------------------------------------------------------------------------
(***************************************************************************)
(* The runtime.                                                            *)
(***************************************************************************)
LEMMA ReleaseElementSeen ==
  ASSUME IInv, IInv', ReleaseElement
  PROVE  Lists!ANext
<1>1. /\ UNCHANGED <<items, var, pc, dst, tmp, lst, at, arg, args, iter, idx>>
      /\ Drop(items[Top][cursor[Top] + 1]) /\ cursor[Top] < Len(items[Top]) /\ stack # << >>
  BY DEF ReleaseElement, stmt, loop
<1>2. items[Top][cursor[Top] + 1] \in Obj
  <2>1. Top \in Obj
    BY <1>1, TopDying
  <2>2. items[Top] \in Seq(Obj) /\ cursor[Top] \in Nat
    BY <2>1 DEF IInv, TypeOK
  <2> QED
    BY <1>1, <2>2
<1>3. \A o \in Obj : mem'[o] = "live" => mem[o] = "live"
  BY <1>1, <1>2, DropLive
<1>4. \A o \in Obj : mem'[o] = "live" => AbsList'[o] = AbsList[o]
  BY <1>1, <1>3 DEF AbsList
<1>5. AbsLocal' = AbsLocal /\ AbsTemp' = AbsTemp
  BY <1>1 DEF AbsLocal, AbsTemp
<1> QED
  BY <1>1, <1>3, <1>4, <1>5, KeptStep

LEMMA FreeListSeen ==
  ASSUME IInv, IInv', FreeList
  PROVE  Lists!ANext
<1>1. /\ UNCHANGED <<var, pc, dst, tmp, lst, at, arg, args, iter, idx>> /\ stack # << >>
      /\ mem' = [mem EXCEPT ![Top] = "free"] /\ items' = [items EXCEPT ![Top] = << >>]
  BY DEF FreeList, stmt, loop
<1>2. Top \in Obj /\ mem \in [Obj -> {"free", "live", "dying"}] /\ items \in [Obj -> Seq(Obj)]
  BY <1>1, TopDying DEF IInv, TypeOK
<1>3. \A o \in Obj : mem'[o] = "live" => mem[o] = "live" /\ items'[o] = items[o]
  BY <1>1, <1>2
<1>4. \A o \in Obj : mem'[o] = "live" => AbsList'[o] = AbsList[o]
  BY <1>1, <1>3 DEF AbsList
<1>5. AbsLocal' = AbsLocal /\ AbsTemp' = AbsTemp
  BY <1>1 DEF AbsLocal, AbsTemp
<1> QED
  BY <1>1, <1>3, <1>4, <1>5, KeptStep

LEMMA FillStepSeen ==
  ASSUME IInv, IInv', FillStep
  PROVE  Lists!ANext
<1>1. /\ UNCHANGED <<mem, var, pc, dst, tmp, lst, at, arg, iter, idx>> /\ pc = "fill" /\ args # << >>
      /\ items' = [items EXCEPT ![tmp] = Append(@, Head(args))] /\ args' = Tail(args)
  BY DEF FillStep, At, IncRef, loop
<1>2. /\ args \in Seq(Obj) /\ items \in [Obj -> Seq(Obj)] /\ tmp \in Obj
  BY <1>1 DEF IInv, TypeOK, Statements
<1>3. items'[tmp] \o args' = items[tmp] \o args
  <2>1. items'[tmp] = Append(items[tmp], Head(args)) /\ items[tmp] \in Seq(Obj)
    BY <1>1, <1>2
  <2>2. \A s, t \in Seq(Obj) : t # << >> => Append(s, Head(t)) \o Tail(t) = s \o t
    OBVIOUS
  <2> QED
    BY <1>1, <1>2, <2>1, <2>2
<1>4. \A o \in Obj : o # tmp => items'[o] = items[o]
  BY <1>1, <1>2
<1>5. \A o \in Obj : mem'[o] = "live" => AbsList'[o] = AbsList[o]
  BY <1>1, <1>3, <1>4 DEF AbsList
<1>6. AbsLocal' = AbsLocal /\ AbsTemp' = AbsTemp
  BY <1>1 DEF AbsLocal, AbsTemp
<1> QED
  BY <1>1, <1>5, <1>6, KeptStep

LEMMA FillDoneSeen ==
  ASSUME IInv, IInv', FillDone
  PROVE  Lists!ANext
<1>1. /\ UNCHANGED <<mem, items, var, dst, tmp, lst, at, arg, iter, idx>>
      /\ pc = "fill" /\ pc' = "release" /\ args = << >>
  BY DEF FillDone, At, heap, loop
<1>2. \A o \in Obj : items[o] \in Seq(Obj) /\ items[o] \o << >> = items[o]
  <2>1. \A s \in Seq(Obj) : s \o << >> = s
    OBVIOUS
  <2> QED
    BY <2>1 DEF IInv, TypeOK
<1>3. \A o \in Obj : mem'[o] = "live" => AbsList'[o] = AbsList[o]
  BY <1>1, <1>2 DEF AbsList
<1>4. AbsLocal' = AbsLocal /\ AbsTemp' = AbsTemp
  BY <1>1 DEF AbsLocal, AbsTemp
<1> QED
  BY <1>1, <1>3, <1>4, KeptStep

LEMMA ReleaseTargetSeen ==
  ASSUME IInv, IInv', ReleaseTarget
  PROVE  Lists!ANext
<1>1. /\ UNCHANGED <<items, var, dst, tmp, lst, at, arg, iter, idx>>
      /\ pc = "release" /\ pc' = "store" /\ DecRef(var[dst])
  BY DEF ReleaseTarget, At, loop
<1>2. dst \in Var /\ tmp # NULL /\ var[dst] \in Obj \cup {NULL}
  BY <1>1 DEF IInv, TypeOK, Statements
<1>3. \A o \in Obj : mem'[o] = "live" => mem[o] = "live"
  BY <1>1, <1>2, DecRefLive
<1>4. Lists!Elems(AbsList)
  BY <1>1, <1>3 DEF Lists!Elems, AbsList
<1>5. Lists!Store(dst)
  BY <1>1, <1>2, <1>4 DEF Lists!Store, AbsLocal, AbsTemp
<1> QED
  BY <1>2, <1>3, <1>5, Reclaimed DEF Lists!ANext

LEMMA StoreTargetSeen ==
  ASSUME IInv, IInv', StoreTarget
  PROVE  Lists!ANext
<1>1. /\ UNCHANGED <<mem, items, iter, idx>> /\ pc = "store" /\ pc' = "idle" /\ tmp' = NULL
      /\ var' = [var EXCEPT ![dst] = tmp]
  BY DEF StoreTarget, At, Done, heap, loop
<1>2. \A o \in Obj : mem'[o] = "live" => AbsList'[o] = AbsList[o]
  BY <1>1 DEF AbsList
<1>3. AbsLocal' = AbsLocal /\ AbsTemp' = AbsTemp
  BY <1>1 DEF AbsLocal, AbsTemp
<1> QED
  BY <1>1, <1>2, <1>3, KeptStep

LEMMA DiscardTempSeen ==
  ASSUME IInv, IInv', DiscardTemp
  PROVE  Lists!ANext
<1>1. /\ UNCHANGED <<items, var, iter, idx>> /\ pc = "discard" /\ pc' = "idle" /\ tmp' = NULL
      /\ DecRef(tmp)
  BY DEF DiscardTemp, At, Done, loop
<1>2. tmp # NULL /\ tmp \in Obj \cup {NULL}
  BY <1>1 DEF IInv, TypeOK, Statements
<1>3. \A o \in Obj : mem'[o] = "live" => mem[o] = "live"
  BY <1>1, <1>2, DecRefLive
<1>4. Lists!Elems(AbsList)
  BY <1>1, <1>3 DEF Lists!Elems, AbsList
<1>5. Lists!Discard
  BY <1>1, <1>2, <1>4 DEF Lists!Discard, AbsLocal, AbsTemp
<1> QED
  BY <1>3, <1>5, Reclaimed DEF Lists!ANext

LEMMA ClearStepSeen ==
  ASSUME IInv, IInv', ClearStep
  PROVE  Lists!ANext
<1>1. /\ UNCHANGED <<items, var, pc, dst, tmp, lst, at, arg, args, iter, idx>>
      /\ Drop(items[lst][cursor[lst] + 1]) /\ cursor[lst] < Len(items[lst]) /\ pc = "clear"
  BY DEF ClearStep, At, stmt, loop
<1>2. items[lst][cursor[lst] + 1] \in Obj
  <2>1. lst \in Obj
    BY <1>1 DEF IInv, TypeOK, Statements
  <2>2. items[lst] \in Seq(Obj) /\ cursor[lst] \in Nat
    BY <2>1 DEF IInv, TypeOK
  <2> QED
    BY <1>1, <2>2
<1>3. \A o \in Obj : mem'[o] = "live" => mem[o] = "live"
  BY <1>1, <1>2, DropLive
<1>4. \A o \in Obj : mem'[o] = "live" => AbsList'[o] = AbsList[o]
  BY <1>1, <1>3 DEF AbsList
<1>5. AbsLocal' = AbsLocal /\ AbsTemp' = AbsTemp
  BY <1>1 DEF AbsLocal, AbsTemp
<1> QED
  BY <1>1, <1>3, <1>4, <1>5, KeptStep

LEMMA ClearDoneSeen ==
  ASSUME IInv, IInv', ClearDone
  PROVE  Lists!ANext
<1>1. /\ UNCHANGED <<mem, var, iter, idx>> /\ pc = "clear" /\ pc' = "idle" /\ tmp' = NULL
      /\ items' = [items EXCEPT ![lst] = << >>]
  BY DEF ClearDone, At, Done, loop
<1>2. tmp = NULL /\ lst \in Obj /\ items \in [Obj -> Seq(Obj)]
  BY <1>1 DEF IInv, TypeOK, Statements
<1>3. \A o \in Obj : mem'[o] = "live" => AbsList'[o] = AbsList[o]
  BY <1>1, <1>2 DEF AbsList
<1>4. AbsLocal' = AbsLocal /\ AbsTemp' = AbsTemp
  BY <1>1, <1>2 DEF AbsLocal, AbsTemp
<1> QED
  BY <1>1, <1>3, <1>4, KeptStep

-----------------------------------------------------------------------------
(***************************************************************************)
(* Item assignments.                                                       *)
(***************************************************************************)

LEMMA SetAt ==
  ASSUME NEW w \in Var, NEW e \in Lists!Argument \ {NULL}, NEW i \in DOMAIN AbsList[AbsLocal[w]],
         Lists!Elems(Lists!But(AbsList, AbsLocal[w], [AbsList[AbsLocal[w]] EXCEPT ![i] = e])),
         AbsTemp' = NULL, UNCHANGED <<AbsLocal, iter, idx>>
  PROVE  Lists!SetIn(AbsLocal[w])
<1> DEFINE Fits(x, j) ==
  Lists!Elems(Lists!But(AbsList, AbsLocal[w], [AbsList[AbsLocal[w]] EXCEPT ![j] = x]))
<1>1. Fits(e, i)
  OBVIOUS
<1> HIDE DEF Fits
<1>2. \E x \in Lists!Argument \ {NULL}, j \in DOMAIN AbsList[AbsLocal[w]] : Fits(x, j)
  BY <1>1
<1> QED
  BY <1>2 DEF Lists!SetIn, Fits

\* The old element is released: the assignment takes effect.
LEMMA SetSeen ==
  ASSUME IInv, IInv', pc \in {"idle", "set"}, pc' = "replace", UNCHANGED <<items, var, iter, idx>>,
         NEW w \in Var, Holds(w), lst' = var[w], at' \in DOMAIN items[var[w]],
         arg' \in Lists!Argument \ {NULL}, \A o \in Obj : mem'[o] = "live" => mem[o] = "live"
  PROVE  Lists!ANext
<1>1. AbsLocal = var /\ AbsLocal' = var /\ AbsTemp' = NULL
  BY DEF AbsLocal, AbsTemp
<1>2. var[w] \in Obj /\ mem[var[w]] = "live"
  BY VarLive
<1>3. \A o \in Obj : mem[o] = "live" => AbsList[o] = items[o]
  BY AbsListFacts
<1> DEFINE l == var[w]
<1>4. \A o \in Obj : mem'[o] = "live" =>
        AbsList'[o] = IF o = l THEN [items[l] EXCEPT ![at'] = arg'] ELSE items[o]
  BY DEF AbsList
<1>5. AbsList[l] = items[l] /\ l \in Obj /\ AbsList \in [Obj -> {AbsList[o] : o \in Obj}]
  BY <1>2, <1>3 DEF AbsList
<1>6. at' \in DOMAIN AbsList[l] /\ AbsLocal' = AbsLocal /\ AbsTemp' = NULL /\ l = AbsLocal[w]
  BY <1>1, <1>5
<1>7. ASSUME NEW e, NEW i, e = arg', i = at'
      PROVE  Lists!Elems(Lists!But(AbsList, l, [AbsList[l] EXCEPT ![i] = e]))
  <2>1. \A o \in Obj : Lists!But(AbsList, l, [AbsList[l] EXCEPT ![i] = e])[o] =
                         IF o = l THEN [AbsList[l] EXCEPT ![i] = e] ELSE AbsList[o]
    BY <1>5 DEF Lists!But
  <2> QED
    BY <1>3, <1>4, <1>5, <1>7, <2>1 DEF Lists!Elems
<1>8. Lists!SetIn(AbsLocal[w])
  <2>1. SUFFICES ASSUME NEW e, NEW i, e = arg', i = at'
                 PROVE  Lists!SetIn(AbsLocal[w])
    OBVIOUS
  <2> HIDE DEF l
  <2>2. Lists!Elems(Lists!But(AbsList, AbsLocal[w], [AbsList[AbsLocal[w]] EXCEPT ![i] = e]))
    BY <1>6, <1>7, <2>1 DEF Lists!Elems
  <2>3. e \in Lists!Argument \ {NULL} /\ i \in DOMAIN AbsList[AbsLocal[w]]
    BY <1>6, <2>1
  <2> QED
    BY <1>6, <2>2, <2>3, SetAt
<1>9. AbsLocal[w] # NULL
  BY <1>1 DEF Holds
<1>10. Lists!Reclaim({})
  BY Reclaimed
<1> QED
  BY <1>8, <1>9, <1>10, SetStep

LEMMA SetVarSeen ==
  ASSUME IInv, IInv', NEW w \in Var, NEW u \in Var, NEW i \in 1 .. MaxLen, SetVar(w, i, u)
  PROVE  Lists!ANext
<1>1. /\ pc = "idle" /\ pc' = "replace" /\ UNCHANGED <<items, var, iter, idx>>
      /\ Holds(w) /\ Holds(u) /\ lst' = var[w] /\ at' = i /\ arg' = var[u]
      /\ i \in 1 .. Len(items[var[w]]) /\ DecRef(items[var[w]][i])
  BY DEF SetVar, SetItem, At, loop
<1>2. var[w] \in Obj /\ items[var[w]] \in Seq(Obj)
  BY <1>1, VarLive DEF IInv, TypeOK
<1>3. i \in DOMAIN items[var[w]] /\ items[var[w]][i] \in Obj
  BY <1>1, <1>2
<1>4. \A o \in Obj : mem'[o] = "live" => mem[o] = "live"
  BY <1>1, <1>3, DecRefLive
<1>5. var[u] \in Lists!Argument \ {NULL}
  BY <1>1, IdleFacts DEF Holds, Lists!Argument
<1> QED
  BY <1>1, <1>3, <1>4, <1>5, SetSeen

LEMMA SetGetSeen ==
  ASSUME IInv, IInv', SetGet
  PROVE  Lists!ANext
<1>1. /\ pc = "set" /\ pc' = "replace" /\ UNCHANGED <<items, var, iter, idx, lst, at, arg>>
      /\ DecRef(items[lst][at])
  BY DEF SetGet, At, loop
<1>2. at \in 1 .. Len(items[lst]) /\ tmp = arg /\ tmp # NULL /\ lst # NULL
  BY <1>1 DEF IInv, Statements
<1>3. PICK w \in Var : var[w] = lst
  BY <1>1, <1>2 DEF IInv, Statements
<1>4. lst \in Obj /\ items[lst] \in Seq(Obj)
  BY <1>2 DEF IInv, TypeOK
<1>5. at \in DOMAIN items[lst] /\ items[lst][at] \in Obj
  BY <1>2, <1>4
<1>6. \A o \in Obj : mem'[o] = "live" => mem[o] = "live"
  BY <1>1, <1>5, DecRefLive
<1>7. arg' \in Lists!Argument \ {NULL}
  BY <1>1, <1>2 DEF AbsTemp, Lists!Argument
<1> QED
  BY <1>1, <1>2, <1>3, <1>5, <1>6, <1>7, SetSeen DEF Holds

LEMMA ReplaceStoreSeen ==
  ASSUME IInv, IInv', ReplaceStore
  PROVE  Lists!ANext
<1>1. /\ UNCHANGED <<mem, var, iter, idx>> /\ pc = "replace" /\ pc' = "idle" /\ tmp' = NULL
      /\ items' = [items EXCEPT ![lst][at] = arg]
  BY DEF ReplaceStore, At, IncRef, Done, loop
<1>2. items \in [Obj -> Seq(Obj)] /\ lst \in Obj
  BY <1>1 DEF IInv, TypeOK, Statements
<1>3. \A o \in Obj : items'[o] = IF o = lst THEN [items[o] EXCEPT ![at] = arg] ELSE items[o]
  BY <1>1, <1>2
<1>4. \A o \in Obj : mem'[o] = "live" => AbsList'[o] = AbsList[o]
  BY <1>1, <1>3 DEF AbsList
<1>5. AbsLocal' = AbsLocal /\ AbsTemp' = AbsTemp
  BY <1>1 DEF AbsLocal, AbsTemp
<1> QED
  BY <1>1, <1>4, <1>5, KeptStep

-----------------------------------------------------------------------------
(***************************************************************************)
(* Expressions.                                                            *)
(***************************************************************************)

\* The value of a name or of an element is retained.
LEMMA TakeSeen ==
  ASSUME IInv, IInv', pc = "idle", pc' \in {"release", "discard", "set"},
         UNCHANGED <<mem, items, var, iter, idx>>, NEW w \in Var, Holds(w), tmp' \in Obj,
         tmp' = var[w] \/ \E i \in DOMAIN items[var[w]] : tmp' = items[var[w]][i]
  PROVE  Lists!ANext
<1>1. AbsLocal' = AbsLocal /\ AbsTemp = NULL /\ AbsTemp' = tmp' /\ AbsLocal = var
  BY IdleFacts DEF AbsLocal, AbsTemp
<1>2. \A o \in Obj : mem[o] = "live" => AbsList'[o] = AbsList[o] /\ AbsList[o] = items[o]
  BY DEF AbsList
<1>3. Lists!Elems(AbsList)
  BY <1>2 DEF Lists!Elems
<1>4. var[w] \in Obj /\ mem[var[w]] = "live" /\ AbsList[var[w]] = items[var[w]] /\ tmp' # NULL
  BY <1>2, VarLive, ObjAssumption
<1>5. Lists!Evaluate
  <2>1. CASE tmp' = var[w]
    BY <1>1, <1>3, <1>4, <2>1 DEF Lists!Evaluate
  <2>2. CASE \E i \in DOMAIN items[var[w]] : tmp' = items[var[w]][i]
    <3>1. tmp' \in Lists!Elements(var[w])
      BY <1>4, <2>2 DEF Lists!Elements
    <3> QED
      BY <1>1, <1>3, <3>1 DEF Lists!Evaluate, Holds
  <2> QED
    BY <2>1, <2>2
<1>6. Lists!Reclaim({})
  BY Reclaimed
<1> QED
  BY <1>5, <1>6 DEF Lists!ANext

LEMMA AssignVarSeen ==
  ASSUME IInv, IInv', NEW v \in Var, NEW w \in Var, AssignVar(v, w)
  PROVE  Lists!ANext
<1>1. /\ pc = "idle" /\ pc' = "release" /\ UNCHANGED <<mem, items, var, iter, idx>>
      /\ Holds(w) /\ tmp' = var[w]
  BY DEF AssignVar, At, IncRef, Evaluated, loop
<1> QED
  BY <1>1, VarLive, TakeSeen

LEMMA ElementType ==
  ASSUME IInv, pc = "idle", NEW w \in Var, Holds(w), NEW i \in 1 .. Len(items[var[w]])
  PROVE  i \in DOMAIN items[var[w]] /\ items[var[w]][i] \in Obj
<1>1. var[w] \in Obj /\ items[var[w]] \in Seq(Obj)
  BY VarLive DEF IInv, TypeOK
<1> QED
  BY <1>1

LEMMA AssignGetSeen ==
  ASSUME IInv, IInv', NEW v \in Var, NEW w \in Var, NEW i \in 1 .. MaxLen, AssignGet(v, w, i)
  PROVE  Lists!ANext
<1>1. /\ pc = "idle" /\ pc' = "release" /\ UNCHANGED <<mem, items, var, iter, idx>>
      /\ Holds(w) /\ i \in 1 .. Len(items[var[w]]) /\ tmp' = items[var[w]][i]
  BY DEF AssignGet, At, IncRef, Evaluated, loop
<1> QED
  BY <1>1, ElementType, TakeSeen

LEMMA DiscardGetSeen ==
  ASSUME IInv, IInv', NEW w \in Var, NEW i \in 1 .. MaxLen, DiscardGet(w, i)
  PROVE  Lists!ANext
<1>1. /\ pc = "idle" /\ pc' = "discard" /\ UNCHANGED <<mem, items, var, iter, idx>>
      /\ Holds(w) /\ i \in 1 .. Len(items[var[w]]) /\ tmp' = items[var[w]][i]
  BY DEF DiscardGet, At, IncRef, ToDiscard, loop
<1> QED
  BY <1>1, ElementType, TakeSeen

LEMMA EvalGetSeen ==
  ASSUME IInv, IInv', NEW w \in Var, NEW u \in Var, NEW i \in 1 .. MaxLen, NEW j \in 1 .. MaxLen,
         EvalGet(w, i, u, j)
  PROVE  Lists!ANext
<1>1. /\ pc = "idle" /\ pc' = "set" /\ UNCHANGED <<mem, items, var, iter, idx>>
      /\ Holds(u) /\ j \in 1 .. Len(items[var[u]]) /\ tmp' = items[var[u]][j]
  BY DEF EvalGet, At, IncRef, loop
<1> QED
  BY <1>1, ElementType, TakeSeen

\* pop hands the last element over.
LEMMA PopSeen ==
  ASSUME IInv, IInv', pc = "idle", pc' \in {"release", "discard"},
         UNCHANGED <<mem, var, iter, idx>>, NEW w \in Var, Holds(w), PopItem(var[w]),
         tmp' = items[var[w]][Len(items[var[w]])]
  PROVE  Lists!ANext
<1> DEFINE l == var[w]
           s == items[l]
<1>1. AbsLocal' = AbsLocal /\ AbsTemp = NULL /\ AbsTemp' = tmp' /\ AbsLocal = var
  BY IdleFacts DEF AbsLocal, AbsTemp
<1>2. l \in Obj /\ mem[l] = "live" /\ items \in [Obj -> Seq(Obj)] /\ s \in Seq(Obj) /\ s # << >>
  BY VarLive DEF IInv, TypeOK, PopItem
<1>3. \A o \in Obj : items'[o] = IF o = l THEN SubSeq(s, 1, Len(s) - 1) ELSE items[o]
  BY <1>2 DEF PopItem, ButLast
<1>4. \A o \in Obj : mem[o] = "live" => AbsList'[o] = items'[o] /\ AbsList[o] = items[o]
  BY DEF AbsList
<1>5. Lists!Elems([AbsList EXCEPT ![l] = SubSeq(s, 1, Len(s) - 1)])
  BY <1>2, <1>3, <1>4 DEF Lists!Elems, AbsList
<1>6. Lists!Evaluate
  <2>1. AbsList[l] = s /\ s # << >> /\ AbsLocal[w] = l /\ l # NULL /\ tmp' = s[Len(s)]
    BY <1>1, <1>2, <1>4 DEF Holds
  <2>2. Lists!Elems(Lists!But(AbsList, AbsLocal[w], SubSeq(s, 1, Len(s) - 1)))
    BY <1>5, <2>1 DEF Lists!Elems, Lists!But
  <2>3. Lists!Elems(Lists!But(AbsList, AbsLocal[w],
                              SubSeq(AbsList[AbsLocal[w]], 1, Len(AbsList[AbsLocal[w]]) - 1)))
    BY <2>1, <2>2 DEF Lists!Elems
  <2>4. /\ AbsLocal[w] # NULL /\ AbsList[AbsLocal[w]] # << >>
        /\ tmp' = AbsList[AbsLocal[w]][Len(AbsList[AbsLocal[w]])]
    BY <2>1
  <2> HIDE DEF l, s
  <2> QED
    BY <1>1, <2>3, <2>4 DEF Lists!Evaluate
<1>7. Lists!Reclaim({})
  BY Reclaimed
<1> QED
  BY <1>6, <1>7 DEF Lists!ANext

LEMMA AssignPopSeen ==
  ASSUME IInv, IInv', NEW v \in Var, NEW w \in Var, AssignPop(v, w)
  PROVE  Lists!ANext
BY PopSeen DEF AssignPop, At, Evaluated, heap, loop

LEMMA DiscardPopSeen ==
  ASSUME IInv, IInv', NEW w \in Var, DiscardPop(w)
  PROVE  Lists!ANext
BY PopSeen DEF DiscardPop, At, ToDiscard, heap, loop

\* from_values: the list is allocated, with the values it is about to get.
LEMMA NewSeen ==
  ASSUME IInv, IInv', NEW v \in Var, NEW o \in Obj, NEW values \in Seq(Obj),
         AssignValues(v, o, values),
         \/ \E w \in Var : Holds(w) /\ values = items[var[w]]
         \/ \A i \in DOMAIN values : \E w \in Var : values[i] = var[w]
  PROVE  Lists!ANext
<1>1. /\ pc = "idle" /\ pc' = "fill" /\ tmp' = o /\ args' = values /\ mem[o] = "free"
      /\ mem' = [mem EXCEPT ![o] = "live"] /\ UNCHANGED <<items, var, iter, idx>>
  BY DEF AssignValues, At, New, loop
<1>2. AbsLocal' = AbsLocal /\ AbsTemp = NULL /\ AbsTemp' = o /\ AbsLocal = var
  BY <1>1, IdleFacts DEF AbsLocal, AbsTemp
<1>3. items[o] = << >> /\ mem \in [Obj -> {"free", "live", "dying"}]
  BY <1>1 DEF IInv, Contents, TypeOK
<1>4. AbsList'[o] = values
  <2>1. AbsList'[o] = items[o] \o values
    BY <1>1, <1>3 DEF AbsList
  <2>2. \A s \in Seq(Obj) : << >> \o s = s
    OBVIOUS
  <2> QED
    BY <1>3, <2>1, <2>2
<1>5. \A p \in Obj : p # o => mem'[p] = mem[p]
  BY <1>1, <1>3
<1>6. \A p \in Obj : p # o => AbsList'[p] = AbsList[p]
  BY <1>1, <1>5 DEF AbsList
<1>7. Lists!Elems(Lists!But(AbsList, o, AbsList'[o]))
  <2>1. Lists!But(AbsList, o, AbsList'[o])[o] = AbsList'[o]
    BY DEF Lists!But, AbsList
  <2>2. \A p \in Obj : p # o => Lists!But(AbsList, o, AbsList'[o])[p] = AbsList[p]
    BY DEF Lists!But, AbsList
  <2> QED
    BY <1>6, <2>1, <2>2 DEF Lists!Elems
<1>8. \/ \E w \in Var : AbsLocal[w] # NULL /\ AbsList'[o] = AbsList[AbsLocal[w]]
      \/ \A i \in DOMAIN AbsList'[o] : \E w \in Var : AbsList'[o][i] = AbsLocal[w]
  <2>1. CASE \E w \in Var : Holds(w) /\ values = items[var[w]]
    <3>1. PICK w \in Var : Holds(w) /\ values = items[var[w]]
      BY <2>1
    <3>2. AbsList[var[w]] = items[var[w]]
      BY <1>1, <3>1, VarLive, IdleFacts
    <3> QED
      BY <1>2, <1>4, <3>1, <3>2 DEF Holds
  <2>2. CASE \A i \in DOMAIN values : \E w \in Var : values[i] = var[w]
    BY <1>2, <1>4, <2>2
  <2> QED
    BY <2>1, <2>2
<1>9. Lists!EvaluateNew(o)
  BY <1>1, <1>2, <1>7, <1>8 DEF Lists!EvaluateNew
<1>10. Lists!Reclaim({o})
  BY <1>5, Reclaimed
<1> QED
  BY <1>9, <1>10 DEF Lists!ANext

LEMMA AssignLiteralSeen ==
  ASSUME IInv, IInv', NEW v \in Var, NEW o \in Obj, NEW n \in Nat, NEW ws \in [1 .. n -> Var],
         AssignLiteral(v, o, ws)
  PROVE  Lists!ANext
<1> DEFINE values == [i \in DOMAIN ws |-> var[ws[i]]]
<1>1. \A i \in 1 .. n : ws[i] \in Var /\ Holds(ws[i])
  BY DEF AssignLiteral
<1>2. AssignValues(v, o, values)
  BY DEF AssignLiteral
<1>3. \A i \in 1 .. n : var[ws[i]] \in Obj
  BY <1>1 DEF Holds, IInv, TypeOK
<1>4. values \in Seq(Obj)
  BY <1>3
<1>5. \A i \in DOMAIN values : \E w \in Var : values[i] = var[w]
  BY <1>1
<1> HIDE DEF values
<1> QED
  BY <1>2, <1>4, <1>5, NewSeen

LEMMA AssignCopySeen ==
  ASSUME IInv, IInv', NEW v \in Var, NEW o \in Obj, NEW w \in Var, AssignCopy(v, o, w)
  PROVE  Lists!ANext
<1>1. Holds(w) /\ AssignValues(v, o, items[var[w]])
  BY DEF AssignCopy
<1>2. items[var[w]] \in Seq(Obj)
  BY <1>1 DEF Holds, IInv, TypeOK
<1> QED
  BY <1>1, <1>2, NewSeen

-----------------------------------------------------------------------------
(***************************************************************************)
(* append, clear, scopes and loops.                                        *)
(***************************************************************************)
LEMMA AppendSeen ==
  ASSUME IInv, IInv', pc = "idle", UNCHANGED <<mem, var, pc, tmp, iter, idx>>,
         NEW w \in Var, Holds(w), NEW e, e \in Lists!Argument \ {NULL},
         items' = [items EXCEPT ![var[w]] = Append(@, e)]
  PROVE  Lists!ANext
<1>1. /\ AbsLocal' = AbsLocal /\ AbsTemp' = AbsTemp /\ AbsLocal = var
      /\ var[w] \in Obj /\ mem[var[w]] = "live" /\ AbsLocal[w] # NULL
  BY IdleFacts, VarLive DEF AbsLocal, AbsTemp, Holds
<1>2. \A o \in Obj : mem[o] = "live" => AbsList[o] = items[o] /\ AbsList'[o] = items'[o]
  BY DEF AbsList
<1>3. \A o \in Obj : items'[o] = IF o = var[w] THEN Append(items[o], e) ELSE items[o]
  BY <1>1 DEF IInv, TypeOK
<1>4. Lists!Elems(Lists!But(AbsList, AbsLocal[w], Append(AbsList[AbsLocal[w]], e)))
  <2>1. \A o \in Obj : Lists!But(AbsList, var[w], Append(AbsList[var[w]], e))[o] =
                         IF o = var[w] THEN Append(AbsList[o], e) ELSE AbsList[o]
    BY DEF Lists!But, AbsList
  <2>2. Lists!Elems(Lists!But(AbsList, var[w], Append(AbsList[var[w]], e)))
    BY <1>2, <1>3, <2>1 DEF Lists!Elems
  <2> QED
    BY <1>1, <2>2 DEF Lists!Elems
<1>5. Lists!AppendTo(AbsLocal[w])
  BY <1>1, <1>4 DEF Lists!AppendTo
<1>6. Lists!Reclaim({})
  BY Reclaimed
<1> QED
  BY <1>1, <1>5, <1>6, AppendStep

LEMMA AppendVarSeen ==
  ASSUME IInv, IInv', NEW w \in Var, NEW u \in Var, AppendVar(w, u)
  PROVE  Lists!ANext
<1>1. /\ pc = "idle" /\ UNCHANGED <<mem, var, pc, tmp, iter, idx>> /\ Holds(w) /\ Holds(u)
      /\ items' = [items EXCEPT ![var[w]] = Append(@, var[u])]
  BY DEF AppendVar, At, IncRef, stmt, loop
<1>2. var[u] \in Lists!Argument \ {NULL}
  BY <1>1, IdleFacts DEF Holds, Lists!Argument
<1> QED
  BY <1>1, <1>2, AppendSeen

LEMMA AppendGetSeen ==
  ASSUME IInv, IInv', NEW w \in Var, NEW u \in Var, NEW i \in 1 .. MaxLen, AppendGet(w, u, i)
  PROVE  Lists!ANext
<1> DEFINE e == items[var[u]][i]
<1>1. /\ pc = "idle" /\ UNCHANGED <<mem, var, pc, tmp, iter, idx>> /\ Holds(w) /\ Holds(u)
      /\ items' = [items EXCEPT ![var[w]] = Append(@, e)] /\ i \in 1 .. Len(items[var[u]])
  BY DEF AppendGet, At, stmt, loop
<1>2. i \in DOMAIN items[var[u]] /\ e \in Obj
  BY <1>1, ElementType
<1>3. AbsList[var[u]] = items[var[u]] /\ AbsLocal = var
  BY <1>1, VarLive, IdleFacts
<1>4. e \in Lists!Elements(AbsLocal[u])
  BY <1>2, <1>3 DEF Lists!Elements
<1>5. e \in Lists!Argument \ {NULL}
  BY <1>1, <1>2, <1>3, <1>4, ObjAssumption DEF Holds, Lists!Argument
<1> HIDE DEF e
<1> QED
  BY <1>1, <1>5, AppendSeen

LEMMA ClearSeen ==
  ASSUME IInv, IInv', NEW w \in Var, Clear(w)
  PROVE  Lists!ANext
<1>1. /\ pc = "idle" /\ pc' = "clear" /\ lst' = var[w] /\ Holds(w)
      /\ UNCHANGED <<mem, items, var, tmp, iter, idx>>
  BY DEF Clear, At, heap, loop
<1>2. AbsLocal' = AbsLocal /\ AbsTemp' = AbsTemp /\ AbsLocal = var /\ AbsLocal[w] # NULL
  BY <1>1, IdleFacts DEF AbsLocal, AbsTemp, Holds
<1>3. \A o \in Obj : mem[o] = "live" => /\ AbsList[o] = items[o]
                                        /\ AbsList'[o] = IF o = var[w] THEN << >> ELSE items[o]
  BY <1>1 DEF AbsList
<1>4. \A o \in Obj : Lists!But(AbsList, var[w], << >>)[o] =
                       IF o = var[w] THEN << >> ELSE AbsList[o]
  <2>1. AbsList \in [Obj -> {AbsList[o] : o \in Obj}]
    BY DEF AbsList
  <2> QED
    BY <2>1 DEF Lists!But
<1>5. Lists!Elems(Lists!But(AbsList, var[w], << >>))
  BY <1>1, <1>3, <1>4 DEF Lists!Elems
<1>6. Lists!Elems(Lists!But(AbsList, AbsLocal[w], << >>))
  BY <1>2, <1>5 DEF Lists!Elems
<1>7. Lists!ClearAll(AbsLocal[w])
  BY <1>1, <1>2, <1>6 DEF Lists!ClearAll
<1>8. Lists!Reclaim({})
  BY <1>1, Reclaimed
<1> QED
  BY <1>2, <1>7, <1>8, EmptyStep

LEMMA DropVarSeen ==
  ASSUME IInv, IInv', NEW v \in Var, DropVar(v)
  PROVE  Lists!ANext
<1>1. /\ pc = "idle" /\ pc' = "idle" /\ UNCHANGED <<items, tmp, iter, idx>>
      /\ Holds(v) /\ DecRef(var[v]) /\ var' = [var EXCEPT ![v] = NULL]
  BY DEF DropVar, At, stmt, loop
<1>2. \A o \in Obj : mem'[o] = "live" => mem[o] = "live"
  BY <1>1, VarLive, DecRefLive
<1>3. AbsLocal' = [AbsLocal EXCEPT ![v] = NULL] /\ AbsTemp' = AbsTemp
  BY <1>1 DEF AbsLocal, AbsTemp
<1>4. Lists!Elems(AbsList)
  BY <1>1, <1>2 DEF Lists!Elems, AbsList
<1>5. Lists!EndScope(v)
  BY <1>1, <1>3, <1>4 DEF Lists!EndScope
<1> QED
  BY <1>2, <1>5, Reclaimed DEF Lists!ANext

LEMMA ForStartSeen ==
  ASSUME IInv, IInv', NEW o \in Obj, ForStart(o), NEW w \in Var, Holds(w),
         o = var[w] \/ \E i \in DOMAIN items[var[w]] : o = items[var[w]][i]
  PROVE  Lists!ANext
<1>1. /\ pc = "idle" /\ pc' = "idle" /\ UNCHANGED <<mem, items, var, tmp>>
      /\ iter = NULL /\ iter' = o /\ idx' = 0
  BY DEF ForStart, At, IncRef, stmt
<1>2. AbsLocal' = AbsLocal /\ AbsTemp' = AbsTemp /\ AbsLocal = var /\ AbsLocal[w] # NULL
  BY <1>1, IdleFacts DEF AbsLocal, AbsTemp, Holds
<1>3. Lists!Elems(AbsList)
  BY <1>1 DEF Lists!Elems, AbsList
<1>4. o \in {AbsLocal[w]} \cup Lists!Elements(AbsLocal[w]) /\ o # NULL
  BY <1>1, <1>2, IdleFacts, VarLive, ObjAssumption DEF Lists!Elements
<1>5. Lists!Begin
  BY <1>1, <1>2, <1>3, <1>4 DEF Lists!Begin
<1>6. Lists!Reclaim({})
  BY <1>1, Reclaimed
<1> QED
  BY <1>5, <1>6 DEF Lists!ANext

LEMMA ForVarSeen ==
  ASSUME IInv, IInv', NEW w \in Var, ForVar(w)
  PROVE  Lists!ANext
<1>1. pc = "idle" /\ Holds(w) /\ ForStart(var[w])
  BY DEF ForVar, ForStart, At
<1> QED
  BY <1>1, VarLive, ForStartSeen

LEMMA ForGetSeen ==
  ASSUME IInv, IInv', NEW w \in Var, NEW i \in 1 .. MaxLen, ForGet(w, i)
  PROVE  Lists!ANext
<1>1. pc = "idle" /\ Holds(w) /\ ForStart(items[var[w]][i]) /\ i \in 1 .. Len(items[var[w]])
  BY DEF ForGet, ForStart, At
<1> QED
  BY <1>1, ElementType, ForStartSeen

LEMMA ForNextSeen ==
  ASSUME IInv, IInv', ForNext
  PROVE  Lists!ANext
<1>1. /\ pc = "idle" /\ pc' = "idle" /\ UNCHANGED <<mem, items, tmp, iter>> /\ iter # NULL
      /\ idx < Len(items[iter]) /\ idx' = idx + 1
      /\ var' = [var EXCEPT ![LoopVar] = items[iter][idx + 1]]
  BY DEF ForNext, At, IncRef, stmt
<1>2. AbsList[iter] = items[iter]
  BY <1>1, NamesLive, IdleFacts DEF Live
<1>3. AbsLocal' = [AbsLocal EXCEPT ![LoopVar] = AbsList[iter][idx + 1]] /\ AbsTemp' = AbsTemp
  BY <1>1, <1>2 DEF AbsLocal, AbsTemp
<1>4. Lists!Elems(AbsList)
  BY <1>1 DEF Lists!Elems, AbsList
<1>5. Lists!Visit(LoopVar)
  BY <1>1, <1>2, <1>3, <1>4 DEF Lists!Visit
<1>6. Lists!Reclaim({})
  BY <1>1, Reclaimed
<1> QED
  BY <1>5, <1>6, VarAssumption DEF Lists!ANext

LEMMA ForEndSeen ==
  ASSUME IInv, IInv', ForEnd
  PROVE  Lists!ANext
<1>1. /\ pc = "idle" /\ pc' = "idle" /\ UNCHANGED <<items, var, tmp>> /\ iter # NULL
      /\ DecRef(iter) /\ iter' = NULL /\ idx' = 0
  BY DEF ForEnd, At, stmt
<1>2. \A o \in Obj : mem'[o] = "live" => mem[o] = "live"
  BY <1>1, DecRefLive DEF IInv, TypeOK
<1>3. AbsLocal' = AbsLocal /\ AbsTemp' = AbsTemp
  BY <1>1 DEF AbsLocal, AbsTemp
<1>4. Lists!Elems(AbsList)
  BY <1>1, <1>2 DEF Lists!Elems, AbsList
<1>5. Lists!Finish
  BY <1>1, <1>3, <1>4 DEF Lists!Finish
<1> QED
  BY <1>2, <1>5, Reclaimed DEF Lists!ANext

-----------------------------------------------------------------------------
(***************************************************************************)
(* The refinement.                                                         *)
(***************************************************************************)
LEMMA InitSeen ==
  ASSUME Init
  PROVE  Lists!AInit
<1>1. AbsLocal = [v \in Var |-> NULL] /\ AbsTemp = NULL /\ iter = NULL /\ idx = 0
  BY DEF Init, AbsLocal, AbsTemp
<1>2. AbsList = [o \in Obj |-> << >>]
  BY DEF Init, AbsList
<1>3. {o \in Obj : mem[o] = "live"} = {}
  BY DEF Init
<1> QED
  BY <1>1, <1>2, <1>3 DEF Lists!AInit

LEMMA StutterSeen ==
  ASSUME UNCHANGED vars
  PROVE  UNCHANGED Lists!avars
BY DEF vars, Lists!avars, AbsLocal, AbsTemp, AbsList

\* Every statement and every step of the runtime is a step of the abstract
\* program.
LEMMA NextSeen ==
  ASSUME IInv, IInv', Next
  PROVE  Lists!ANext
<1>1. CASE Assignment
  <2>1. ASSUME NEW v \in Var, NEW w \in Var, AssignVar(v, w) \/ AssignPop(v, w)
        PROVE  Lists!ANext
    BY <2>1, AssignVarSeen, AssignPopSeen
  <2>2. ASSUME NEW v \in Var, NEW w \in Var, NEW i \in 1 .. MaxLen, AssignGet(v, w, i)
        PROVE  Lists!ANext
    BY <2>2, AssignGetSeen
  <2>3. ASSUME NEW v \in Var, NEW o \in Obj, NEW n \in 0 .. MaxLen,
               NEW ws \in [1 .. n -> Var], AssignLiteral(v, o, ws)
        PROVE  Lists!ANext
    BY <2>3, AssignLiteralSeen
  <2>4. ASSUME NEW v \in Var, NEW o \in Obj, NEW w \in Var, AssignCopy(v, o, w)
        PROVE  Lists!ANext
    BY <2>4, AssignCopySeen
  <2> QED
    BY <1>1, <2>1, <2>2, <2>3, <2>4 DEF Assignment
<1>2. CASE Statement
  <2>1. ASSUME NEW w \in Var, NEW i \in 1 .. MaxLen, DiscardGet(w, i) \/ ForGet(w, i)
        PROVE  Lists!ANext
    BY <2>1, DiscardGetSeen, ForGetSeen
  <2>2. ASSUME NEW w \in Var, NEW u \in Var, AppendVar(w, u)
        PROVE  Lists!ANext
    BY <2>2, AppendVarSeen
  <2>3. ASSUME NEW w \in Var, NEW u \in Var, NEW i \in 1 .. MaxLen,
               AppendGet(w, u, i) \/ SetVar(w, i, u)
        PROVE  Lists!ANext
    BY <2>3, AppendGetSeen, SetVarSeen
  <2>4. ASSUME NEW w \in Var, NEW u \in Var, NEW i \in 1 .. MaxLen, NEW j \in 1 .. MaxLen,
               EvalGet(w, i, u, j)
        PROVE  Lists!ANext
    BY <2>4, EvalGetSeen
  <2>5. ASSUME NEW w \in Var, DiscardPop(w) \/ Clear(w) \/ DropVar(w) \/ ForVar(w)
        PROVE  Lists!ANext
    BY <2>5, DiscardPopSeen, ClearSeen, DropVarSeen, ForVarSeen
  <2>6. ASSUME ForNext \/ ForEnd
        PROVE  Lists!ANext
    BY <2>6, ForNextSeen, ForEndSeen
  <2> QED
    BY <1>2, <2>1, <2>2, <2>3, <2>4, <2>5, <2>6 DEF Statement
<1>3. CASE Runtime
  BY <1>3, ReleaseElementSeen, FreeListSeen, FillStepSeen, FillDoneSeen, ReleaseTargetSeen,
     StoreTargetSeen, DiscardTempSeen, SetGetSeen, ReplaceStoreSeen, ClearStepSeen,
     ClearDoneSeen DEF Runtime
<1> QED
  BY <1>1, <1>2, <1>3 DEF Next

\* The generated program with its refcounts behaves as the language promises:
\* each of its steps is one step of a program on a garbage-collected heap, or
\* none, and no list is reclaimed that the abstract program can still reach.
THEOREM Refinement == Spec => ImplementsManagedLists
<1>1. Init => Lists!AInit
  BY InitSeen
<1>2. IInv /\ IInv' /\ [Next]_vars => [Lists!ANext]_(Lists!avars)
  BY NextSeen, StutterSeen
<1>3. Spec => []IInv
  BY Inductive
<1> QED
  BY <1>1, <1>2, <1>3, PTL DEF Spec, ImplementsManagedLists, Lists!ASpec

-----------------------------------------------------------------------------
(***************************************************************************)
(* What is still allocated between statements.                             *)
(***************************************************************************)

\* What can be reached has the roots, and with a list its elements.
LEMMA ReachableClosed ==
  ASSUME NEW roots, NEW elems
  PROVE  /\ Lists!Reachable(roots, elems) \subseteq Obj
         /\ (roots \cap Obj) \ {NULL} \subseteq Lists!Reachable(roots, elems)
         /\ \A p \in Lists!Reachable(roots, elems) : \A i \in DOMAIN elems[p] :
              elems[p][i] \in Obj => elems[p][i] \in Lists!Reachable(roots, elems)
BY DEF Lists!Reachable

LEMMA Smallest ==
  ASSUME NEW T \in SUBSET Nat, T # {}
  PROVE  \E x \in T : \A y \in T : x <= y
<1> DEFINE R == OpToRel(<, Nat)
<1>1. IsWellFoundedOn(R, Nat)
  BY NatLessThanWellFounded
<1>2. PICK x \in T : \A y \in T : ~ (<<y, x>> \in R)
  BY <1>1, WFMin
<1>3. \A y \in T : ~(y < x)
  BY <1>2 DEF OpToRel
<1> QED
  BY <1>3

\* A list that holds another one leads to it and to all that it leads to.
LEMMA DescendantsOfHolder ==
  ASSUME IInv, NEW p \in Obj, NEW i \in DOMAIN items[p]
  PROVE  items[p][i] \in Descendants(p) /\ Descendants(items[p][i]) \subseteq Descendants(p)
<1> DEFINE o == items[p][i]
<1>1. items[p] \in Seq(Obj) /\ o \in Obj /\ o # NULL
  BY ObjAssumption DEF IInv, TypeOK
<1>2. o \in Children(p) /\ o \in Descendants(p)
  BY <1>1, ReachableClosed DEF Children, Descendants
<1>3. Children(o) \ {NULL} \subseteq Descendants(p)
  <2> SUFFICES ASSUME NEW j \in DOMAIN items[o]
               PROVE  items[o][j] \in Descendants(p)
    BY DEF Children
  <2>1. items[o] \in Seq(Obj) /\ items[o][j] \in Obj
    BY <1>1 DEF IInv, TypeOK
  <2> QED
    BY <1>2, <2>1, ReachableClosed DEF Descendants
<1>4. /\ Descendants(p) \in SUBSET Obj
      /\ \A q \in Descendants(p) : \A j \in DOMAIN items[q] : items[q][j] \in Descendants(p)
  <2>1. Descendants(p) \in SUBSET Obj
    BY ReachableClosed DEF Descendants
  <2>2. ASSUME NEW q \in Descendants(p), NEW j \in DOMAIN items[q]
        PROVE  items[q][j] \in Descendants(p)
    <3>1. items[q] \in Seq(Obj) /\ items[q][j] \in Obj
      BY <2>1 DEF IInv, TypeOK
    <3> QED
      BY <3>1, ReachableClosed DEF Descendants
  <2> QED
    BY <2>1, <2>2
<1> HIDE DEF o
<1>5. Lists!Reachable(Children(o), items) \subseteq Descendants(p)
  BY <1>3, <1>4, ReachableWithin
<1> QED
  BY <1>2, <1>5 DEF Descendants, o

\* The lists that the running program or a known leak leads to.
Excused == {o \in Obj : mem[o] = "live" /\ (lost[o] > 0 \/ o \in Descendants(o))}
Explained == Lists!Reachable(Roots \cup Excused, items)

\* A list that is not explained is held by another one that is not.
LEMMA UnexplainedHolder ==
  ASSUME IInv, At("idle"), NEW o \in Obj, mem[o] # "free", o \notin Explained
  PROVE  /\ o \notin Descendants(o)
         /\ \E p \in Obj : /\ mem[p] # "free" /\ p \notin Explained
                           /\ \E i \in DOMAIN items[p] : items[p][i] = o
<1>1. \A q \in Obj : mem[q] # "free" => mem[q] = "live"
  BY DEF At, IInv, TypeOK, Lifecycle
<1>2. o \notin Roots /\ o \notin Excused /\ o # NULL
  BY ReachableClosed, ObjAssumption DEF Explained
<1>3. ~(lost[o] > 0) /\ o \notin Descendants(o) /\ lost[o] \in Nat /\ rc[o] \in Nat /\ rc[o] > 0
  BY <1>1, <1>2 DEF Excused, IInv, TypeOK, Lifecycle
<1>4. VarRefs(o) = {} /\ iter # o /\ tmp # o
  BY <1>2 DEF Roots, VarRefs, IInv, Statements, At
<1>5. SlotRefs(o) # {}
  <2>1. rc[o] = Refs(o)
    BY DEF IInv, RefCountExact
  <2>2. SlotRefs(o) = {} => Refs(o) = 0
    BY <1>3, <1>4, FS_EmptySet DEF Refs, One
  <2> QED
    BY <1>3, <2>1, <2>2
<1>6. PICK s \in Obj \X (1 .. MaxLen) : InUse(s) /\ items[s[1]][s[2]] = o
  BY <1>5 DEF SlotRefs
<1> DEFINE p == s[1]
           i == s[2]
<1>7. p \in Obj /\ i \in DOMAIN items[p] /\ items[p][i] = o
  <2>1. p \in Obj /\ i \in Nat /\ cursor[p] \in Nat /\ items[p] \in Seq(Obj)
    BY <1>6, BoundAssumption DEF IInv, TypeOK
  <2>2. cursor[p] < i /\ i <= Len(items[p])
    BY <1>6 DEF InUse
  <2> QED
    BY <1>6, <2>1, <2>2
<1> HIDE DEF p, i
<1>8. mem[p] # "free"
  <2>1. items[p] # << >>
    BY <1>7
  <2> QED
    BY <1>7, <2>1 DEF IInv, Contents
<1>9. p \notin Explained
  BY <1>7, ReachableClosed DEF Explained
<1> QED
  BY <1>3, <1>7, <1>8, <1>9

LEMMA IInvGarbage ==
  ASSUME IInv
  PROVE  GarbageIsExplained
<1> SUFFICES ASSUME At("idle"), NEW g \in Obj, mem[g] # "free", g \notin Explained
             PROVE  FALSE
  BY DEF GarbageIsExplained, Explained, Excused
<1> DEFINE G == {o \in Obj : mem[o] # "free" /\ o \notin Explained}
           Rest(o) == Obj \ Descendants(o)
           Size(o) == Cardinality(Rest(o))
<1>1. \A o \in Obj : IsFiniteSet(Rest(o)) /\ Size(o) \in Nat
  BY ObjAssumption, FS_Subset, FS_CardinalityType
<1>2. PICK o \in G : \A p \in G : Size(o) <= Size(p)
  <2> DEFINE T == {Size(p) : p \in G}
  <2> HIDE DEF Size
  <2>1. T \in SUBSET Nat /\ T # {}
    BY <1>1
  <2>2. PICK x \in T : \A y \in T : x <= y
    BY <2>1, Smallest
  <2> QED
    BY <2>2
<1>3. PICK p \in G : o \notin Descendants(o) /\ \E i \in DOMAIN items[p] : items[p][i] = o
  BY <1>2, UnexplainedHolder
<1>4. o \in Descendants(p) /\ Descendants(o) \subseteq Descendants(p)
  BY <1>3, DescendantsOfHolder
<1>5. Rest(p) \subseteq Rest(o) /\ Rest(p) # Rest(o)
  BY <1>2, <1>3, <1>4
<1>6. Size(p) < Size(o)
  BY <1>1, <1>2, <1>3, <1>5, FS_Subset
<1>7. Size(o) <= Size(p) /\ Size(o) \in Nat /\ Size(p) \in Nat
  BY <1>1, <1>2, <1>3
<1> HIDE DEF Size
<1> QED
  BY <1>6, <1>7

\* Between statements no list stays allocated that is not in reach, in a cycle,
\* or behind a reference that an inline argument has abandoned.
THEOREM Garbage == Spec => []GarbageIsExplained
<1>1. IInv => GarbageIsExplained
  BY IInvGarbage
<1> QED
  BY <1>1, Inductive, PTL
=============================================================================
