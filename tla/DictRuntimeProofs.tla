-------------------------- MODULE DictRuntimeProofs --------------------------
(***************************************************************************)
(* CountsExact, NoDangling, KeysOwnedOnce and LoopFaithful hold for any    *)
(* number of dicts, keys, values and locals and for dicts of any length:   *)
(* IInv is inductive.  From it, the runtime implements OrderedMaps.        *)
(***************************************************************************)
EXTENDS DictRefinement, TLAPS, FiniteSetTheorems, FunctionTheorems, SequenceTheorems,
        WellFoundedInduction

USE NullAssumption

LEMMA Sizes ==
  /\ IsFiniteSet(Dict) /\ IsFiniteSet(KeyAddr) /\ IsFiniteSet(Text)
  /\ IsFiniteSet(Val) /\ IsFiniteSet(Var) /\ MaxLen \in Nat /\ MaxLost \in Nat
BY SizeAssumption

-----------------------------------------------------------------------------
(***************************************************************************)
(* Counting.                                                               *)
(***************************************************************************)

\* A bijection preserves the count.
LEMMA CardSame ==
  ASSUME NEW S, NEW T, IsFiniteSet(S), NEW f \in [S -> T],
         \A a, b \in S : f[a] = f[b] => a = b,
         \A t \in T : \E s \in S : f[s] = t
  PROVE  IsFiniteSet(T) /\ Cardinality(T) = Cardinality(S)
<1>1. f \in Bijection(S, T)
  BY Fun_IsBij
<1>2. ExistsBijection(S, T)
  BY <1>1 DEF ExistsBijection
<1> QED
  BY <1>2, FS_Bijection

\* The entries of one dict as places.
LEMMA CardColumn ==
  ASSUME NEW S, IsFiniteSet(S), NEW d
  PROVE  /\ IsFiniteSet({d} \X S)
         /\ Cardinality({d} \X S) = Cardinality(S)
<1> DEFINE f == [i \in S |-> <<d, i>>]
<1>1. f \in [S -> {d} \X S]
  OBVIOUS
<1>2. \A a, b \in S : f[a] = f[b] => a = b
  OBVIOUS
<1>3. \A t \in {d} \X S : \E s \in S : f[s] = t
  OBVIOUS
<1> HIDE DEF f
<1> QED
  BY <1>1, <1>2, <1>3, CardSame

\* Two disjoint parts.
LEMMA CardParts ==
  ASSUME NEW S, NEW T, IsFiniteSet(S), IsFiniteSet(T), S \cap T = {}
  PROVE  Cardinality(S \cup T) = Cardinality(S) + Cardinality(T)
<1>1. Cardinality(S \cap T) = 0
  BY FS_EmptySet
<1>2. Cardinality(S) \in Nat /\ Cardinality(T) \in Nat
  BY FS_CardinalityType
<1>3. Cardinality(S \cup T) = Cardinality(S) + Cardinality(T) - Cardinality(S \cap T)
  BY FS_Union
<1> QED
  BY <1>1, <1>2, <1>3

-----------------------------------------------------------------------------
(***************************************************************************)
(* The places of the dicts, as pairs of a dict and an index.               *)
(***************************************************************************)
Slot == Dict \X (1 .. MaxLen)

Shape ==
  /\ keys \in [Dict -> Seq(KeyAddr)] /\ values \in [Dict -> Seq(Val)]
  /\ \A d \in Dict : Len(keys[d]) = Len(values[d]) /\ Len(keys[d]) <= MaxLen

\* Place s exists and its value has not been released by a set.
InUse(s) == s[2] <= Len(keys[s[1]]) /\ ~Open(s[1], s[2])

LEMMA IInvShape ==
  ASSUME IInv
  PROVE  Shape
<1>1. TypeOK /\ Arrays
  BY DEF IInv
<1>2. keys \in [Dict -> Seq(KeyAddr)] /\ values \in [Dict -> Seq(Val)]
  BY <1>1 DEF TypeOK
<1>3. \A d \in Dict : Len(keys[d]) = Len(values[d]) /\ Len(keys[d]) <= MaxLen
  BY <1>1 DEF Arrays
<1> QED
  BY <1>2, <1>3 DEF Shape

LEMMA SlotFinite == IsFiniteSet(Slot)
<1>1. IsFiniteSet(1 .. MaxLen)
  BY FS_Interval, Sizes
<1> QED
  BY <1>1, FS_Product, Sizes DEF Slot

LEMMA PlacesAreSlots ==
  ASSUME Shape
  PROVE  Places = {s \in Slot : s[2] <= Len(keys[s[1]])}
<1>1. \A d \in Dict : Entries(d) = 1 .. Len(keys[d]) /\ Len(keys[d]) \in Nat /\ Len(keys[d]) <= MaxLen
  BY DEF Shape, Entries
<1>2. ASSUME NEW s \in Places
      PROVE  s \in Slot /\ s[2] <= Len(keys[s[1]])
  BY <1>1, Sizes DEF Places, Slot
<1>3. ASSUME NEW s \in Slot, s[2] <= Len(keys[s[1]])
      PROVE  s \in Places
  <2>1. s[1] \in Dict /\ s[2] \in Entries(s[1]) /\ s = <<s[1], s[2]>>
    BY <1>1, <1>3 DEF Slot
  <2> QED
    BY <2>1 DEF Places
<1> QED
  BY <1>2, <1>3

LEMMA PlacesAreSlotsPrimed ==
  ASSUME Shape'
  PROVE  Places' = {s \in Slot : s[2] <= Len(keys'[s[1]])}
<1>1. \A d \in Dict : Entries(d)' = 1 .. Len(keys'[d]) /\ Len(keys'[d]) \in Nat /\ Len(keys'[d]) <= MaxLen
  BY DEF Shape, Entries
<1>2. ASSUME NEW s \in Places'
      PROVE  s \in Slot /\ s[2] <= Len(keys'[s[1]])
  BY <1>1, Sizes DEF Places, Slot
<1>3. ASSUME NEW s \in Slot, s[2] <= Len(keys'[s[1]])
      PROVE  s \in Places'
  <2>1. s[1] \in Dict /\ s[2] \in Entries(s[1])' /\ s = <<s[1], s[2]>>
    BY <1>1, <1>3 DEF Slot
  <2> QED
    BY <2>1 DEF Places
<1> QED
  BY <1>2, <1>3

LEMMA HoldersAreSlots ==
  ASSUME Shape, NEW v
  PROVE  /\ Holders(v) = {s \in Slot : InUse(s) /\ values[s[1]][s[2]] = v}
         /\ IsFiniteSet(Holders(v)) /\ Cardinality(Holders(v)) \in Nat
<1>1. Holders(v) = {s \in Slot : InUse(s) /\ values[s[1]][s[2]] = v}
  BY PlacesAreSlots DEF Holders, InUse
<1>2. IsFiniteSet(Holders(v))
  BY <1>1, SlotFinite, FS_Subset
<1> QED
  BY <1>1, <1>2, FS_CardinalityType

LEMMA HoldersAreSlotsPrimed ==
  ASSUME Shape', NEW v
  PROVE  /\ Holders(v)' = {s \in Slot : InUse(s)' /\ values'[s[1]][s[2]] = v}
         /\ IsFiniteSet(Holders(v)') /\ Cardinality(Holders(v)') \in Nat
<1>1. Holders(v)' = {s \in Slot : InUse(s)' /\ values'[s[1]][s[2]] = v}
  BY PlacesAreSlotsPrimed DEF Holders, InUse
<1>2. IsFiniteSet(Holders(v)')
  BY <1>1, SlotFinite, FS_Subset
<1> QED
  BY <1>1, <1>2, FS_CardinalityType

LEMMA NamesFinite ==
  ASSUME NEW d
  PROVE  /\ IsFiniteSet(Names(d)) /\ Cardinality(Names(d)) \in Nat
         /\ IsFiniteSet(Names(d)') /\ Cardinality(Names(d)') \in Nat
<1>1. IsFiniteSet(Names(d)) /\ IsFiniteSet(Names(d)')
  BY FS_Subset, Sizes DEF Names
<1> QED
  BY <1>1, FS_CardinalityType

-----------------------------------------------------------------------------
(***************************************************************************)
(* How a step changes the counted sets.                                    *)
(***************************************************************************)

\* No place changes hands.
LEMMA HoldersSame ==
  ASSUME Shape, Shape', NEW w,
         \A s \in Slot : InUse(s)' <=> InUse(s),
         \A s \in Slot : InUse(s) => values'[s[1]][s[2]] = values[s[1]][s[2]]
  PROVE  Holders(w)' = Holders(w)
<1>1. Holders(w) = {s \in Slot : InUse(s) /\ values[s[1]][s[2]] = w}
  BY HoldersAreSlots
<1>2. Holders(w)' = {s \in Slot : InUse(s)' /\ values'[s[1]][s[2]] = w}
  BY HoldersAreSlotsPrimed
<1> QED
  BY <1>1, <1>2

\* Place s, which held e, goes out of use.
LEMMA HoldersLost ==
  ASSUME Shape, Shape', NEW w, NEW s \in Slot, InUse(s),
         \A t \in Slot : InUse(t)' <=> InUse(t) /\ t # s,
         \A t \in Slot : InUse(t)' => values'[t[1]][t[2]] = values[t[1]][t[2]]
  PROVE  Cardinality(Holders(w)') = Cardinality(Holders(w)) - One(values[s[1]][s[2]] = w)
<1> DEFINE S == Holders(w)
           T == Holders(w)'
<1>1. S = {t \in Slot : InUse(t) /\ values[t[1]][t[2]] = w} /\ IsFiniteSet(S) /\ Cardinality(S) \in Nat
  BY HoldersAreSlots
<1>2. T = {t \in Slot : InUse(t)' /\ values'[t[1]][t[2]] = w}
  BY HoldersAreSlotsPrimed
<1> HIDE DEF S, T
<1>3. CASE values[s[1]][s[2]] = w
  <2>1. s \in S /\ T = S \ {s}
    BY <1>1, <1>2, <1>3
  <2>2. Cardinality(T) = Cardinality(S) - 1
    BY <1>1, <2>1, FS_RemoveElement
  <2> QED
    BY <1>3, <2>2 DEF One, S, T
<1>4. CASE values[s[1]][s[2]] # w
  <2>1. T = S
    BY <1>1, <1>2, <1>4
  <2> QED
    BY <1>1, <1>4, <2>1 DEF One, S, T
<1> QED
  BY <1>3, <1>4

\* Place s comes into use.
LEMMA HoldersGained ==
  ASSUME Shape, Shape', NEW w, NEW s \in Slot, ~InUse(s),
         \A t \in Slot : InUse(t)' <=> InUse(t) \/ t = s,
         \A t \in Slot : InUse(t) => values'[t[1]][t[2]] = values[t[1]][t[2]]
  PROVE  Cardinality(Holders(w)') = Cardinality(Holders(w)) + One(values'[s[1]][s[2]] = w)
<1> DEFINE S == Holders(w)
           T == Holders(w)'
<1>1. S = {t \in Slot : InUse(t) /\ values[t[1]][t[2]] = w} /\ IsFiniteSet(S) /\ Cardinality(S) \in Nat
  BY HoldersAreSlots
<1>2. T = {t \in Slot : InUse(t)' /\ values'[t[1]][t[2]] = w}
  BY HoldersAreSlotsPrimed
<1> HIDE DEF S, T
<1>3. CASE values'[s[1]][s[2]] = w
  <2>1. s \notin S /\ T = S \cup {s}
    BY <1>1, <1>2, <1>3
  <2>2. Cardinality(T) = Cardinality(S) + 1
    BY <1>1, <2>1, FS_AddElement
  <2> QED
    BY <1>3, <2>2 DEF One, S, T
<1>4. CASE values'[s[1]][s[2]] # w
  <2>1. T = S
    BY <1>1, <1>2, <1>4
  <2> QED
    BY <1>1, <1>4, <2>1 DEF One, S, T
<1> QED
  BY <1>3, <1>4

\* Local x, which named e, names f.
LEMMA NamesMoved ==
  ASSUME NEW d, NEW x \in Var, NEW f, var \in [Var -> Dict \cup {NULL}],
         var' = [var EXCEPT ![x] = f]
  PROVE  Cardinality(Names(d)') = Cardinality(Names(d)) - One(var[x] = d) + One(f = d)
<1>1. Names(d) \ {x} = Names(d)' \ {x}
  BY DEF Names
<1>2. /\ x \in Names(d) <=> var[x] = d
      /\ x \in Names(d)' <=> f = d
  BY DEF Names
<1>3. Cardinality(Names(d) \ {x}) = Cardinality(Names(d)) - One(var[x] = d)
  <2>1. IsFiniteSet(Names(d)) /\ Cardinality(Names(d)) \in Nat
    BY NamesFinite
  <2>2. Cardinality(Names(d) \ {x}) = IF x \in Names(d) THEN Cardinality(Names(d)) - 1 ELSE Cardinality(Names(d))
    BY <2>1, FS_RemoveElement
  <2> QED
    BY <1>2, <2>1, <2>2 DEF One
<1>4. Cardinality(Names(d)' \ {x}) = Cardinality(Names(d)') - One(f = d)
  <2>1. IsFiniteSet(Names(d)') /\ Cardinality(Names(d)') \in Nat
    BY NamesFinite
  <2>2. Cardinality(Names(d)' \ {x}) = IF x \in Names(d)' THEN Cardinality(Names(d)') - 1 ELSE Cardinality(Names(d)')
    BY <2>1, FS_RemoveElement
  <2> QED
    BY <1>2, <2>1, <2>2 DEF One
<1>5. Cardinality(Names(d)) \in Nat /\ Cardinality(Names(d)') \in Nat
  BY NamesFinite
<1>6. Cardinality(Names(d)) - One(var[x] = d) = Cardinality(Names(d)') - One(f = d)
  BY <1>1, <1>3, <1>4
<1>7. One(var[x] = d) \in Nat /\ One(f = d) \in Nat
  BY DEF One
<1> QED
  BY <1>5, <1>6, <1>7

-----------------------------------------------------------------------------
(***************************************************************************)
(* Sequences and entries.                                                  *)
(***************************************************************************)

\* A sequence with one more element.
LEMMA AppendOne ==
  ASSUME NEW S, NEW s \in Seq(S), NEW e \in S
  PROVE  /\ Append(s, e) \in Seq(S) /\ Len(s) \in Nat /\ Len(Append(s, e)) = Len(s) + 1
         /\ \A j \in 1 .. Len(s) : Append(s, e)[j] = s[j]
         /\ Append(s, e)[Len(s) + 1] = e
OBVIOUS

\* A sequence with one element taken out.
LEMMA WithoutOne ==
  ASSUME NEW S, NEW s \in Seq(S), NEW i \in 1 .. Len(s)
  PROVE  /\ Without(s, i) \in Seq(S) /\ Len(s) \in Nat /\ Len(Without(s, i)) = Len(s) - 1
         /\ \A j \in 1 .. Len(s) - 1 : Without(s, i)[j] = IF j < i THEN s[j] ELSE s[j + 1]
<1> DEFINE n == Len(s)
           a == SubSeq(s, 1, i - 1)
           b == SubSeq(s, i + 1, n)
<1>1. n \in Nat /\ i \in 1 .. n
  OBVIOUS
<1>2. a \in Seq(S) /\ Len(a) = i - 1 /\ \A j \in 1 .. i - 1 : a[j] = s[j]
  BY <1>1
<1>3. b \in Seq(S) /\ Len(b) = n - i /\ \A j \in 1 .. n - i : b[j] = s[j + i]
  BY <1>1
<1>4. Without(s, i) = a \o b
  BY DEF Without
<1> HIDE DEF n, a, b
<1>5. /\ a \o b \in Seq(S) /\ Len(a \o b) = n - 1
      /\ \A j \in 1 .. n - 1 : (a \o b)[j] = IF j <= i - 1 THEN a[j] ELSE b[j - (i - 1)]
  <2>1. a \in Seq(S) /\ b \in Seq(S) /\ Len(a) = i - 1 /\ Len(b) = n - i
    BY <1>2, <1>3
  <2>2. (i - 1) + (n - i) = n - 1 /\ i - 1 \in Nat /\ n - i \in Nat
    BY <1>1
  <2>3. a \o b \in Seq(S) /\ Len(a \o b) = Len(a) + Len(b)
    BY <2>1
  <2>4. \A j \in 1 .. Len(a) + Len(b) :
          (a \o b)[j] = IF j <= Len(a) THEN a[j] ELSE b[j - Len(a)]
    BY <2>1
  <2> QED
    BY <2>1, <2>2, <2>3, <2>4
<1>6. ASSUME NEW j \in 1 .. n - 1
      PROVE  (a \o b)[j] = IF j < i THEN s[j] ELSE s[j + 1]
  <2>1. CASE j < i
    BY <1>1, <1>2, <1>5, <2>1
  <2>2. CASE ~(j < i)
    <3>1. j - (i - 1) \in 1 .. n - i /\ ~(j <= i - 1)
      BY <1>1, <2>2
    <3>2. b[j - (i - 1)] = s[j - (i - 1) + i]
      BY <1>3, <3>1
    <3>3. j - (i - 1) + i = j + 1
      BY <1>1
    <3> QED
      BY <1>5, <2>2, <3>1, <3>2, <3>3
  <2> QED
    BY <2>1, <2>2
<1> QED
  BY <1>1, <1>4, <1>5, <1>6 DEF n

\* The entries of a dict.
LEMMA EntryFacts ==
  ASSUME Shape, NEW d \in Dict
  PROVE  /\ keys[d] \in Seq(KeyAddr) /\ values[d] \in Seq(Val) /\ Len(keys[d]) \in Nat
         /\ Len(values[d]) = Len(keys[d]) /\ Len(keys[d]) <= MaxLen
         /\ Entries(d) = 1 .. Len(keys[d])
         /\ \A i \in Entries(d) :
              keys[d][i] \in KeyAddr /\ values[d][i] \in Val /\ <<d, i>> \in Slot
<1>1. /\ keys[d] \in Seq(KeyAddr) /\ values[d] \in Seq(Val) /\ Len(keys[d]) \in Nat
      /\ Len(values[d]) = Len(keys[d]) /\ Len(keys[d]) <= MaxLen
      /\ Entries(d) = 1 .. Len(keys[d])
  BY DEF Shape, Entries
<1>2. ASSUME NEW i \in Entries(d)
      PROVE  keys[d][i] \in KeyAddr /\ values[d][i] \in Val /\ <<d, i>> \in Slot
  BY <1>1, Sizes DEF Slot
<1> QED
  BY <1>1, <1>2

\* ... and after a step.
LEMMA EntryFactsPrimed ==
  ASSUME Shape', NEW d \in Dict
  PROVE  /\ keys'[d] \in Seq(KeyAddr) /\ values'[d] \in Seq(Val) /\ Len(keys'[d]) \in Nat
         /\ Entries(d)' = 1 .. Len(keys'[d])
         /\ \A i \in Entries(d)' : keys'[d][i] \in KeyAddr /\ values'[d][i] \in Val
<1>1. /\ keys'[d] \in Seq(KeyAddr) /\ values'[d] \in Seq(Val) /\ Len(keys'[d]) \in Nat
      /\ Len(values'[d]) = Len(keys'[d])
      /\ Entries(d)' = 1 .. Len(keys'[d])
  BY DEF Shape, Entries
<1> QED
  BY <1>1

\* Keys of a dict are unique, so the first entry with a key is the entry.
LEMMA FindFacts ==
  ASSUME IInv, NEW d \in Dict, NEW k
  PROVE  /\ Has(d, k) => Find(d, k) \in Entries(d) /\ text[keys[d][Find(d, k)]] = k
         /\ ~Has(d, k) => \A i \in Entries(d) : text[keys[d][i]] # k
<1>1. Entries(d) = 1 .. Len(keys[d]) /\ Len(keys[d]) \in Nat
  BY IInvShape, EntryFacts
<1>2. \A i, j \in Entries(d) : text[keys[d][i]] = text[keys[d][j]] => i = j
  BY DEF IInv, Owned
<1>3. CASE \E i \in Entries(d) : text[keys[d][i]] = k
  <2> DEFINE Hit(i) == text[keys[d][i]] = k /\ \A j \in 1 .. i - 1 : text[keys[d][j]] # k
  <2>1. PICK i \in Entries(d) : text[keys[d][i]] = k
    BY <1>3
  <2>2. Hit(i)
    BY <1>1, <1>2, <2>1
  <2>3. Find(d, k) = CHOOSE j \in Entries(d) : Hit(j)
    BY <1>3 DEF Find, Entries
  <2>4. Find(d, k) \in Entries(d) /\ Hit(Find(d, k))
    BY <2>1, <2>2, <2>3
  <2> QED
    BY <1>1, <2>4 DEF Has
<1>4. CASE ~\E i \in Entries(d) : text[keys[d][i]] = k
  BY <1>4 DEF Has, Find, Entries
<1> QED
  BY <1>3, <1>4

-----------------------------------------------------------------------------
(***************************************************************************)
(* What the operations on the arrays do to entries, keys and counts.       *)
(***************************************************************************)
Quiet == pending.op # "slot" /\ pending'.op # "slot"

\* Dict e keeps the entries it has, in their places and with their keys.
Keeps(e) ==
  /\ Len(keys[e]) <= Len(keys'[e])
  /\ \A i \in Entries(e) : keys'[e][i] = keys[e][i] /\ text'[keys[e][i]] = text[keys[e][i]]

StoreOK == Shape /\ text \in [KeyAddr -> Text \cup {NULL}] /\ Owned

LEMMA IInvStore ==
  ASSUME IInv
  PROVE  StoreOK
BY IInvShape DEF IInv, TypeOK, StoreOK

\* A key in use belongs to an entry.
LEMMA KeyHome ==
  Owned => \A a \in KeyAddr : text[a] # NULL => \E d \in Dict : \E i \in Entries(d) : keys[d][i] = a
BY DEF Owned, KeysOf

\* A new entry at the end.
LEMMA InsertEffect ==
  ASSUME IInv, Quiet, NEW d \in Dict, NEW k \in Text, NEW v \in Val,
         ~Has(d, k), Insert(d, k, v)
  PROVE  /\ StoreOK' /\ \A e \in Dict : Keeps(e)
         /\ \A e \in Dict : e # d => keys'[e] = keys[e]
         /\ \A w : Cardinality(Holders(w)') = Cardinality(Holders(w)) + One(v = w)
<1> DEFINE n == Len(keys[d])
<1>1. /\ keys \in [Dict -> Seq(KeyAddr)] /\ values \in [Dict -> Seq(Val)]
      /\ text \in [KeyAddr -> Text \cup {NULL}] /\ Shape
  BY IInvStore DEF StoreOK, Shape
<1>2. PICK a \in KeyAddr : text[a] = NULL /\ text' = [text EXCEPT ![a] = k]
                           /\ keys' = [keys EXCEPT ![d] = Append(@, a)]
  BY DEF Insert, NewKey
<1>3. values' = [values EXCEPT ![d] = Append(@, v)] /\ Len(keys[d]) < MaxLen
  BY DEF Insert
<1>4. n \in Nat /\ Len(values[d]) = n /\ n + 1 \in 1 .. MaxLen
  BY <1>1, <1>3, EntryFacts, Sizes
<1>5. /\ keys'[d] \in Seq(KeyAddr) /\ Len(keys'[d]) = n + 1
      /\ \A j \in 1 .. n : keys'[d][j] = keys[d][j]
      /\ keys'[d][n + 1] = a
  <2>1. keys'[d] = Append(keys[d], a) /\ keys[d] \in Seq(KeyAddr)
    BY <1>1, <1>2
  <2> QED
    BY <2>1, AppendOne
<1>6. /\ values'[d] \in Seq(Val) /\ Len(values'[d]) = n + 1
      /\ \A j \in 1 .. n : values'[d][j] = values[d][j]
      /\ values'[d][n + 1] = v
  <2>1. values'[d] = Append(values[d], v) /\ values[d] \in Seq(Val)
    BY <1>1, <1>3
  <2> QED
    BY <1>4, <2>1, AppendOne
<1>7. \A e \in Dict : e # d => keys'[e] = keys[e] /\ values'[e] = values[e]
  BY <1>1, <1>2, <1>3
<1>8. Shape'
  BY <1>1, <1>2, <1>3, <1>4, <1>5, <1>6, <1>7 DEF Shape
<1>9. text' \in [KeyAddr -> Text \cup {NULL}]
  BY <1>1, <1>2
<1>10. Owned
  BY DEF IInv
<1>11. \A e \in Dict : \A i \in Entries(e) : keys[e][i] \in KeyAddr /\ keys[e][i] # a
  BY <1>1, <1>2, <1>10, EntryFacts DEF Owned
<1>12. \A e \in Dict : Entries(e)' = IF e = d THEN Entries(d) \cup {n + 1} ELSE Entries(e)
  <2>1. ASSUME NEW e \in Dict, e # d
        PROVE  Entries(e)' = Entries(e)
    BY <1>7, <2>1 DEF Entries
  <2>2. Entries(d) = 1 .. n /\ Entries(d)' = 1 .. n + 1
    BY <1>1, <1>5, <1>8, EntryFacts, EntryFactsPrimed
  <2>3. 1 .. n + 1 = (1 .. n) \cup {n + 1}
    BY <1>4
  <2> QED
    BY <2>1, <2>2, <2>3
<1>13. \A e \in Dict : \A i \in Entries(e) : keys'[e][i] = keys[e][i] /\ text'[keys[e][i]] = text[keys[e][i]]
  BY <1>1, <1>2, <1>5, <1>7, <1>11, EntryFacts
<1>14. \A e \in Dict : Keeps(e)
  <2>1. \A e \in Dict : Len(keys[e]) \in Nat
    BY <1>1, EntryFacts
  <2>2. \A e \in Dict : Len(keys[e]) <= Len(keys'[e])
    BY <1>5, <1>7, <2>1
  <2> QED
    BY <1>13, <2>2 DEF Keeps
<1>15. text'[a] = k /\ \A b \in KeyAddr : b # a => text'[b] = text[b]
  BY <1>1, <1>2
<1>16. n + 1 \notin Entries(d)
  BY <1>1, <1>4, EntryFacts
<1>17. Owned'
  <2>1. \A e \in Dict : \A i \in Entries(e)' : text'[keys'[e][i]] # NULL
    BY <1>5, <1>10, <1>12, <1>13, <1>15 DEF Owned
  <2>2. ASSUME NEW b \in KeyAddr, text'[b] # NULL
        PROVE  \E e \in Dict : b \in KeysOf(e)'
    <3>1. CASE b = a
      <4>1. n + 1 \in Entries(d)'
        BY <1>12
      <4> QED
        BY <1>5, <3>1, <4>1 DEF KeysOf
    <3>2. CASE b # a
      <4>1. PICK e \in Dict : \E i \in Entries(e) : keys[e][i] = b
        BY <1>10, <1>15, <2>2, <3>2, KeyHome
      <4>2. PICK i \in Entries(e) : keys[e][i] = b
        BY <4>1
      <4>3. i \in Entries(e)' /\ keys'[e][i] = b
        BY <1>12, <1>13, <4>2
      <4> QED
        BY <4>3 DEF KeysOf
    <3> QED
      BY <3>1, <3>2
  <2>3. ASSUME NEW e \in Dict, NEW f \in Dict, NEW i \in Entries(e)', NEW j \in Entries(f)',
               keys'[e][i] = keys'[f][j]
        PROVE  e = f /\ i = j
    <3>1. i \notin Entries(e) => e = d /\ i = n + 1
      BY <1>12
    <3>2. j \notin Entries(f) => f = d /\ j = n + 1
      BY <1>12
    <3>3. i \in Entries(e) /\ j \in Entries(f) => e = f /\ i = j
      BY <1>10, <1>13, <2>3 DEF Owned
    <3> QED
      BY <1>5, <1>11, <1>13, <2>3, <3>1, <3>2, <3>3
  <2>4. ASSUME NEW e \in Dict, NEW i \in Entries(e)', NEW j \in Entries(e)',
               text'[keys'[e][i]] = text'[keys'[e][j]]
        PROVE  i = j
    <3>1. i \notin Entries(e) => e = d /\ i = n + 1
      BY <1>12
    <3>2. j \notin Entries(e) => e = d /\ j = n + 1
      BY <1>12
    <3>3. i \in Entries(e) /\ j \in Entries(e) => i = j
      BY <1>10, <1>13, <2>4 DEF Owned
    <3>4. \A m \in Entries(d) : text[keys[d][m]] # k
      BY FindFacts
    <3> QED
      BY <1>5, <1>13, <1>15, <2>4, <3>1, <3>2, <3>3, <3>4
  <2> QED
    BY <2>1, <2>2, <2>3, <2>4 DEF Owned
<1>18. ASSUME NEW w
       PROVE  Cardinality(Holders(w)') = Cardinality(Holders(w)) + One(v = w)
  <2> DEFINE s == <<d, n + 1>>
  <2>1. s \in Slot /\ s[1] = d /\ s[2] = n + 1
    BY <1>4 DEF Slot
  <2>2. \A t \in Slot : t[1] \in Dict /\ t[2] \in 1 .. MaxLen /\ t = <<t[1], t[2]>>
    BY DEF Slot
  <2>3. ~InUse(s)
    BY <1>4, <2>1 DEF InUse
  <2>4. \A t \in Slot : InUse(t) <=> t[2] <= Len(keys[t[1]])
    BY DEF InUse, Open, Quiet
  <2>5. \A t \in Slot : InUse(t)' <=> t[2] <= Len(keys'[t[1]])
    BY DEF InUse, Open, Quiet
  <2> HIDE DEF s, n
  <2>6. ASSUME NEW t \in Slot
        PROVE  InUse(t)' <=> InUse(t) \/ t = s
    <3>1. CASE t[1] = d
      <4>1. InUse(t)' <=> t[2] <= n + 1
        BY <1>5, <2>5, <3>1
      <4>2. InUse(t) <=> t[2] <= n
        BY <2>4, <3>1 DEF n
      <4>3. t = s <=> t[2] = n + 1
        BY <2>2, <3>1 DEF s
      <4>4. t[2] <= n + 1 <=> t[2] <= n \/ t[2] = n + 1
        BY <1>4, <2>2, Sizes
      <4> QED
        BY <4>1, <4>2, <4>3, <4>4
    <3>2. CASE t[1] # d
      BY <1>7, <2>1, <2>2, <2>4, <2>5, <3>2
    <3> QED
      BY <3>1, <3>2
  <2>7. ASSUME NEW t \in Slot, InUse(t)
        PROVE  values'[t[1]][t[2]] = values[t[1]][t[2]]
    <3>1. CASE t[1] = d
      <4>1. t[2] \in 1 .. n
        BY <1>4, <2>2, <2>4, <2>7, <3>1 DEF n
      <4> QED
        BY <1>6, <3>1, <4>1
    <3>2. CASE t[1] # d
      BY <1>7, <2>2, <3>2
    <3> QED
      BY <3>1, <3>2
  <2>8. values'[s[1]][s[2]] = v
    BY <1>6, <2>1
  <2> QED
    BY <1>1, <1>8, <2>1, <2>3, <2>6, <2>7, <2>8, HoldersGained
<1> QED
  BY <1>7, <1>8, <1>9, <1>14, <1>17, <1>18 DEF StoreOK

\* An entry is taken out and the ones behind it move up.
LEMMA PopEffect ==
  ASSUME IInv, Quiet, NEW d \in Dict, NEW i \in Entries(d),
         text' = [text EXCEPT ![keys[d][i]] = NULL],
         keys' = [keys EXCEPT ![d] = Without(@, i)],
         values' = [values EXCEPT ![d] = Without(@, i)]
  PROVE  /\ StoreOK' /\ \A e \in Dict : e # d => Keeps(e) /\ keys'[e] = keys[e]
         /\ \A w : Cardinality(Holders(w)') = Cardinality(Holders(w)) - One(values[d][i] = w)
<1> DEFINE n == Len(keys[d])
           a == keys[d][i]
           old(j) == IF j < i THEN j ELSE j + 1
<1>1. /\ keys \in [Dict -> Seq(KeyAddr)] /\ values \in [Dict -> Seq(Val)]
      /\ text \in [KeyAddr -> Text \cup {NULL}] /\ Shape /\ Owned
  BY IInvStore DEF StoreOK, Shape
<1>2. /\ n \in Nat /\ Len(values[d]) = n /\ n <= MaxLen /\ i \in 1 .. n
      /\ a \in KeyAddr /\ Entries(d) = 1 .. n
  BY <1>1, EntryFacts
<1>3. /\ keys'[d] \in Seq(KeyAddr) /\ Len(keys'[d]) = n - 1
      /\ \A j \in 1 .. n - 1 : keys'[d][j] = keys[d][old(j)]
  <2>1. keys'[d] = Without(keys[d], i) /\ keys[d] \in Seq(KeyAddr)
    BY <1>1
  <2>2. /\ Without(keys[d], i) \in Seq(KeyAddr) /\ Len(Without(keys[d], i)) = n - 1
        /\ \A j \in 1 .. n - 1 : Without(keys[d], i)[j] = IF j < i THEN keys[d][j] ELSE keys[d][j + 1]
    BY <1>2, <2>1, WithoutOne
  <2> QED
    BY <2>1, <2>2
<1>4. /\ values'[d] \in Seq(Val) /\ Len(values'[d]) = n - 1
      /\ \A j \in 1 .. n - 1 : values'[d][j] = values[d][old(j)]
  <2>1. values'[d] = Without(values[d], i) /\ values[d] \in Seq(Val)
        /\ Len(values[d]) = n /\ i \in 1 .. Len(values[d])
    BY <1>1, <1>2
  <2>2. /\ Without(values[d], i) \in Seq(Val) /\ Len(Without(values[d], i)) = n - 1
        /\ \A j \in 1 .. n - 1 : Without(values[d], i)[j] = IF j < i THEN values[d][j] ELSE values[d][j + 1]
    BY <1>2, <2>1, WithoutOne
  <2> QED
    BY <2>1, <2>2
<1>5. \A e \in Dict : e # d => keys'[e] = keys[e] /\ values'[e] = values[e]
  BY <1>1
<1>6. text' \in [KeyAddr -> Text \cup {NULL}] /\ text'[a] = NULL
      /\ \A b \in KeyAddr : b # a => text'[b] = text[b]
  BY <1>1, <1>2
<1>7. /\ \A j \in 1 .. n - 1 : old(j) \in 1 .. n /\ old(j) # i
      /\ \A j, m \in 1 .. n - 1 : old(j) = old(m) => j = m
      /\ \A m \in 1 .. n : m # i => \E j \in 1 .. n - 1 : old(j) = m
  <2>1. \A j \in 1 .. n - 1 : old(j) \in 1 .. n /\ old(j) # i
    BY <1>2
  <2>2. \A j, m \in 1 .. n - 1 : old(j) = old(m) => j = m
    BY <1>2
  <2>3. ASSUME NEW m \in 1 .. n, m # i
        PROVE  \E j \in 1 .. n - 1 : old(j) = m
    <3>1. CASE m < i
      <4>1. m \in 1 .. n - 1 /\ old(m) = m
        BY <1>2, <3>1
      <4> QED
        BY <4>1
    <3>2. CASE ~(m < i)
      <4>1. m - 1 \in 1 .. n - 1 /\ old(m - 1) = m
        BY <1>2, <2>3, <3>2
      <4> QED
        BY <4>1
    <3> QED
      BY <3>1, <3>2
  <2> QED
    BY <2>1, <2>2, <2>3
<1> HIDE DEF n, a, old
<1>8. Shape'
  <2>1. n - 1 <= MaxLen
    BY <1>2, Sizes
  <2> QED
    BY <1>1, <1>3, <1>4, <1>5, <2>1 DEF Shape
<1>9. \A e \in Dict : Entries(e)' = IF e = d THEN 1 .. n - 1 ELSE Entries(e)
  <2>1. Entries(d)' = 1 .. n - 1
    BY <1>3, <1>8, EntryFactsPrimed
  <2>2. \A e \in Dict : e # d => Entries(e)' = Entries(e)
    BY <1>5 DEF Entries
  <2> QED
    BY <2>1, <2>2
\* What each entry that is left was before.
<1> DEFINE was(e, j) == IF e = d THEN old(j) ELSE j
<1>10. ASSUME NEW e \in Dict, NEW j \in Entries(e)'
       PROVE  /\ was(e, j) \in Entries(e) /\ keys'[e][j] = keys[e][was(e, j)]
              /\ e = d => was(e, j) # i
  BY <1>2, <1>3, <1>5, <1>7, <1>9
<1>11. \A e \in Dict : \A j, m \in Entries(e)' : was(e, j) = was(e, m) => j = m
  BY <1>7, <1>9
<1>12. \A e \in Dict : \A j \in Entries(e) : (e # d \/ j # i) => \E m \in Entries(e)' : was(e, m) = j
  BY <1>2, <1>7, <1>9
<1> HIDE DEF was
<1>13. \A e \in Dict : \A j \in Entries(e) : (e # d \/ j # i) => keys[e][j] \in KeyAddr /\ keys[e][j] # a
  BY <1>1, EntryFacts DEF Owned, a
<1>14. \A e \in Dict : \A j \in Entries(e)' : text'[keys'[e][j]] = text[keys[e][was(e, j)]]
  BY <1>6, <1>10, <1>13
<1>15. Owned'
  <2>1. \A e \in Dict : \A j \in Entries(e)' : text'[keys'[e][j]] # NULL
    BY <1>1, <1>10, <1>14 DEF Owned
  <2>2. ASSUME NEW b \in KeyAddr, text'[b] # NULL
        PROVE  \E e \in Dict : b \in KeysOf(e)'
    <3>1. b # a /\ text[b] # NULL
      BY <1>6, <2>2
    <3>2. PICK e \in Dict : \E j \in Entries(e) : keys[e][j] = b
      BY <1>1, <3>1, KeyHome
    <3>3. PICK j \in Entries(e) : keys[e][j] = b
      BY <3>2
    <3>4. PICK m \in Entries(e)' : was(e, m) = j
      BY <1>12, <3>1, <3>3 DEF a
    <3>5. keys'[e][m] = b
      BY <1>10, <3>3, <3>4
    <3> QED
      BY <3>5 DEF KeysOf
  <2>3. ASSUME NEW e \in Dict, NEW f \in Dict, NEW j \in Entries(e)', NEW m \in Entries(f)',
               keys'[e][j] = keys'[f][m]
        PROVE  e = f /\ j = m
    <3>1. e = f /\ was(e, j) = was(f, m)
      BY <1>1, <1>10, <2>3 DEF Owned
    <3> QED
      BY <1>11, <3>1
  <2>4. ASSUME NEW e \in Dict, NEW j \in Entries(e)', NEW m \in Entries(e)',
               text'[keys'[e][j]] = text'[keys'[e][m]]
        PROVE  j = m
    <3>1. was(e, j) = was(e, m)
      BY <1>1, <1>10, <1>14, <2>4 DEF Owned
    <3> QED
      BY <1>11, <3>1
  <2> QED
    BY <2>1, <2>2, <2>3, <2>4 DEF Owned
<1>16. ASSUME NEW e \in Dict, e # d
       PROVE  Keeps(e)
  <2>1. Len(keys[e]) \in Nat
    BY <1>1, EntryFacts
  <2>2. \A j \in Entries(e) : text'[keys[e][j]] = text[keys[e][j]]
    BY <1>6, <1>13, <1>16
  <2> QED
    BY <1>5, <1>16, <2>1, <2>2 DEF Keeps
<1>17. ASSUME NEW w
       PROVE  Cardinality(Holders(w)') = Cardinality(Holders(w)) - One(values[d][i] = w)
  <2> DEFINE s == <<d, i>>
             S == Holders(w) \ {s}
             T == Holders(w)'
             f == [t \in T |-> <<t[1], was(t[1], t[2])>>]
  <2>1. \A t \in Slot : t[1] \in Dict /\ t[2] \in 1 .. MaxLen /\ t = <<t[1], t[2]>>
    BY DEF Slot
  <2>2. \A t \in Slot : t \in Holders(w) <=> t[2] \in Entries(t[1]) /\ values[t[1]][t[2]] = w
    <3>1. \A t \in Slot : t \in Holders(w) <=> InUse(t) /\ values[t[1]][t[2]] = w
      BY <1>1, HoldersAreSlots
    <3>2. \A t \in Slot : InUse(t) <=> t[2] \in Entries(t[1])
      BY <1>1, <2>1, EntryFacts, Sizes DEF InUse, Open, Quiet
    <3> QED
      BY <3>1, <3>2
  <2>3. \A t \in Slot : t \in Holders(w)' <=> t[2] \in Entries(t[1])' /\ values'[t[1]][t[2]] = w
    <3>1. \A t \in Slot : t \in Holders(w)' <=> InUse(t)' /\ values'[t[1]][t[2]] = w
      BY <1>8, HoldersAreSlotsPrimed
    <3>2. \A t \in Slot : InUse(t)' <=> t[2] \in Entries(t[1])'
      BY <1>8, <2>1, EntryFactsPrimed, Sizes DEF InUse, Open, Quiet
    <3> QED
      BY <3>1, <3>2
  <2>4. Holders(w) \subseteq Slot /\ Holders(w)' \subseteq Slot
        /\ IsFiniteSet(Holders(w)) /\ IsFiniteSet(Holders(w)')
        /\ Cardinality(Holders(w)) \in Nat /\ Cardinality(Holders(w)') \in Nat
    BY <1>1, <1>8, HoldersAreSlots, HoldersAreSlotsPrimed
  <2>5. \A e \in Dict : \A j \in Entries(e)' : values'[e][j] = values[e][was(e, j)]
    BY <1>4, <1>5, <1>9 DEF was
  <2>6. \A e \in Dict : \A j \in Entries(e) : <<e, j>> \in Slot
    BY <1>1, EntryFacts
  <2> HIDE DEF T, S
  <2>7. f \in [T -> S]
    <3> SUFFICES ASSUME NEW t \in T
                 PROVE  <<t[1], was(t[1], t[2])>> \in S
      OBVIOUS
    <3>1. t \in Slot /\ t[1] \in Dict /\ t[2] \in Entries(t[1])' /\ values'[t[1]][t[2]] = w
      BY <2>1, <2>3, <2>4 DEF T
    <3>2. was(t[1], t[2]) \in Entries(t[1]) /\ (t[1] = d => was(t[1], t[2]) # i)
      BY <1>10, <3>1
    <3>3. values[t[1]][was(t[1], t[2])] = w
      BY <2>5, <3>1
    <3>4. <<t[1], was(t[1], t[2])>> \in Slot
      BY <2>6, <3>1, <3>2
    <3>5. <<t[1], was(t[1], t[2])>> # s
      BY <3>2
    <3> HIDE DEF s
    <3>6. <<t[1], was(t[1], t[2])>> \in Holders(w)
      BY <2>2, <3>2, <3>3, <3>4
    <3> QED
      BY <3>5, <3>6 DEF S
  <2>8. \A t, u \in T : f[t] = f[u] => t = u
    <3> SUFFICES ASSUME NEW t \in T, NEW u \in T,
                        <<t[1], was(t[1], t[2])>> = <<u[1], was(u[1], u[2])>>
                 PROVE  t = u
      OBVIOUS
    <3>1. /\ t[1] \in Dict /\ t[2] \in Entries(t[1])' /\ t = <<t[1], t[2]>>
          /\ u[1] \in Dict /\ u[2] \in Entries(u[1])' /\ u = <<u[1], u[2]>>
      BY <2>1, <2>3, <2>4 DEF T
    <3>2. t[1] = u[1] /\ was(t[1], t[2]) = was(u[1], u[2])
      OBVIOUS
    <3>3. t[2] = u[2]
      BY <1>11, <3>1, <3>2
    <3> QED
      BY <3>1, <3>2, <3>3
  <2>9. \A r \in S : \E t \in T : f[t] = r
    <3> SUFFICES ASSUME NEW r \in S
                 PROVE  \E t \in T : <<t[1], was(t[1], t[2])>> = r
      OBVIOUS
    <3>1. r \in Slot /\ r[1] \in Dict /\ r[2] \in Entries(r[1]) /\ r = <<r[1], r[2]>>
          /\ values[r[1]][r[2]] = w /\ (r[1] # d \/ r[2] # i)
      BY <2>1, <2>2, <2>4 DEF S
    <3>2. PICK m \in Entries(r[1])' : was(r[1], m) = r[2]
      BY <1>12, <3>1
    <3>3. <<r[1], m>> \in Slot
      <4>1. m \in 1 .. MaxLen
        BY <1>8, <3>1, EntryFactsPrimed, Sizes DEF Shape
      <4> QED
        BY <3>1, <4>1 DEF Slot
    <3>4. values'[r[1]][m] = w
      BY <2>5, <3>1, <3>2
    <3>5. <<r[1], m>> \in T
      BY <2>3, <3>3, <3>4 DEF T
    <3> QED
      BY <3>1, <3>2, <3>5
  <2> HIDE DEF f
  <2>10. Cardinality(S) = Cardinality(T)
    BY <2>4, <2>7, <2>8, <2>9, CardSame DEF T
  <2>11. s \in Holders(w) <=> values[d][i] = w
    BY <2>2, <2>6
  <2>12. Cardinality(S) = IF s \in Holders(w) THEN Cardinality(Holders(w)) - 1 ELSE Cardinality(Holders(w))
    BY <2>4, FS_RemoveElement DEF S
  <2> QED
    BY <2>4, <2>10, <2>11, <2>12 DEF One, T
<1> QED
  BY <1>5, <1>6, <1>8, <1>15, <1>16, <1>17 DEF StoreOK

\* The places of one dict among the holders of a value.
Column(d, w) == {d} \X {i \in Entries(d) : values[d][i] = w}

LEMMA ColumnFacts ==
  ASSUME Shape, NEW d \in Dict, NEW w
  PROVE  /\ IsFiniteSet(Column(d, w)) /\ Cardinality(Column(d, w)) = Slots(d, w)
         /\ Slots(d, w) \in Nat
         /\ Column(d, w) = {s \in Slot : s[1] = d /\ s[2] \in Entries(d) /\ values[d][s[2]] = w}
<1> DEFINE I == {i \in Entries(d) : values[d][i] = w}
<1>1. Entries(d) = 1 .. Len(keys[d]) /\ Len(keys[d]) \in Nat /\ Len(keys[d]) <= MaxLen
  BY EntryFacts
<1>2. IsFiniteSet(Entries(d))
  BY <1>1, FS_Interval
<1>3. IsFiniteSet(I)
  BY <1>2, FS_Subset
<1>4. IsFiniteSet({d} \X I) /\ Cardinality({d} \X I) = Cardinality(I) /\ Cardinality(I) \in Nat
  BY <1>3, CardColumn, FS_CardinalityType
<1>5. Slots(d, w) = Cardinality(I)
  BY DEF Slots
<1>6. {d} \X I = {s \in Slot : s[1] = d /\ s[2] \in Entries(d) /\ values[d][s[2]] = w}
  BY <1>1, Sizes DEF Slot
<1> QED
  BY <1>4, <1>5, <1>6 DEF Column

\* A dict is emptied: its key copies are freed, its values released.
LEMMA EmptiedEffect ==
  ASSUME IInv, Quiet, NEW d \in Dict, Emptied(d)
  PROVE  /\ StoreOK' /\ keys'[d] = << >>
         /\ \A e \in Dict : e # d => Keeps(e) /\ keys'[e] = keys[e]
         /\ vrc' \in [Val -> Int]
         /\ \A w \in Val : vrc'[w] - Cardinality(Holders(w)') = vrc[w] - Cardinality(Holders(w))
<1>1. /\ keys \in [Dict -> Seq(KeyAddr)] /\ values \in [Dict -> Seq(Val)]
      /\ text \in [KeyAddr -> Text \cup {NULL}] /\ Shape /\ Owned
  BY IInvStore DEF StoreOK, Shape
<1>2. /\ keys' = [keys EXCEPT ![d] = << >>] /\ values' = [values EXCEPT ![d] = << >>]
      /\ text' = [a \in KeyAddr |-> IF a \in KeysOf(d) THEN NULL ELSE text[a]]
      /\ vrc' = [v \in Val |-> vrc[v] - Slots(d, v)]
  BY DEF Emptied, FreeKeys, ReleaseValues
<1>3. /\ keys'[d] = << >> /\ values'[d] = << >>
      /\ \A e \in Dict : e # d => keys'[e] = keys[e] /\ values'[e] = values[e]
  BY <1>1, <1>2
<1>4. keys' \in [Dict -> Seq(KeyAddr)] /\ values' \in [Dict -> Seq(Val)]
  BY <1>1, <1>2
<1>5. Shape'
  BY <1>1, <1>3, <1>4, Sizes DEF Shape
<1>6. text' \in [KeyAddr -> Text \cup {NULL}]
  BY <1>1, <1>2
<1>7. \A a \in KeyAddr : text'[a] = IF a \in KeysOf(d) THEN NULL ELSE text[a]
  BY <1>2
<1>8. Entries(d)' = {} /\ \A e \in Dict : e # d => Entries(e)' = Entries(e)
  BY <1>3 DEF Entries
<1>9. \A e \in Dict : \A i \in Entries(e) : e # d => keys[e][i] \in KeyAddr /\ keys[e][i] \notin KeysOf(d)
  BY <1>1, EntryFacts DEF Owned, KeysOf
<1>10. \A e \in Dict : \A i \in Entries(e) : e # d => text'[keys[e][i]] = text[keys[e][i]]
  BY <1>7, <1>9
<1>11. Owned'
  <2> \A e \in Dict : \A i \in Entries(e)' :
        e # d /\ i \in Entries(e) /\ keys'[e][i] = keys[e][i] /\ text'[keys[e][i]] = text[keys[e][i]]
    BY <1>3, <1>8, <1>10
  <2>1. \A e \in Dict : \A i \in Entries(e)' : text'[keys'[e][i]] # NULL
    BY <1>1 DEF Owned
  <2>2. ASSUME NEW a \in KeyAddr, text'[a] # NULL
        PROVE  \E e \in Dict : a \in KeysOf(e)'
    <3>1. a \notin KeysOf(d) /\ text[a] # NULL
      BY <1>7, <2>2
    <3>2. PICK e \in Dict : a \in KeysOf(e)
      BY <1>1, <3>1 DEF Owned
    <3>3. e # d
      BY <3>1, <3>2
    <3>4. a \in KeysOf(e)'
      BY <1>3, <1>8, <3>2, <3>3 DEF KeysOf
    <3> QED
      BY <3>4
  <2>3. \A e, f \in Dict : \A i \in Entries(e)', j \in Entries(f)' :
          keys'[e][i] = keys'[f][j] => e = f /\ i = j
    BY <1>1 DEF Owned
  <2>4. \A e \in Dict : \A i, j \in Entries(e)' : text'[keys'[e][i]] = text'[keys'[e][j]] => i = j
    BY <1>1 DEF Owned
  <2> QED
    BY <2>1, <2>2, <2>3, <2>4 DEF Owned
<1>12. ASSUME NEW e \in Dict, e # d
       PROVE  Keeps(e)
  <2>1. Len(keys[e]) \in Nat
    BY <1>1, EntryFacts
  <2> QED
    BY <1>3, <1>10, <1>12, <2>1 DEF Keeps
<1>13. \A w \in Val : Slots(d, w) \in Nat
  BY <1>1, ColumnFacts
<1>14. vrc \in [Val -> Nat]
  BY DEF IInv, TypeOK
<1>15. vrc' \in [Val -> Int] /\ \A w \in Val : vrc'[w] = vrc[w] - Slots(d, w)
  BY <1>2, <1>13, <1>14
<1>16. ASSUME NEW w \in Val
       PROVE  Cardinality(Holders(w)') = Cardinality(Holders(w)) - Slots(d, w)
  <2> DEFINE S == Holders(w)
             T == Holders(w)'
  <2> DEFINE C == Column(d, w)
  <2>1. /\ IsFiniteSet(C) /\ Cardinality(C) = Slots(d, w) /\ Slots(d, w) \in Nat
        /\ C = {s \in Slot : s[1] = d /\ s[2] \in Entries(d) /\ values[d][s[2]] = w}
    BY <1>1, ColumnFacts
  <2>2. \A t \in Slot : t[1] \in Dict /\ t[2] \in 1 .. MaxLen
    BY DEF Slot
  <2>3. S = {t \in Slot : t[2] \in Entries(t[1]) /\ values[t[1]][t[2]] = w}
    <3>1. \A t \in Slot : InUse(t) <=> t[2] \in Entries(t[1])
      BY <1>1, <2>2, EntryFacts, Sizes DEF InUse, Open, Quiet
    <3>2. S = {t \in Slot : InUse(t) /\ values[t[1]][t[2]] = w}
      BY <1>1, HoldersAreSlots
    <3> QED
      BY <3>1, <3>2
  <2>4. T = {t \in Slot : t[2] \in Entries(t[1])' /\ values'[t[1]][t[2]] = w}
    <3>1. \A t \in Slot : InUse(t)' <=> t[2] \in Entries(t[1])'
      BY <1>5, <2>2, EntryFactsPrimed, Sizes DEF InUse, Open, Quiet
    <3>2. T = {t \in Slot : InUse(t)' /\ values'[t[1]][t[2]] = w}
      BY <1>5, HoldersAreSlotsPrimed
    <3> QED
      BY <3>1, <3>2
  <2>5. IsFiniteSet(T) /\ Cardinality(T) \in Nat
    BY <1>5, HoldersAreSlotsPrimed
  <2> HIDE DEF C, S, T
  <2>6. S = T \cup C /\ T \cap C = {}
    BY <1>3, <1>8, <2>1, <2>2, <2>3, <2>4
  <2>7. Cardinality(S) = Cardinality(T) + Cardinality(C)
    BY <2>1, <2>5, <2>6, CardParts
  <2>8. Cardinality(T) = Cardinality(S) - Slots(d, w)
    BY <2>1, <2>5, <2>7
  <2> QED
    BY <2>8 DEF S, T
<1>17. \A w \in Val : Cardinality(Holders(w)) \in Nat /\ vrc[w] \in Nat
  BY <1>1, <1>14, HoldersAreSlots
<1>18. \A w \in Val : vrc'[w] - Cardinality(Holders(w)') = vrc[w] - Cardinality(Holders(w))
  BY <1>13, <1>15, <1>16, <1>17
<1> QED
  BY <1>3, <1>5, <1>6, <1>11, <1>12, <1>15, <1>18 DEF StoreOK

\* A copy: new key copies with the same texts, the same values.
LEMMA CopyEffect ==
  ASSUME IInv, Quiet, NEW d \in Dict, NEW e \in Dict, e # d, keys[d] = << >>,
         NEW to \in [Entries(e) -> {a \in KeyAddr : NewKey(a)}],
         \A i, j \in DOMAIN to : to[i] = to[j] => i = j,
         keys' = [keys EXCEPT ![d] = to],
         text' = [a \in KeyAddr |-> IF \E i \in DOMAIN to : to[i] = a
                                    THEN text[keys[e][CHOOSE i \in DOMAIN to : to[i] = a]]
                                    ELSE text[a]],
         values' = [values EXCEPT ![d] = values[e]]
  PROVE  /\ StoreOK' /\ \A f \in Dict : Keeps(f)
         /\ \A f \in Dict : f # d => keys'[f] = keys[f]
         /\ \A w : Cardinality(Holders(w)') = Cardinality(Holders(w)) + Slots(e, w)
<1> DEFINE n == Len(keys[e])
<1>1. /\ keys \in [Dict -> Seq(KeyAddr)] /\ values \in [Dict -> Seq(Val)]
      /\ text \in [KeyAddr -> Text \cup {NULL}] /\ Shape /\ Owned
  BY IInvStore DEF StoreOK, Shape
<1>2. n \in Nat /\ n <= MaxLen /\ Entries(e) = 1 .. n /\ values[e] \in Seq(Val) /\ Len(values[e]) = n
  BY <1>1, EntryFacts
<1>3. Entries(d) = {}
  BY DEF Entries
<1>4. to \in [1 .. n -> KeyAddr] /\ DOMAIN to = 1 .. n /\ \A i \in 1 .. n : text[to[i]] = NULL
  BY <1>2 DEF NewKey
<1>5. to \in Seq(KeyAddr) /\ Len(to) = n
  BY <1>2, <1>4
<1>6. /\ keys'[d] = to /\ values'[d] = values[e]
      /\ \A f \in Dict : f # d => keys'[f] = keys[f] /\ values'[f] = values[f]
  BY <1>1
<1>7. Shape'
  <2>1. keys' \in [Dict -> Seq(KeyAddr)] /\ values' \in [Dict -> Seq(Val)]
    BY <1>1, <1>2, <1>5
  <2> QED
    BY <1>1, <1>2, <1>5, <1>6, <2>1 DEF Shape
<1>8. Entries(d)' = 1 .. n /\ \A f \in Dict : f # d => Entries(f)' = Entries(f)
  BY <1>4, <1>6 DEF Entries
<1> HIDE DEF n
<1>9. /\ \A i \in 1 .. n : text'[to[i]] = text[keys[e][i]]
      /\ \A a \in KeyAddr : text[a] # NULL => text'[a] = text[a]
      /\ \A a \in KeyAddr : text'[a] # text[a] => \E i \in 1 .. n : to[i] = a
  <2>1. ASSUME NEW i \in 1 .. n
        PROVE  text'[to[i]] = text[keys[e][i]]
    <3> DEFINE c == CHOOSE j \in DOMAIN to : to[j] = to[i]
    <3>1. c \in DOMAIN to /\ to[c] = to[i]
      BY <1>4
    <3>2. c = i
      BY <1>4, <3>1
    <3>3. text'[to[i]] = text[keys[e][c]]
      BY <1>4
    <3> QED
      BY <3>2, <3>3
  <2>2. ASSUME NEW a \in KeyAddr, ~\E i \in 1 .. n : to[i] = a
        PROVE  text'[a] = text[a]
    BY <1>4, <2>2
  <2> QED
    BY <1>4, <2>1, <2>2
<1>10. \A i \in 1 .. n : keys[e][i] \in KeyAddr /\ text[keys[e][i]] # NULL
  BY <1>1, <1>2, EntryFacts DEF Owned
<1>11. text' \in [KeyAddr -> Text \cup {NULL}]
  <2>1. \A a \in KeyAddr : text'[a] \in Text \cup {NULL}
    BY <1>1, <1>4, <1>9, <1>10
  <2>2. text' = [a \in KeyAddr |-> text'[a]]
    OBVIOUS
  <2> QED
    BY <2>1, <2>2
<1>12. \A f \in Dict : \A i \in Entries(f) :
         /\ keys[f][i] \in KeyAddr /\ text[keys[f][i]] # NULL /\ f # d
         /\ text'[keys[f][i]] = text[keys[f][i]]
         /\ \A j \in 1 .. n : keys[f][i] # to[j]
  BY <1>1, <1>3, <1>4, <1>9, EntryFacts DEF Owned
<1>13. \A f \in Dict : Keeps(f)
  <2>1. \A f \in Dict : Len(keys[f]) <= Len(keys'[f])
    <3>1. \A f \in Dict : Len(keys[f]) \in Nat
      BY <1>1, EntryFacts
    <3>2. Len(keys[d]) = 0
      OBVIOUS
    <3> QED
      BY <1>2, <1>5, <1>6, <3>1, <3>2
  <2> QED
    BY <1>6, <1>12, <2>1 DEF Keeps
<1>14. Owned'
  <2> DEFINE src(f) == IF f = d THEN e ELSE f
  <2>0. \A f \in Dict : \A i \in Entries(f)' :
          /\ i \in Entries(src(f)) /\ text'[keys'[f][i]] = text[keys[src(f)][i]]
          /\ keys'[f][i] = IF f = d THEN to[i] ELSE keys[f][i]
    <3> TAKE f \in Dict
    <3> TAKE i \in Entries(f)'
    <3>1. CASE f = d
      BY <1>2, <1>6, <1>8, <1>9, <3>1
    <3>2. CASE f # d
      BY <1>6, <1>8, <1>12, <3>2
    <3> QED
      BY <3>1, <3>2
  <2> \A f \in Dict : src(f) \in Dict
    OBVIOUS
  <2> HIDE DEF src
  <2>1. \A f \in Dict : \A i \in Entries(f)' : text'[keys'[f][i]] # NULL
    <3> TAKE f \in Dict
    <3> TAKE i \in Entries(f)'
    <3>1. i \in Entries(src(f)) /\ text'[keys'[f][i]] = text[keys[src(f)][i]]
      BY <2>0
    <3>2. text[keys[src(f)][i]] # NULL
      BY <1>12, <3>1
    <3> QED
      BY <3>1, <3>2
  <2>2. ASSUME NEW a \in KeyAddr, text'[a] # NULL
        PROVE  \E f \in Dict : a \in KeysOf(f)'
    <3>1. CASE text[a] # NULL
      <4>1. PICK f \in Dict : \E i \in Entries(f) : keys[f][i] = a
        BY <1>1, <3>1, KeyHome
      <4>2. PICK i \in Entries(f) : keys[f][i] = a
        BY <4>1
      <4>3. i \in Entries(f)' /\ keys'[f][i] = a
        BY <1>6, <1>8, <1>12, <4>2
      <4> QED
        BY <4>3 DEF KeysOf
    <3>2. CASE text[a] = NULL
      <4>1. PICK i \in 1 .. n : to[i] = a
        BY <1>9, <2>2, <3>2
      <4> QED
        BY <1>6, <1>8, <4>1 DEF KeysOf
    <3> QED
      BY <3>1, <3>2
  <2>3. ASSUME NEW f \in Dict, NEW g \in Dict, NEW i \in Entries(f)', NEW j \in Entries(g)',
               keys'[f][i] = keys'[g][j]
        PROVE  f = g /\ i = j
    <3>1. CASE f = d /\ g = d
      <4>1. i \in 1 .. n /\ j \in 1 .. n /\ to[i] = to[j]
        BY <1>6, <1>8, <2>3, <3>1
      <4> QED
        BY <1>4, <3>1, <4>1
    <3>2. CASE f = d /\ g # d
      BY <1>6, <1>8, <1>12, <2>3, <3>2
    <3>3. CASE f # d /\ g = d
      BY <1>6, <1>8, <1>12, <2>3, <3>3
    <3>4. CASE f # d /\ g # d
      BY <1>1, <1>6, <1>8, <2>3, <3>4 DEF Owned
    <3> QED
      BY <3>1, <3>2, <3>3, <3>4
  <2>4. ASSUME NEW f \in Dict, NEW i \in Entries(f)', NEW j \in Entries(f)',
               text'[keys'[f][i]] = text'[keys'[f][j]]
        PROVE  i = j
    <3>1. /\ src(f) \in Dict /\ i \in Entries(src(f)) /\ j \in Entries(src(f))
          /\ text'[keys'[f][i]] = text[keys[src(f)][i]]
          /\ text'[keys'[f][j]] = text[keys[src(f)][j]]
      <4>1. src(f) \in Dict
        OBVIOUS
      <4>2. i \in Entries(src(f)) /\ text'[keys'[f][i]] = text[keys[src(f)][i]]
        BY <2>0
      <4>3. j \in Entries(src(f)) /\ text'[keys'[f][j]] = text[keys[src(f)][j]]
        BY <2>0
      <4> QED
        BY <4>1, <4>2, <4>3
    <3>2. text[keys[src(f)][i]] = text[keys[src(f)][j]]
      BY <2>4, <3>1
    <3> QED
      BY <1>1, <3>1, <3>2 DEF Owned
  <2> QED
    BY <2>1, <2>2, <2>3, <2>4 DEF Owned
<1>15. ASSUME NEW w
       PROVE  Cardinality(Holders(w)') = Cardinality(Holders(w)) + Slots(e, w)
  <2> DEFINE I == {i \in Entries(e) : values[e][i] = w}
             C == {d} \X I
             S == Holders(w)
             T == Holders(w)'
  <2>1. \A t \in Slot : t[1] \in Dict /\ t[2] \in 1 .. MaxLen /\ t = <<t[1], t[2]>>
    BY DEF Slot
  <2>2. IsFiniteSet(I)
    <3>1. IsFiniteSet(Entries(e))
      <4>1. n \in Int /\ Entries(e) = 1 .. n
        BY <1>2
      <4>2. IsFiniteSet(1 .. n)
        BY <4>1, FS_Interval
      <4> QED
        BY <4>1, <4>2
    <3> QED
      BY <3>1, FS_Subset
  <2>3. IsFiniteSet(C) /\ Cardinality(C) = Slots(e, w)
    BY <2>2, CardColumn DEF Slots
  <2>4. S = {t \in Slot : t[2] \in Entries(t[1]) /\ values[t[1]][t[2]] = w}
    <3>1. \A t \in Slot : InUse(t) <=> t[2] \in Entries(t[1])
      BY <1>1, <2>1, EntryFacts, Sizes DEF InUse, Open, Quiet
    <3>2. S = {t \in Slot : InUse(t) /\ values[t[1]][t[2]] = w}
      BY <1>1, HoldersAreSlots
    <3> QED
      BY <3>1, <3>2
  <2>5. T = {t \in Slot : t[2] \in Entries(t[1])' /\ values'[t[1]][t[2]] = w}
    <3>1. \A t \in Slot : InUse(t)' <=> t[2] \in Entries(t[1])'
      BY <1>7, <2>1, EntryFactsPrimed, Sizes DEF InUse, Open, Quiet
    <3>2. T = {t \in Slot : InUse(t)' /\ values'[t[1]][t[2]] = w}
      BY <1>7, HoldersAreSlotsPrimed
    <3> QED
      BY <3>1, <3>2
  <2>6. IsFiniteSet(S)
    BY <1>1, HoldersAreSlots
  <2>7. C = {t \in Slot : t[1] = d /\ t[2] \in Entries(e) /\ values[e][t[2]] = w}
    BY <1>2, Sizes DEF Slot
  <2> HIDE DEF C, S, T
  <2>8. T = S \cup C /\ S \cap C = {}
    BY <1>2, <1>3, <1>6, <1>8, <2>1, <2>4, <2>5, <2>7
  <2>9. Cardinality(T) = Cardinality(S) + Cardinality(C)
    BY <2>3, <2>6, <2>8, CardParts
  <2> QED
    BY <2>3, <2>9 DEF S, T
<1> QED
  BY <1>6, <1>7, <1>11, <1>13, <1>14, <1>15 DEF StoreOK

\* The arrays and the key copies stay as they are.
LEMMA StoreSame ==
  ASSUME IInv, UNCHANGED <<keys, values, text>>
  PROVE  /\ StoreOK' /\ \A e \in Dict : Keeps(e)
         /\ Quiet => \A w : Holders(w)' = Holders(w)
<1>1. StoreOK /\ Shape
  BY IInvStore, IInvShape
<1>2. Shape'
  BY <1>1 DEF Shape
<1>3. Owned'
  BY <1>1 DEF StoreOK, Owned, Entries, KeysOf
<1>4. \A e \in Dict : Keeps(e)
  <2>1. \A e \in Dict : Len(keys[e]) \in Nat
    BY <1>1, EntryFacts
  <2> QED
    BY <2>1 DEF Keeps
<1>5. ASSUME Quiet, NEW w
      PROVE  Holders(w)' = Holders(w)
  <2>1. \A s \in Slot : InUse(s)' <=> InUse(s)
    BY <1>5 DEF InUse, Open, Quiet
  <2> QED
    BY <1>1, <1>2, <2>1, HoldersSame
<1> QED
  BY <1>1, <1>2, <1>3, <1>4, <1>5 DEF StoreOK

\* A dict is released; at zero it is emptied.
LEMMA DecRefEffect ==
  ASSUME IInv, Quiet, NEW d \in Dict \cup {NULL}, DecRef(d), d # NULL => rc[d] > 0
  PROVE  /\ StoreOK' /\ \A e \in Dict : rc'[e] > 0 => Keeps(e)
         /\ \A e \in Dict : rc'[e] = 0 => keys'[e] = << >>
         /\ rc' \in [Dict -> Int] /\ \A e \in Dict : rc'[e] = rc[e] - One(e = d)
         /\ vrc' \in [Val -> Int]
         /\ \A w \in Val : vrc'[w] - Cardinality(Holders(w)') = vrc[w] - Cardinality(Holders(w))
<1>1. /\ rc \in [Dict -> Nat] /\ vrc \in [Val -> Nat]
      /\ \A e \in Dict : rc[e] = 0 => keys[e] = << >>
  BY DEF IInv, TypeOK, Arrays
<1>2. CASE d = NULL
  <2>1. UNCHANGED <<keys, values, text, rc, vrc>>
    BY <1>2 DEF DecRef, store
  <2>2. \A e \in Dict : One(e = d) = 0
    BY <1>2 DEF One
  <2> QED
    BY <1>1, <2>1, <2>2, StoreSame
<1>3. CASE d # NULL
  <2>1. d \in Dict /\ rc' = [rc EXCEPT ![d] = @ + (-1)] /\ rc[d] > 0
    BY <1>3 DEF DecRef, Bump
  <2>2. rc' \in [Dict -> Int] /\ \A e \in Dict : rc'[e] = rc[e] - One(e = d)
    BY <1>1, <2>1 DEF One
  <2>3. CASE rc[d] = 1
    <3>1. Emptied(d)
      BY <1>3, <2>3 DEF DecRef
    <3>2. rc'[d] = 0 /\ \A e \in Dict : e # d => rc'[e] = rc[e]
      BY <1>1, <2>1, <2>3
    <3> QED
      BY <1>1, <2>1, <2>2, <3>1, <3>2, EmptiedEffect
  <2>4. CASE rc[d] # 1
    <3>1. UNCHANGED <<keys, values, text, vrc>>
      BY <1>3, <2>4 DEF DecRef
    <3>2. \A e \in Dict : rc'[e] = 0 => rc[e] = 0
      BY <1>1, <2>1, <2>4
    <3> QED
      BY <1>1, <2>2, <3>1, <3>2, StoreSame
  <2> QED
    BY <2>3, <2>4
<1> QED
  BY <1>2, <1>3

-----------------------------------------------------------------------------
(***************************************************************************)
(* What the parts of IInv need of a step.                                  *)
(***************************************************************************)

\* What the rest of a statement works on, by its kind.
LEMMA PendingFacts ==
  ASSUME IInv
  PROVE  /\ Ready => pending.op = "idle"
         /\ pending.op \in {"idle", "local", "discard", "slot", "assign", "fill"}
         /\ pending.op \in {"local", "discard", "slot"} => pending.val \in Val
         /\ pending.op = "slot" => pending.owned \in BOOLEAN
         /\ pending.op \in {"slot", "assign", "fill"} => pending.dict \in Dict
         /\ pending.op \in {"assign", "fill"} => pending.to \in Var
         /\ pending.op = "fill" => pending.keys \in Seq(Text)
<1>1. pending \in Pending
  BY DEF IInv, TypeOK
<1> QED
  BY <1>1 DEF Pending, Idle, Ready

LEMMA PendingKinds ==
  /\ Idle.op = "idle" /\ Idle \in Pending
  /\ \A v \in Val, op \in {"local", "discard"} : [op |-> op, val |-> v] \in Pending
BY DEF Pending, Idle

\* A loop over a dict that keeps its entries stays on its way.
LEMMA VisitsKept ==
  ASSUME IInv, loop'.dict = loop.dict, loop'.idx = loop.idx, loop'.name = loop.name,
         loop'.seen = loop.seen,
         loop.dict # NULL /\ loop'.kept => loop.kept /\ Keeps(loop.dict)
  PROVE  Visits'
<1> SUFFICES ASSUME loop.dict # NULL, loop'.kept
             PROVE  /\ loop'.idx <= Len(keys'[loop'.dict])
                    /\ loop'.seen = [i \in 1 .. loop'.idx |-> text'[keys'[loop'.dict][i]]]
                    /\ loop'.idx > 0 => loop'.name = keys'[loop'.dict][loop'.idx]
  BY DEF Visits
<1> DEFINE d == loop.dict
<1>1. d \in Dict /\ loop.idx \in Nat
  BY DEF IInv, TypeOK
<1>2. Len(keys[d]) \in Nat /\ Len(keys'[d]) >= Len(keys[d]) /\ Entries(d) = 1 .. Len(keys[d])
  <2>1. Len(keys[d]) \in Nat /\ Entries(d) = 1 .. Len(keys[d])
    BY <1>1, IInvShape, EntryFacts
  <2> QED
    BY <2>1 DEF Keeps
<1>3. /\ loop.idx <= Len(keys[d])
      /\ loop.seen = [i \in 1 .. loop.idx |-> text[keys[d][i]]]
      /\ loop.idx > 0 => loop.name = keys[d][loop.idx]
  BY DEF IInv, Visits
<1>4. \A i \in 1 .. loop.idx : keys'[d][i] = keys[d][i] /\ text'[keys[d][i]] = text[keys[d][i]]
  BY <1>1, <1>2, <1>3 DEF Keeps
<1> QED
  BY <1>1, <1>2, <1>3, <1>4

\* The counts stay exact when both sides change by the same amount; in
\* particular they stay natural numbers.
LEMMA DictCountsKept ==
  ASSUME IInv, rc' \in [Dict -> Int],
         \A d \in Dict : rc'[d] - Cardinality(Names(d)') - Passing(d)'
                           = rc[d] - Cardinality(Names(d)) - Passing(d)
  PROVE  rc' \in [Dict -> Nat] /\ \A d \in Dict : rc'[d] = DictRefs(d)'
<1>1. ASSUME NEW d \in Dict
      PROVE  rc'[d] \in Nat /\ rc'[d] = DictRefs(d)'
  <2>1. rc[d] = Cardinality(Names(d)) + Passing(d) /\ rc[d] \in Nat
    BY DEF IInv, CountsExact, DictRefs, TypeOK
  <2>2. Cardinality(Names(d)) \in Nat /\ Cardinality(Names(d)') \in Nat
    BY NamesFinite
  <2>3. Passing(d) \in Nat /\ Passing(d)' \in Nat
    BY DEF Passing, One
  <2>4. /\ rc'[d] - Cardinality(Names(d)') - Passing(d)' = rc[d] - Cardinality(Names(d)) - Passing(d)
        /\ rc'[d] \in Int
    OBVIOUS
  <2> DEFINE m == rc'[d]
             c == Cardinality(Names(d)')
             p == Passing(d)'
  <2> HIDE DEF m, c, p
  <2>5. m \in Int /\ c \in Nat /\ p \in Nat /\ m - c - p = 0
    BY <2>1, <2>2, <2>3, <2>4 DEF m, c, p
  <2>6. m = c + p /\ m \in Nat
    BY <2>5
  <2> QED
    BY <2>6 DEF DictRefs, m, c, p
<1> QED
  BY <1>1

LEMMA ValueCountsKept ==
  ASSUME IInv, Shape', lost' \in [Val -> Nat], vrc' \in [Val -> Int],
         \A v \in Val : vrc'[v] - Cardinality(Holders(v)') - Loose(v)'
                          = vrc[v] - Cardinality(Holders(v)) - Loose(v)
  PROVE  vrc' \in [Val -> Nat] /\ \A v \in Val : vrc'[v] = ValueRefs(v)'
<1>1. ASSUME NEW v \in Val
      PROVE  vrc'[v] \in Nat /\ vrc'[v] = ValueRefs(v)'
  <2>1. vrc[v] = Cardinality(Holders(v)) + Loose(v) /\ vrc[v] \in Nat /\ lost[v] \in Nat
    BY DEF IInv, CountsExact, ValueRefs, TypeOK
  <2>2. Cardinality(Holders(v)) \in Nat /\ Cardinality(Holders(v)') \in Nat
    BY IInvShape, HoldersAreSlots, HoldersAreSlotsPrimed
  <2>3. Loose(v) \in Nat /\ Loose(v)' \in Nat
    BY <2>1 DEF Loose, One
  <2>4. vrc'[v] = Cardinality(Holders(v)') + Loose(v)'
    BY <2>1, <2>2, <2>3
  <2> QED
    BY <2>2, <2>3, <2>4 DEF ValueRefs
<1> QED
  BY <1>1

\* Dicts, their names and the loop are left alone.
LEMMA ValueStep ==
  ASSUME IInv, UNCHANGED <<store, var, loop>>,
         pending.op \in {"idle", "local", "discard"}, pending'.op \in {"idle", "local", "discard"},
         pending' \in Pending, held' \in Val \cup {NULL},
         lost' \in [Val -> Nat], vrc' \in [Val -> Int],
         \A v \in Val : vrc'[v] - Loose(v)' = vrc[v] - Loose(v)
  PROVE  IInv'
<1>1. UNCHANGED <<rc, keys, values, text, var, loop>>
  BY DEF store
<1>2. /\ StoreOK' /\ Shape' /\ \A e \in Dict : Keeps(e)
      /\ \A v \in Val : Holders(v)' = Holders(v)
  BY <1>1, StoreSame DEF Quiet, StoreOK
<1>3. vrc \in [Val -> Nat] /\ lost \in [Val -> Nat] /\ rc \in [Dict -> Nat]
  BY DEF IInv, TypeOK
<1>4. \A v \in Val : vrc'[v] - Cardinality(Holders(v)') - Loose(v)'
                       = vrc[v] - Cardinality(Holders(v)) - Loose(v)
  <2> TAKE v \in Val
  <2>1. /\ Cardinality(Holders(v)) \in Nat /\ Holders(v)' = Holders(v)
        /\ vrc[v] \in Nat /\ vrc'[v] \in Int /\ vrc'[v] - Loose(v)' = vrc[v] - Loose(v)
    BY <1>2, <1>3, IInvShape, HoldersAreSlots
  <2>2. Loose(v) \in Nat /\ Loose(v)' \in Nat
    BY <1>3 DEF Loose, One
  <2> QED
    BY <2>1, <2>2
<1>5. vrc' \in [Val -> Nat] /\ \A v \in Val : vrc'[v] = ValueRefs(v)'
  BY <1>2, <1>4, ValueCountsKept
<1>6. \A d \in Dict : Names(d)' = Names(d) /\ Passing(d)' = Passing(d)
  BY <1>1 DEF Names, Passing, One
<1>7. rc' \in [Dict -> Nat] /\ \A d \in Dict : rc'[d] = DictRefs(d)'
  BY <1>1, <1>3, <1>6 DEF DictRefs, IInv, CountsExact
<1>8. TypeOK'
  BY <1>1, <1>2, <1>5, <1>7 DEF IInv, TypeOK
<1>9. Arrays'
  BY <1>1 DEF IInv, Arrays
<1>10. Statements'
  BY DEF Statements
<1>11. Visits'
  BY <1>1 DEF IInv, Visits
<1> QED
  BY <1>2, <1>5, <1>7, <1>8, <1>9, <1>10, <1>11 DEF IInv, CountsExact, StoreOK

-----------------------------------------------------------------------------
(***************************************************************************)
(* Statements about values.                                                *)
(***************************************************************************)
LEMMA ValueTypes ==
  ASSUME IInv
  PROVE  /\ vrc \in [Val -> Nat] /\ vrc \in [Val -> Int]
         /\ lost \in [Val -> Nat] /\ lost \in [Val -> Int] /\ held \in Val \cup {NULL}
BY DEF IInv, TypeOK

LEMMA StoreHeldStep ==
  ASSUME IInv, StoreHeld
  PROVE  IInv'
<1>1. /\ pending.op = "local" /\ pending.val \in Val /\ held' = pending.val /\ pending' = Idle
      /\ vrc' = IF held = NULL THEN vrc ELSE Bump(vrc, held, -1)
      /\ UNCHANGED <<store, var, loop, lost>>
  BY PendingFacts DEF StoreHeld
<1>2. vrc' \in [Val -> Int] /\ \A v \in Val : vrc'[v] = vrc[v] - One(held = v)
  BY <1>1, ValueTypes DEF Bump, One
<1>3. \A v \in Val : vrc'[v] - Loose(v)' = vrc[v] - Loose(v)
  BY <1>1, <1>2, ValueTypes, PendingKinds DEF Loose, One
<1> QED
  BY <1>1, <1>2, <1>3, ValueTypes, PendingKinds, ValueStep

LEMMA DiscardStep ==
  ASSUME IInv, Discard
  PROVE  IInv'
<1>1. /\ pending.op = "discard" /\ pending.val \in Val /\ pending' = Idle
      /\ vrc' = Bump(vrc, pending.val, -1)
      /\ UNCHANGED <<store, var, loop, lost, held>>
  BY PendingFacts DEF Discard
<1>2. vrc' \in [Val -> Int] /\ \A v \in Val : vrc'[v] = vrc[v] - One(pending.val = v)
  BY <1>1, ValueTypes DEF Bump, One
<1>3. \A v \in Val : vrc'[v] - Loose(v)' = vrc[v] - Loose(v)
  BY <1>1, <1>2, ValueTypes, PendingKinds DEF Loose, One
<1> QED
  BY <1>1, <1>2, <1>3, ValueTypes, PendingKinds, ValueStep

LEMMA DropHeldStep ==
  ASSUME IInv, DropHeld
  PROVE  IInv'
<1>1. /\ pending.op = "idle" /\ held \in Val /\ held' = NULL
      /\ vrc' = Bump(vrc, held, -1)
      /\ UNCHANGED <<store, var, loop, lost, pending>>
  BY PendingFacts, ValueTypes DEF DropHeld
<1>2. vrc' \in [Val -> Int] /\ \A v \in Val : vrc'[v] = vrc[v] - One(held = v)
  BY <1>1, ValueTypes DEF Bump, One
<1>3. \A v \in Val : vrc'[v] - Loose(v)' = vrc[v] - Loose(v)
  BY <1>1, <1>2, ValueTypes DEF Loose, One
<1>4. pending' \in Pending
  BY <1>1 DEF IInv, TypeOK
<1> QED
  BY <1>1, <1>2, <1>3, <1>4, ValueTypes, ValueStep

\* A value is evaluated into the temporary: the count of every value grows by
\* the reference taken and by those abandoned.
LEMMA EvaluatedStep ==
  ASSUME IInv, Ready, NEW u \in Val, Evaluated(u), UNCHANGED <<store, var, held, loop>>,
         lost' \in [Val -> Nat], vrc' \in [Val -> Int],
         \A v \in Val : vrc'[v] - lost'[v] = vrc[v] - lost[v] + One(u = v)
  PROVE  IInv'
<1>1. /\ pending.op = "idle" /\ pending'.op = "local" /\ pending'.val = u /\ pending' \in Pending
  BY PendingFacts, PendingKinds DEF Evaluated
<1>2. \A v \in Val : vrc'[v] - Loose(v)' = vrc[v] - Loose(v)
  BY <1>1, ValueTypes DEF Loose, One
<1>3. UNCHANGED <<store, var, loop>> /\ held' \in Val \cup {NULL}
  BY ValueTypes
<1> QED
  BY <1>1, <1>2, <1>3, ValueStep

\* The value of a key that a dict of the program has.
LEMMA ValueFound ==
  ASSUME IInv, NEW x \in Var, Named(x), NEW k, Has(var[x], k)
  PROVE  /\ Ready /\ var[x] \in Dict /\ Find(var[x], k) \in Entries(var[x])
         /\ values[var[x]][Find(var[x], k)] \in Val
<1>1. Ready /\ var[x] \in Dict
  BY DEF Named, IInv, TypeOK
<1>2. Find(var[x], k) \in Entries(var[x])
  BY <1>1, FindFacts
<1> QED
  BY <1>1, <1>2, IInvShape, EntryFacts

LEMMA AssignFreshStep ==
  ASSUME IInv, NEW v \in Val, AssignFresh(v)
  PROVE  IInv'
<1>1. /\ Ready /\ vrc[v] = 0 /\ vrc' = [vrc EXCEPT ![v] = 1] /\ Evaluated(v)
      /\ UNCHANGED <<store, var, held, loop>> /\ lost' = lost
  BY DEF AssignFresh, NewVal
<1>2. vrc' \in [Val -> Int] /\ \A w \in Val : vrc'[w] - lost'[w] = vrc[w] - lost[w] + One(v = w)
  BY <1>1, ValueTypes DEF One
<1> QED
  BY <1>1, <1>2, ValueTypes, EvaluatedStep

LEMMA AssignGetStep ==
  ASSUME IInv, NEW x \in Var, NEW k \in Text, AssignGet(x, k)
  PROVE  IInv'
<1> DEFINE u == values[var[x]][Find(var[x], k)]
<1>1. /\ Ready /\ u \in Val /\ vrc' = Bump(vrc, u, 1) /\ Evaluated(u)
      /\ UNCHANGED <<store, var, held, loop>> /\ lost' = lost
  BY ValueFound DEF AssignGet
<1> HIDE DEF u
<1>2. vrc' \in [Val -> Int] /\ \A w \in Val : vrc'[w] - lost'[w] = vrc[w] - lost[w] + One(u = w)
  BY <1>1, ValueTypes DEF Bump, One
<1> QED
  BY <1>1, <1>2, ValueTypes, EvaluatedStep

LEMMA AssignIndexStep ==
  ASSUME IInv, NEW x \in Var, NEW k \in Text, AssignIndex(x, k)
  PROVE  IInv'
<1> DEFINE u == values[var[x]][Find(var[x], k)]
<1>1. /\ Ready /\ u \in Val /\ vrc' = Bump(vrc, u, 2) /\ lost' = Bump(lost, u, 1) /\ Evaluated(u)
      /\ UNCHANGED <<store, var, held, loop>>
  BY ValueFound DEF AssignIndex
<1> HIDE DEF u
<1>2. vrc' \in [Val -> Int] /\ \A w \in Val : vrc'[w] = IF w = u THEN vrc[w] + 2 ELSE vrc[w]
  BY <1>1, ValueTypes DEF Bump
<1>3. lost' \in [Val -> Nat] /\ \A w \in Val : lost'[w] = IF w = u THEN lost[w] + 1 ELSE lost[w]
  BY <1>1, ValueTypes DEF Bump
<1>4. \A w \in Val : vrc'[w] - lost'[w] = vrc[w] - lost[w] + One(u = w)
  BY <1>2, <1>3, ValueTypes DEF One
<1> QED
  BY <1>1, <1>2, <1>3, <1>4, EvaluatedStep

LEMMA AssignGetOrStep ==
  ASSUME IInv, NEW x \in Var, NEW k \in Text, AssignGetOr(x, k)
  PROVE  IInv'
<1> DEFINE u == IF Has(var[x], k) THEN values[var[x]][Find(var[x], k)] ELSE held
<1>1. /\ Ready /\ vrc' = Bump(vrc, u, 1) /\ Evaluated(u)
      /\ UNCHANGED <<store, var, held, loop>> /\ lost' = lost
  BY DEF AssignGetOr, Named
<1>2. u \in Val
  BY ValueFound, ValueTypes DEF AssignGetOr
<1> HIDE DEF u
<1>3. vrc' \in [Val -> Int] /\ \A w \in Val : vrc'[w] - lost'[w] = vrc[w] - lost[w] + One(u = w)
  BY <1>1, <1>2, ValueTypes DEF Bump, One
<1> QED
  BY <1>1, <1>2, <1>3, ValueTypes, EvaluatedStep

LEMMA AssignGetOrFreshStep ==
  ASSUME IInv, NEW x \in Var, NEW k \in Text, NEW f \in Val, AssignGetOrFresh(x, k, f)
  PROVE  IInv'
<1> DEFINE u == IF Has(var[x], k) THEN values[var[x]][Find(var[x], k)] ELSE f
           g == [vrc EXCEPT ![f] = 1]
<1>1. /\ Ready /\ vrc[f] = 0 /\ vrc' = Bump(g, u, 1) /\ lost' = Bump(lost, f, 1) /\ Evaluated(u)
      /\ UNCHANGED <<store, var, held, loop>>
  BY DEF AssignGetOrFresh, Named, NewVal
<1>2. u \in Val
  BY ValueFound DEF AssignGetOrFresh
<1>3. g \in [Val -> Int] /\ \A w \in Val : g[w] = IF w = f THEN 1 ELSE vrc[w]
  BY ValueTypes
<1> HIDE DEF u, g
<1>4. vrc' \in [Val -> Int] /\ \A w \in Val : vrc'[w] = IF w = u THEN g[w] + 1 ELSE g[w]
  BY <1>1, <1>2, <1>3 DEF Bump
<1>5. lost' \in [Val -> Nat] /\ \A w \in Val : lost'[w] = IF w = f THEN lost[w] + 1 ELSE lost[w]
  BY <1>1, ValueTypes DEF Bump
<1>6. \A w \in Val : vrc'[w] - lost'[w] = vrc[w] - lost[w] + One(u = w)
  BY <1>1, <1>3, <1>4, <1>5, ValueTypes DEF One
<1> QED
  BY <1>1, <1>2, <1>4, <1>5, <1>6, EvaluatedStep

-----------------------------------------------------------------------------
(***************************************************************************)
(* Statements about entries.                                               *)
(***************************************************************************)

\* A local keeps its dict alive.
LEMMA NamedIsLive ==
  ASSUME IInv, NEW x \in Var, var[x] # NULL
  PROVE  var[x] \in Dict /\ rc[var[x]] \in Nat /\ rc[var[x]] > 0
<1>1. var[x] \in Dict
  BY DEF IInv, TypeOK
<1>2. rc[var[x]] = Cardinality(Names(var[x])) + Passing(var[x])
  BY <1>1 DEF IInv, CountsExact, DictRefs
<1>3. x \in Names(var[x])
  BY DEF Names
<1>4. Cardinality(Names(var[x])) \in Nat /\ Cardinality(Names(var[x])) # 0
  BY <1>3, NamesFinite, FS_EmptySet
<1>5. Passing(var[x]) \in Nat
  BY DEF Passing, One
<1> QED
  BY <1>1, <1>2, <1>4, <1>5

\* An operation on the entries of dicts: who names a dict is left alone.
LEMMA EntryStep ==
  ASSUME IInv, StoreOK', UNCHANGED <<rc, var>>, loop'.dict = loop.dict,
         loop' \in [dict : Dict \cup {NULL}, idx : Nat, name : KeyAddr \cup {NULL},
                    seen : Seq(Text), kept : BOOLEAN],
         \A d \in Dict : rc[d] = 0 => keys'[d] = keys[d],
         pending.op \in {"idle", "local", "discard", "slot"},
         pending'.op \in {"idle", "local", "discard", "slot"},
         pending' \in Pending, held' \in Val \cup {NULL},
         lost' \in [Val -> Nat], vrc' \in [Val -> Int],
         \A v \in Val : vrc'[v] - Cardinality(Holders(v)') - Loose(v)'
                          = vrc[v] - Cardinality(Holders(v)) - Loose(v),
         Statements', Visits'
  PROVE  IInv'
<1>1. Shape' /\ Owned' /\ text' \in [KeyAddr -> Text \cup {NULL}]
  BY DEF StoreOK
<1>2. vrc' \in [Val -> Nat] /\ \A v \in Val : vrc'[v] = ValueRefs(v)'
  BY <1>1, ValueCountsKept
<1>3. \A d \in Dict : Names(d)' = Names(d) /\ Passing(d)' = Passing(d)
  BY DEF Names, Passing, One
<1>4. \A d \in Dict : rc'[d] = DictRefs(d)'
  BY <1>3 DEF DictRefs, IInv, CountsExact
<1>5. TypeOK'
  BY <1>1, <1>2 DEF IInv, TypeOK, Shape
<1>6. Arrays'
  BY <1>1 DEF IInv, Arrays, Shape
<1> QED
  BY <1>1, <1>2, <1>4, <1>5, <1>6 DEF IInv, CountsExact

LEMMA PopStep ==
  ASSUME IInv, NEW x \in Var, NEW k \in Text, Pop(x, k)
  PROVE  IInv'
<1> DEFINE d == var[x]
           i == Find(d, k)
           u == values[d][i]
<1>1. Ready /\ d \in Dict /\ i \in Entries(d) /\ u \in Val
  BY ValueFound DEF Pop
<1>2. /\ text' = [text EXCEPT ![keys[d][i]] = NULL]
      /\ keys' = [keys EXCEPT ![d] = Without(@, i)]
      /\ values' = [values EXCEPT ![d] = Without(@, i)]
      /\ Removing(d) /\ UNCHANGED <<rc, vrc, lost, var, held>>
  BY DEF Pop
<1>3. PICK op \in {"local", "discard"} : pending' = [op |-> op, val |-> u]
  BY DEF Pop
<1>4. rc[d] > 0
  BY NamedIsLive DEF Pop, Named
<1> HIDE DEF d, i
<1>5. pending.op = "idle" /\ pending'.op = op /\ pending'.val = u /\ pending' \in Pending
  BY <1>1, <1>3, PendingFacts, PendingKinds
<1>6. Quiet
  BY <1>5 DEF Quiet
<1>7. /\ StoreOK' /\ \A e \in Dict : e # d => Keeps(e) /\ keys'[e] = keys[e]
      /\ \A w : Cardinality(Holders(w)') = Cardinality(Holders(w)) - One(u = w)
  BY <1>1, <1>2, <1>6, PopEffect
<1>8. \A v \in Val : vrc'[v] - Cardinality(Holders(v)') - Loose(v)'
                       = vrc[v] - Cardinality(Holders(v)) - Loose(v)
  <2> TAKE v \in Val
  <2>1. Cardinality(Holders(v)') = Cardinality(Holders(v)) - One(u = v)
        /\ Cardinality(Holders(v)) \in Nat
    BY <1>7, IInvShape, HoldersAreSlots
  <2>2. Loose(v)' = Loose(v) + One(u = v) /\ Loose(v) \in Nat
    BY <1>2, <1>5, ValueTypes DEF Loose, One
  <2>3. One(u = v) \in Nat /\ vrc'[v] = vrc[v] /\ vrc[v] \in Nat
    BY <1>2, ValueTypes DEF One
  <2> QED
    BY <2>1, <2>2, <2>3
<1>9. /\ loop' \in [dict : Dict \cup {NULL}, idx : Nat, name : KeyAddr \cup {NULL},
                    seen : Seq(Text), kept : BOOLEAN]
      /\ loop'.dict = loop.dict /\ loop'.idx = loop.idx /\ loop'.name = loop.name
      /\ loop'.seen = loop.seen /\ (loop'.kept => loop.kept /\ d # loop.dict)
  BY <1>2 DEF Removing, IInv, TypeOK
<1>10. Visits'
  <2>1. loop.dict # NULL /\ loop'.kept => loop.kept /\ Keeps(loop.dict)
    BY <1>7, <1>9 DEF IInv, TypeOK
  <2> QED
    BY <1>9, <2>1, VisitsKept
<1>11. Statements'
  BY <1>5 DEF Statements
<1>12. \A e \in Dict : rc[e] = 0 => keys'[e] = keys[e]
  BY <1>4, <1>7
<1> QED
  BY <1>2, <1>5, <1>7, <1>8, <1>9, <1>10, <1>11, <1>12, ValueTypes, EntryStep

LEMMA ClearStep ==
  ASSUME IInv, NEW x \in Var, Clear(x)
  PROVE  IInv'
<1> DEFINE d == var[x]
<1>1. Ready /\ d \in Dict /\ rc[d] > 0 /\ Emptied(d) /\ Removing(d)
      /\ UNCHANGED <<rc, lost, var, held, pending>>
  BY NamedIsLive DEF Clear, Named
<1> HIDE DEF d
<1>2. pending.op = "idle" /\ Quiet
  BY <1>1, PendingFacts DEF Quiet
<1>3. /\ StoreOK' /\ \A e \in Dict : e # d => Keeps(e) /\ keys'[e] = keys[e]
      /\ vrc' \in [Val -> Int]
      /\ \A w \in Val : vrc'[w] - Cardinality(Holders(w)') = vrc[w] - Cardinality(Holders(w))
  BY <1>1, <1>2, EmptiedEffect
<1>4. \A v \in Val : vrc'[v] - Cardinality(Holders(v)') - Loose(v)'
                       = vrc[v] - Cardinality(Holders(v)) - Loose(v)
  <2>1. \A v \in Val : Loose(v)' = Loose(v)
    BY <1>1 DEF Loose
  <2> QED
    BY <1>3, <2>1
<1>5. /\ loop' \in [dict : Dict \cup {NULL}, idx : Nat, name : KeyAddr \cup {NULL},
                    seen : Seq(Text), kept : BOOLEAN]
      /\ loop'.dict = loop.dict /\ loop'.idx = loop.idx /\ loop'.name = loop.name
      /\ loop'.seen = loop.seen /\ (loop'.kept => loop.kept /\ d # loop.dict)
  BY <1>1 DEF Removing, IInv, TypeOK
<1>6. Visits'
  <2>1. loop.dict # NULL /\ loop'.kept => loop.kept /\ Keeps(loop.dict)
    BY <1>3, <1>5 DEF IInv, TypeOK
  <2> QED
    BY <1>5, <2>1, VisitsKept
<1>7. Statements'
  BY <1>1, <1>2 DEF Statements
<1>8. \A e \in Dict : rc[e] = 0 => keys'[e] = keys[e]
  BY <1>1, <1>3
<1>9. pending' \in Pending
  BY <1>1 DEF IInv, TypeOK
<1> QED
  BY <1>1, <1>2, <1>3, <1>4, <1>5, <1>6, <1>7, <1>8, <1>9, ValueTypes, EntryStep

\* A loop is left alone by an operation that keeps every entry.
LEMMA LoopSame ==
  ASSUME IInv, UNCHANGED loop, \A e \in Dict : Keeps(e)
  PROVE  /\ loop' \in [dict : Dict \cup {NULL}, idx : Nat, name : KeyAddr \cup {NULL},
                       seen : Seq(Text), kept : BOOLEAN]
         /\ loop'.dict = loop.dict /\ Visits'
<1>1. loop \in [dict : Dict \cup {NULL}, idx : Nat, name : KeyAddr \cup {NULL},
                seen : Seq(Text), kept : BOOLEAN]
  BY DEF IInv, TypeOK
<1>2. loop.dict # NULL => Keeps(loop.dict)
  BY <1>1
<1> QED
  BY <1>1, <1>2, VisitsKept

\* set on a key that is new.
LEMMA SetNew ==
  ASSUME IInv, Ready, NEW d \in Dict, rc[d] > 0, NEW k \in Text, NEW v \in Val, NEW o \in {0, 1},
         Find(d, k) = 0, Set(d, k, v, o), UNCHANGED <<var, held, loop>>
  PROVE  IInv'
<1>1. /\ Insert(d, k, v) /\ vrc' = Bump(Bump(vrc, v, o), v, 1) /\ lost' = Bump(lost, v, o)
      /\ pending' = pending /\ rc' = rc
  BY DEF Set, Insert
<1>2. pending.op = "idle" /\ Quiet /\ ~Has(d, k)
  BY <1>1, PendingFacts DEF Quiet, Has
<1>3. /\ StoreOK' /\ \A e \in Dict : Keeps(e)
      /\ \A e \in Dict : e # d => keys'[e] = keys[e]
      /\ \A w : Cardinality(Holders(w)') = Cardinality(Holders(w)) + One(v = w)
  BY <1>1, <1>2, InsertEffect
<1>4. vrc' \in [Val -> Int] /\ \A w \in Val : vrc'[w] = IF v = w THEN vrc[w] + o + 1 ELSE vrc[w]
  BY <1>1, ValueTypes DEF Bump
<1>5. lost' \in [Val -> Nat] /\ \A w \in Val : lost'[w] = IF v = w THEN lost[w] + o ELSE lost[w]
  BY <1>1, ValueTypes DEF Bump
<1>6. \A w \in Val : vrc'[w] - Cardinality(Holders(w)') - Loose(w)'
                       = vrc[w] - Cardinality(Holders(w)) - Loose(w)
  <2> TAKE w \in Val
  <2>1. Cardinality(Holders(w)') = Cardinality(Holders(w)) + One(v = w)
        /\ Cardinality(Holders(w)) \in Nat
    BY <1>3, IInvShape, HoldersAreSlots
  <2>2. Loose(w)' = Loose(w) + (IF v = w THEN o ELSE 0) /\ Loose(w) \in Nat
    BY <1>1, <1>2, <1>5, ValueTypes DEF Loose, One
  <2>3. vrc'[w] = (IF v = w THEN vrc[w] + o + 1 ELSE vrc[w]) /\ vrc[w] \in Nat
    BY <1>4, ValueTypes
  <2> QED
    BY <2>1, <2>2, <2>3 DEF One
<1>7. Statements'
  BY <1>1, <1>2 DEF Statements
<1>8. pending' \in Pending
  BY <1>1 DEF IInv, TypeOK
<1> QED
  BY <1>1, <1>2, <1>3, <1>4, <1>5, <1>6, <1>7, <1>8, ValueTypes, LoopSame, EntryStep

\* set on a key that is there: the old value is gone, the new one not yet in.
LEMMA SetOld ==
  ASSUME IInv, Ready, NEW d \in Dict, rc[d] > 0, NEW k \in Text, NEW v \in Val, NEW o \in {0, 1},
         o = 0 => v = held, Find(d, k) # 0, Set(d, k, v, o), UNCHANGED <<var, held, loop>>
  PROVE  IInv'
<1> DEFINE i == Find(d, k)
           u == values[d][i]
           s == <<d, i>>
<1>1. /\ vrc' = Bump(Bump(vrc, v, o), u, -1) /\ lost' = lost
      /\ pending' = [op |-> "slot", dict |-> d, at |-> i, val |-> v, owned |-> o = 1]
      /\ UNCHANGED <<rc, keys, values, text>>
  BY DEF Set, store
<1>2. /\ i \in Entries(d) /\ i \in Nat /\ u \in Val /\ s \in Slot
      /\ i <= Len(keys[d])
  <2>1. i \in Entries(d)
    BY FindFacts DEF Has
  <2> QED
    BY <2>1, IInvShape, EntryFacts
<1> HIDE DEF i
<1>3. /\ pending.op = "idle" /\ pending'.op = "slot" /\ pending'.val = v /\ pending'.dict = d
      /\ pending'.at = i /\ (pending'.owned <=> o = 1) /\ pending' \in Pending
  BY <1>1, <1>2, PendingFacts DEF Pending
<1>4. StoreOK' /\ Shape /\ Shape' /\ \A e \in Dict : Keeps(e)
  BY <1>1, StoreSame, IInvShape DEF StoreOK
<1>5. ASSUME NEW w
      PROVE  Cardinality(Holders(w)') = Cardinality(Holders(w)) - One(u = w)
  <2>1. InUse(s) /\ \A t \in Slot : InUse(t)' <=> InUse(t) /\ t # s
    <3>1. \A t \in Slot : t = <<t[1], t[2]>>
      BY DEF Slot
    <3>2. \A t \in Slot : Open(t[1], t[2])' <=> t = s
      BY <1>3, <3>1 DEF Open
    <3>3. \A t \in Slot : ~Open(t[1], t[2])
      BY <1>3 DEF Open
    <3> QED
      BY <1>1, <1>2, <3>2, <3>3 DEF InUse
  <2> QED
    BY <1>1, <1>2, <1>4, <2>1, HoldersLost
<1> HIDE DEF u, s
<1>6. vrc' \in [Val -> Int]
      /\ \A w \in Val : vrc'[w] = vrc[w] + (IF v = w THEN o ELSE 0) - One(u = w)
  <2> DEFINE g == Bump(vrc, v, o)
  <2>1. g \in [Val -> Int] /\ \A w \in Val : g[w] = vrc[w] + (IF v = w THEN o ELSE 0)
    BY ValueTypes DEF Bump
  <2> HIDE DEF g
  <2>2. vrc' = Bump(g, u, -1)
    BY <1>1 DEF g
  <2>3. vrc' \in [Val -> Int] /\ \A w \in Val : vrc'[w] = g[w] - One(u = w)
    BY <1>2, <2>1, <2>2 DEF Bump, One
  <2>4. \A w \in Val : vrc'[w] = vrc[w] + (IF v = w THEN o ELSE 0) - One(u = w)
    BY <2>1, <2>3, ValueTypes DEF One
  <2> QED
    BY <2>3, <2>4
<1>7. \A w \in Val : vrc'[w] - Cardinality(Holders(w)') - Loose(w)'
                       = vrc[w] - Cardinality(Holders(w)) - Loose(w)
  <2> TAKE w \in Val
  <2>1. Cardinality(Holders(w)') = Cardinality(Holders(w)) - One(u = w)
        /\ Cardinality(Holders(w)) \in Nat /\ One(u = w) \in Nat
    BY <1>4, <1>5, HoldersAreSlots DEF One
  <2>2. Loose(w)' = Loose(w) + (IF v = w THEN o ELSE 0) /\ Loose(w) \in Nat
    BY <1>1, <1>3, ValueTypes DEF Loose, One
  <2>3. vrc'[w] = vrc[w] + (IF v = w THEN o ELSE 0) - One(u = w) /\ vrc[w] \in Nat
    BY <1>6, ValueTypes
  <2> QED
    BY <2>1, <2>2, <2>3
<1>8. Statements'
  <2>1. (pending.at \in Entries(pending.dict))'
    BY <1>1, <1>2, <1>3 DEF Entries
  <2> QED
    BY <1>1, <1>3, <2>1 DEF Statements
<1> QED
  BY <1>1, <1>3, <1>4, <1>6, <1>7, <1>8, ValueTypes, LoopSame, EntryStep

LEMMA SetStep ==
  ASSUME IInv, Ready, NEW x \in Var, var[x] # NULL, NEW k \in Text, NEW v \in Val, NEW o \in {0, 1},
         o = 0 => v = held, Set(var[x], k, v, o), UNCHANGED <<var, held, loop>>
  PROVE  IInv'
<1>1. var[x] \in Dict /\ rc[var[x]] > 0
  BY NamedIsLive
<1> QED
  BY <1>1, SetNew, SetOld

LEMMA SetHeldStep ==
  ASSUME IInv, NEW x \in Var, NEW k \in Text, SetHeld(x, k)
  PROVE  IInv'
BY ValueTypes, SetStep DEF SetHeld, Named

LEMMA SetFreshStep ==
  ASSUME IInv, NEW x \in Var, NEW k \in Text, NEW v \in Val, SetFresh(x, k, v)
  PROVE  IInv'
BY SetStep DEF SetFresh, Named

LEMMA SetGetStep ==
  ASSUME IInv, NEW x \in Var, NEW k \in Text, NEW y \in Var, NEW l \in Text, SetGet(x, k, y, l)
  PROVE  IInv'
<1> DEFINE v == values[var[y]][Find(var[y], l)]
<1>1. v \in Val
  BY ValueFound DEF SetGet
<1>2. Ready /\ var[x] # NULL /\ Set(var[x], k, v, 1) /\ UNCHANGED <<var, held, loop>>
  BY DEF SetGet, Named
<1> HIDE DEF v
<1> QED
  BY <1>1, <1>2, SetStep

\* The value of the entry that set left open is stored.
LEMMA StoreEntryStep ==
  ASSUME IInv, StoreEntry
  PROVE  IInv'
<1> DEFINE d == pending.dict
           i == pending.at
           v == pending.val
           s == <<d, i>>
<1>1. /\ pending.op = "slot" /\ pending' = Idle /\ pending.owned \in BOOLEAN
      /\ values' = [values EXCEPT ![d][i] = v] /\ vrc' = Bump(vrc, v, 1)
      /\ lost' = IF pending.owned THEN Bump(lost, v, 1) ELSE lost
      /\ UNCHANGED <<rc, keys, text, var, held, loop>>
  BY PendingFacts DEF StoreEntry
<1>2. d \in Dict /\ v \in Val /\ i \in Entries(d) /\ rc[d] > 0
  BY <1>1, PendingFacts DEF IInv, Statements
<1>3. /\ Shape /\ StoreOK /\ keys \in [Dict -> Seq(KeyAddr)] /\ values \in [Dict -> Seq(Val)]
  BY IInvShape, IInvStore DEF Shape
<1>4. /\ Len(keys[d]) \in Nat /\ i \in 1 .. Len(values[d]) /\ values[d] \in Seq(Val)
      /\ i <= Len(keys[d]) /\ s \in Slot /\ s[1] = d /\ s[2] = i
  BY <1>2, <1>3, EntryFacts
<1>5. /\ values' \in [Dict -> Seq(Val)] /\ values'[d] = [values[d] EXCEPT ![i] = v]
      /\ Len(values'[d]) = Len(values[d])
      /\ \A e \in Dict : e # d => values'[e] = values[e]
  BY <1>1, <1>2, <1>3, <1>4
<1>6. Shape'
  BY <1>1, <1>3, <1>5 DEF Shape
<1>7. StoreOK' /\ \A e \in Dict : Keeps(e)
  <2>1. Owned'
    BY <1>1, <1>3 DEF StoreOK, Owned, Entries, KeysOf
  <2>2. \A e \in Dict : Len(keys[e]) \in Nat
    BY <1>3, EntryFacts
  <2> QED
    BY <1>1, <1>3, <1>6, <2>1, <2>2 DEF StoreOK, Keeps
<1>8. pending'.op = "idle" /\ pending' \in Pending
  BY <1>1, PendingKinds
<1>9. ASSUME NEW w
      PROVE  Cardinality(Holders(w)') = Cardinality(Holders(w)) + One(v = w)
  <2>1. \A t \in Slot : t[1] \in Dict /\ t[2] \in 1 .. MaxLen /\ t = <<t[1], t[2]>>
    BY DEF Slot
  <2>2. \A t \in Slot : Open(t[1], t[2]) <=> t = s
    BY <1>1, <2>1 DEF Open
  <2>3. \A t \in Slot : ~Open(t[1], t[2])'
    BY <1>8 DEF Open
  <2>4. ~InUse(s) /\ \A t \in Slot : InUse(t)' <=> InUse(t) \/ t = s
    BY <1>1, <1>4, <2>2, <2>3 DEF InUse
  <2>5. ASSUME NEW t \in Slot, InUse(t)
        PROVE  values'[t[1]][t[2]] = values[t[1]][t[2]]
    <3>1. t[2] \in 1 .. Len(values[t[1]]) /\ t # s
      BY <1>3, <2>1, <2>4, <2>5, EntryFacts, Sizes DEF InUse
    <3>2. CASE t[1] = d
      BY <1>4, <1>5, <2>1, <3>1, <3>2
    <3>3. CASE t[1] # d
      BY <1>5, <2>1, <3>3
    <3> QED
      BY <3>2, <3>3
  <2>6. values'[s[1]][s[2]] = v
    BY <1>4, <1>5
  <2> HIDE DEF s, v
  <2> QED
    BY <1>3, <1>4, <1>6, <2>4, <2>5, <2>6, HoldersGained
<1> HIDE DEF s
<1>10. vrc' \in [Val -> Int] /\ \A w \in Val : vrc'[w] = vrc[w] + One(v = w)
  BY <1>1, <1>2, ValueTypes DEF Bump, One
<1>11. lost' \in [Val -> Nat]
       /\ \A w \in Val : lost'[w] = lost[w] + One(v = w /\ pending.owned)
  BY <1>1, <1>2, ValueTypes DEF Bump, One
<1>12. \A w \in Val : vrc'[w] - Cardinality(Holders(w)') - Loose(w)'
                        = vrc[w] - Cardinality(Holders(w)) - Loose(w)
  <2> TAKE w \in Val
  <2>1. Cardinality(Holders(w)') = Cardinality(Holders(w)) + One(v = w)
        /\ Cardinality(Holders(w)) \in Nat /\ One(v = w) \in Nat
    BY <1>3, <1>9, HoldersAreSlots DEF One
  <2>2. Loose(w)' = Loose(w) /\ Loose(w) \in Nat
    BY <1>1, <1>8, <1>11, ValueTypes DEF Loose, One
  <2>3. vrc'[w] = vrc[w] + One(v = w) /\ vrc[w] \in Nat
    BY <1>10, ValueTypes
  <2> QED
    BY <2>1, <2>2, <2>3
<1>13. Statements'
  BY <1>8 DEF Statements
<1> QED
  BY <1>1, <1>7, <1>8, <1>10, <1>11, <1>12, <1>13, ValueTypes, LoopSame, EntryStep

-----------------------------------------------------------------------------
(***************************************************************************)
(* Statements about dicts.                                                 *)
(***************************************************************************)
LoopType == [dict : Dict \cup {NULL}, idx : Nat, name : KeyAddr \cup {NULL},
             seen : Seq(Text), kept : BOOLEAN]

\* An operation on dicts: who holds a value is left alone, but for entries.
LEMMA DictStep ==
  ASSUME IInv, StoreOK', UNCHANGED <<lost, held>>,
         rc' \in [Dict -> Int], vrc' \in [Val -> Int],
         \A d \in Dict : rc'[d] - Cardinality(Names(d)') - Passing(d)'
                           = rc[d] - Cardinality(Names(d)) - Passing(d),
         \A v \in Val : vrc'[v] - Cardinality(Holders(v)') = vrc[v] - Cardinality(Holders(v)),
         \A d \in Dict : rc'[d] = 0 => keys'[d] = << >>,
         pending.op \in {"idle", "assign", "fill"}, pending'.op \in {"idle", "assign", "fill"},
         pending' \in Pending, var' \in [Var -> Dict \cup {NULL}], loop' \in LoopType,
         pending'.op = "fill" => pending'.keys = << >> \/ held # NULL,
         Visits'
  PROVE  IInv'
<1>1. Shape' /\ Owned' /\ text' \in [KeyAddr -> Text \cup {NULL}]
  BY DEF StoreOK
<1>2. rc' \in [Dict -> Nat] /\ \A d \in Dict : rc'[d] = DictRefs(d)'
  BY DictCountsKept
<1>3. \A v \in Val : vrc'[v] - Cardinality(Holders(v)') - Loose(v)'
                       = vrc[v] - Cardinality(Holders(v)) - Loose(v)
  <2>1. \A v \in Val : Loose(v)' = Loose(v)
    BY DEF Loose, One
  <2> QED
    BY <2>1
<1>4. vrc' \in [Val -> Nat] /\ \A v \in Val : vrc'[v] = ValueRefs(v)'
  BY <1>1, <1>3, ValueTypes, ValueCountsKept
<1>5. TypeOK'
  BY <1>1, <1>2, <1>4, ValueTypes DEF TypeOK, Shape, LoopType
<1>6. Arrays'
  BY <1>1 DEF Arrays, Shape
<1>7. Statements'
  BY DEF Statements
<1> QED
  BY <1>1, <1>2, <1>4, <1>5, <1>6, <1>7 DEF IInv, CountsExact

\* The loop's dict is alive, by the loop's own reference.
LEMMA LoopIsLive ==
  ASSUME IInv, loop.dict # NULL
  PROVE  loop.dict \in Dict /\ rc[loop.dict] \in Nat /\ rc[loop.dict] > 0
<1> DEFINE d == loop.dict
<1>1. d \in Dict
  BY DEF IInv, TypeOK
<1>2. rc[d] = Cardinality(Names(d)) + Passing(d)
  BY <1>1 DEF IInv, CountsExact, DictRefs
<1>3. Cardinality(Names(d)) \in Nat
  BY NamesFinite
<1>4. Passing(d) \in Nat /\ Passing(d) > 0
  BY DEF Passing, One
<1> HIDE DEF d
<1>5. rc[d] \in Nat /\ rc[d] > 0
  BY <1>2, <1>3, <1>4
<1> QED
  BY <1>1, <1>5 DEF d

\* So is the dict a statement has evaluated or is filling.
LEMMA PendingIsLive ==
  ASSUME IInv, pending.op \in {"assign", "fill"}
  PROVE  pending.dict \in Dict /\ rc[pending.dict] \in Nat /\ rc[pending.dict] > 0
<1> DEFINE d == pending.dict
<1>1. d \in Dict
  BY PendingFacts
<1>2. rc[d] = Cardinality(Names(d)) + Passing(d)
  BY <1>1 DEF IInv, CountsExact, DictRefs
<1>3. Cardinality(Names(d)) \in Nat
  BY NamesFinite
<1>4. Passing(d) \in Nat /\ Passing(d) > 0
  BY DEF Passing, One
<1> HIDE DEF d
<1>5. rc[d] \in Nat /\ rc[d] > 0
  BY <1>2, <1>3, <1>4
<1> QED
  BY <1>1, <1>5 DEF d

LEMMA DictTypes ==
  ASSUME IInv
  PROVE  /\ rc \in [Dict -> Nat] /\ rc \in [Dict -> Int]
         /\ var \in [Var -> Dict \cup {NULL}] /\ loop \in LoopType
         /\ \A d \in Dict : rc[d] = 0 => keys[d] = << >>
BY DEF IInv, TypeOK, Arrays, LoopType

\* A loop whose dict keeps its entries as long as it is alive.
LEMMA LoopKept ==
  ASSUME IInv, UNCHANGED loop, rc' \in [Dict -> Int],
         \A d \in Dict : rc'[d] - Cardinality(Names(d)') - Passing(d)'
                           = rc[d] - Cardinality(Names(d)) - Passing(d),
         \A d \in Dict : rc'[d] > 0 => Keeps(d)
  PROVE  Visits'
<1>1. ASSUME loop.dict # NULL
      PROVE  Keeps(loop.dict)
  <2> DEFINE l == loop.dict
  <2>1. l \in Dict
    BY <1>1, LoopIsLive
  <2>2. \A d \in Dict : rc'[d] = DictRefs(d)'
    BY DictCountsKept
  <2>3. rc'[l] = Cardinality(Names(l)') + Passing(l)'
    BY <2>1, <2>2 DEF DictRefs
  <2>4. Cardinality(Names(l)') \in Nat
    BY NamesFinite
  <2>5. Passing(l)' \in Nat /\ Passing(l)' > 0
    BY <1>1 DEF Passing, One
  <2> DEFINE m == rc'[l]
             c == Cardinality(Names(l)')
             p == Passing(l)'
  <2> HIDE DEF m, c, p
  <2>6. m > 0
    BY <2>3, <2>4, <2>5 DEF m, c, p
  <2> QED
    BY <2>1, <2>6 DEF m
<1> QED
  BY <1>1, VisitsKept

\* The temporary's reference becomes the local's; the old one is given up.
LEMMA StoreDictStep ==
  ASSUME IInv, StoreDict
  PROVE  IInv'
<1> DEFINE x == pending.to
           d == var[x]
           e == pending.dict
<1>1. /\ pending.op = "assign" /\ pending' = Idle /\ x \in Var /\ e \in Dict
      /\ DecRef(d) /\ var' = [var EXCEPT ![x] = e] /\ UNCHANGED <<lost, held, loop>>
  BY PendingFacts DEF StoreDict
<1>2. d \in Dict \cup {NULL} /\ (d # NULL => rc[d] > 0)
  BY <1>1, DictTypes, NamedIsLive
<1>3. pending'.op = "idle" /\ pending' \in Pending /\ Quiet
  BY <1>1, PendingKinds DEF Quiet
<1> HIDE DEF d
<1>4. /\ StoreOK' /\ \A f \in Dict : rc'[f] > 0 => Keeps(f)
      /\ \A f \in Dict : rc'[f] = 0 => keys'[f] = << >>
      /\ rc' \in [Dict -> Int] /\ \A f \in Dict : rc'[f] = rc[f] - One(f = d)
      /\ vrc' \in [Val -> Int]
      /\ \A w \in Val : vrc'[w] - Cardinality(Holders(w)') = vrc[w] - Cardinality(Holders(w))
  BY <1>1, <1>2, <1>3, DecRefEffect
<1>5. \A f \in Dict : rc'[f] - Cardinality(Names(f)') - Passing(f)'
                        = rc[f] - Cardinality(Names(f)) - Passing(f)
  <2> TAKE f \in Dict
  <2>1. Cardinality(Names(f)') = Cardinality(Names(f)) - One(d = f) + One(e = f)
        /\ Cardinality(Names(f)) \in Nat /\ One(d = f) \in Nat /\ One(e = f) \in Nat
    BY <1>1, DictTypes, NamesMoved, NamesFinite DEF d, One
  <2>2. Passing(f)' = Passing(f) - One(e = f) /\ Passing(f) \in Nat
    BY <1>1, <1>3 DEF Passing, One
  <2>3. rc'[f] = rc[f] - One(d = f) /\ rc[f] \in Nat
    BY <1>4, DictTypes DEF One
  <2> QED
    BY <2>1, <2>2, <2>3
<1>6. Visits'
  <2>1. UNCHANGED loop
    BY <1>1
  <2> QED
    BY <1>4, <1>5, <2>1, LoopKept
<1>7. var' \in [Var -> Dict \cup {NULL}] /\ loop' \in LoopType
  BY <1>1, DictTypes
<1> QED
  BY <1>1, <1>3, <1>4, <1>5, <1>6, <1>7, DictStep

LEMMA NamesSame ==
  ASSUME UNCHANGED var, NEW d
  PROVE  Names(d)' = Names(d) /\ Cardinality(Names(d)) \in Nat
<1>1. Names(d)' = Names(d)
  BY DEF Names
<1> QED
  BY <1>1, NamesFinite

LEMMA DropVarStep ==
  ASSUME IInv, NEW x \in Var, DropVar(x)
  PROVE  IInv'
<1> DEFINE d == var[x]
<1>1. /\ Ready /\ d # NULL /\ DecRef(d) /\ var' = [var EXCEPT ![x] = NULL]
      /\ UNCHANGED <<lost, held, pending, loop>>
  BY DEF DropVar, Named
<1>2. d \in Dict /\ rc[d] > 0
  BY <1>1, NamedIsLive
<1>3. pending.op = "idle" /\ pending'.op = "idle" /\ pending' \in Pending /\ Quiet
  BY <1>1, PendingFacts DEF Quiet, IInv, TypeOK
<1> HIDE DEF d
<1>4. /\ StoreOK' /\ \A f \in Dict : rc'[f] > 0 => Keeps(f)
      /\ \A f \in Dict : rc'[f] = 0 => keys'[f] = << >>
      /\ rc' \in [Dict -> Int] /\ \A f \in Dict : rc'[f] = rc[f] - One(f = d)
      /\ vrc' \in [Val -> Int]
      /\ \A w \in Val : vrc'[w] - Cardinality(Holders(w)') = vrc[w] - Cardinality(Holders(w))
  BY <1>1, <1>2, <1>3, DecRefEffect
<1>5. \A f \in Dict : rc'[f] - Cardinality(Names(f)') - Passing(f)'
                        = rc[f] - Cardinality(Names(f)) - Passing(f)
  <2> TAKE f \in Dict
  <2>1. Cardinality(Names(f)') = Cardinality(Names(f)) - One(d = f) + One(NULL = f)
        /\ Cardinality(Names(f)) \in Nat /\ One(d = f) \in Nat /\ One(NULL = f) = 0
    BY <1>1, DictTypes, NamesMoved, NamesFinite DEF d, One
  <2>2. Passing(f)' = Passing(f) /\ Passing(f) \in Nat
    BY <1>1 DEF Passing, One
  <2>3. rc'[f] = rc[f] - One(d = f) /\ rc[f] \in Nat
    BY <1>4, DictTypes DEF One
  <2> QED
    BY <2>1, <2>2, <2>3
<1>6. Visits'
  <2>1. UNCHANGED loop
    BY <1>1
  <2> QED
    BY <1>4, <1>5, <2>1, LoopKept
<1>7. var' \in [Var -> Dict \cup {NULL}] /\ loop' \in LoopType
  BY <1>1, DictTypes
<1> QED
  BY <1>1, <1>3, <1>4, <1>5, <1>6, <1>7, DictStep

\* A temporary takes a reference to a dict.
LEMMA AssignVarStep ==
  ASSUME IInv, NEW x \in Var, NEW y \in Var, AssignVar(x, y)
  PROVE  IInv'
<1> DEFINE e == var[y]
<1>1. /\ Ready /\ e # NULL /\ rc' = Bump(rc, e, 1)
      /\ pending' = [op |-> "assign", to |-> x, dict |-> e]
      /\ UNCHANGED <<keys, values, text, vrc, lost, var, held, loop>>
  BY DEF AssignVar, Named, Assigning
<1>2. e \in Dict /\ rc[e] > 0
  BY <1>1, NamedIsLive
<1> HIDE DEF e
<1>3. /\ pending.op = "idle" /\ pending'.op = "assign" /\ pending'.dict = e
      /\ pending' \in Pending /\ Quiet
  BY <1>1, <1>2, PendingFacts DEF Quiet, Pending
<1>4. /\ StoreOK' /\ \A f \in Dict : Keeps(f)
      /\ \A w : Holders(w)' = Holders(w)
  BY <1>1, <1>3, StoreSame
<1>5. rc' \in [Dict -> Int] /\ \A f \in Dict : rc'[f] = rc[f] + One(e = f)
  BY <1>1, <1>2, DictTypes DEF Bump, One
<1>6. \A f \in Dict : rc'[f] - Cardinality(Names(f)') - Passing(f)'
                        = rc[f] - Cardinality(Names(f)) - Passing(f)
  <2> TAKE f \in Dict
  <2>1. Cardinality(Names(f)') = Cardinality(Names(f)) /\ Cardinality(Names(f)) \in Nat
    BY <1>1, NamesSame
  <2>2. Passing(f)' = Passing(f) + One(e = f) /\ Passing(f) \in Nat /\ One(e = f) \in Nat
    BY <1>1, <1>3 DEF Passing, One
  <2>3. rc'[f] = rc[f] + One(e = f) /\ rc[f] \in Nat
    BY <1>5, DictTypes
  <2> QED
    BY <2>1, <2>2, <2>3
<1>7. Visits' /\ loop' \in LoopType /\ var' \in [Var -> Dict \cup {NULL}] /\ vrc' \in [Val -> Int]
  BY <1>1, <1>4, LoopSame, DictTypes, ValueTypes
<1>8. \A f \in Dict : rc'[f] = 0 => keys'[f] = << >>
  BY <1>1, <1>5, DictTypes DEF One
<1>9. \A w \in Val : vrc'[w] - Cardinality(Holders(w)') = vrc[w] - Cardinality(Holders(w))
  BY <1>1, <1>4
<1> QED
  BY <1>1, <1>3, <1>4, <1>5, <1>6, <1>7, <1>8, <1>9, DictStep

\* A new dict, with the temporary's reference.
LEMMA NewDictCounts ==
  ASSUME IInv, NEW d \in Dict, NewDict(d), rc' = [rc EXCEPT ![d] = 1], UNCHANGED <<var, loop>>,
         pending.op = "idle", pending'.op \in {"assign", "fill"}, pending'.dict = d
  PROVE  /\ rc' \in [Dict -> Int] /\ \A f \in Dict : rc'[f] = 0 => rc[f] = 0 /\ f # d
         /\ \A f \in Dict : rc'[f] - Cardinality(Names(f)') - Passing(f)'
                              = rc[f] - Cardinality(Names(f)) - Passing(f)
<1>1. rc[d] = 0 /\ rc \in [Dict -> Nat]
  BY DictTypes DEF NewDict
<1>2. /\ rc' \in [Dict -> Int] /\ \A f \in Dict : rc'[f] = rc[f] + One(d = f)
      /\ \A f \in Dict : rc'[f] = 0 => rc[f] = 0 /\ f # d
  BY <1>1 DEF One
<1>3. ASSUME NEW f \in Dict
      PROVE  rc'[f] - Cardinality(Names(f)') - Passing(f)' = rc[f] - Cardinality(Names(f)) - Passing(f)
  <2>1. Cardinality(Names(f)') = Cardinality(Names(f)) /\ Cardinality(Names(f)) \in Nat
    BY NamesSame
  <2>2. Passing(f)' = Passing(f) + One(d = f) /\ Passing(f) \in Nat /\ One(d = f) \in Nat
    BY DEF Passing, One
  <2>3. rc'[f] = rc[f] + One(d = f) /\ rc[f] \in Nat
    BY <1>1, <1>2
  <2> QED
    BY <2>1, <2>2, <2>3
<1> QED
  BY <1>2, <1>3

LEMMA AssignCopyStep ==
  ASSUME IInv, NEW x \in Var, NEW y \in Var, NEW d \in Dict, AssignCopy(x, y, d)
  PROVE  IInv'
<1> DEFINE e == var[y]
<1>1. /\ Ready /\ e # NULL /\ NewDict(d) /\ rc' = [rc EXCEPT ![d] = 1]
      /\ pending' = [op |-> "assign", to |-> x, dict |-> d]
      /\ values' = [values EXCEPT ![d] = values[e]]
      /\ vrc' = [v \in Val |-> vrc[v] + Slots(e, v)]
      /\ UNCHANGED <<lost, var, held, loop>>
  BY DEF AssignCopy, Named, Assigning
<1>2. PICK to \in [Entries(e) -> {a \in KeyAddr : NewKey(a)}] :
        /\ \A i, j \in DOMAIN to : to[i] = to[j] => i = j
        /\ keys' = [keys EXCEPT ![d] = to]
        /\ text' = [a \in KeyAddr |-> IF \E i \in DOMAIN to : to[i] = a
                                      THEN text[keys[e][CHOOSE i \in DOMAIN to : to[i] = a]]
                                      ELSE text[a]]
  BY DEF AssignCopy
<1>3. e \in Dict /\ e # d /\ keys[d] = << >>
  BY <1>1, NamedIsLive, DictTypes DEF NewDict
<1> HIDE DEF e
<1>4. /\ pending.op = "idle" /\ pending'.op = "assign" /\ pending'.dict = d
      /\ pending' \in Pending /\ Quiet
  BY <1>1, PendingFacts DEF Quiet, Pending
<1>5. /\ StoreOK' /\ \A f \in Dict : Keeps(f)
      /\ \A f \in Dict : f # d => keys'[f] = keys[f]
      /\ \A w : Cardinality(Holders(w)') = Cardinality(Holders(w)) + Slots(e, w)
  BY <1>1, <1>2, <1>3, <1>4, CopyEffect
<1>6. /\ rc' \in [Dict -> Int] /\ \A f \in Dict : rc'[f] = 0 => rc[f] = 0 /\ f # d
      /\ \A f \in Dict : rc'[f] - Cardinality(Names(f)') - Passing(f)'
                           = rc[f] - Cardinality(Names(f)) - Passing(f)
  BY <1>1, <1>4, NewDictCounts
<1>7. \A w \in Val : Slots(e, w) \in Nat /\ Cardinality(Holders(w)) \in Nat
  BY <1>3, IInvShape, ColumnFacts, HoldersAreSlots
<1>8. /\ vrc' \in [Val -> Int]
      /\ \A w \in Val : vrc'[w] - Cardinality(Holders(w)') = vrc[w] - Cardinality(Holders(w))
  <2>1. \A w \in Val : vrc'[w] = vrc[w] + Slots(e, w)
    BY <1>1
  <2>2. vrc' \in [Val -> Int]
    BY <1>1, <1>7, ValueTypes
  <2> QED
    BY <1>5, <1>7, <2>1, <2>2, ValueTypes
<1>9. Visits' /\ loop' \in LoopType /\ var' \in [Var -> Dict \cup {NULL}]
  BY <1>1, <1>5, LoopSame, DictTypes
<1>10. \A f \in Dict : rc'[f] = 0 => keys'[f] = << >>
  BY <1>5, <1>6, DictTypes
<1> QED
  BY <1>1, <1>4, <1>5, <1>6, <1>8, <1>9, <1>10, DictStep

LEMMA AssignLiteralStep ==
  ASSUME IInv, NEW x \in Var, NEW d \in Dict, NEW ks \in Literals, AssignLiteral(x, d, ks)
  PROVE  IInv'
<1>1. /\ Ready /\ NewDict(d) /\ (ks = << >> \/ held # NULL) /\ rc' = [rc EXCEPT ![d] = 1]
      /\ pending' = [op |-> "fill", to |-> x, dict |-> d, keys |-> ks]
      /\ UNCHANGED <<keys, values, text, vrc, lost, var, held, loop>>
  BY DEF AssignLiteral
<1>2. ks \in Seq(Text)
  <2>1. PICK n \in 0 .. MaxLen : ks \in [1 .. n -> Text]
    BY DEF Literals
  <2>2. n \in Nat
    BY Sizes
  <2> QED
    BY <2>1, <2>2
<1>3. /\ pending.op = "idle" /\ pending'.op = "fill" /\ pending'.dict = d /\ pending'.keys = ks
      /\ pending' \in Pending /\ Quiet
  BY <1>1, <1>2, PendingFacts DEF Quiet, Pending
<1>4. /\ StoreOK' /\ \A f \in Dict : Keeps(f)
      /\ \A w : Holders(w)' = Holders(w)
  BY <1>1, <1>3, StoreSame
<1>5. /\ rc' \in [Dict -> Int] /\ \A f \in Dict : rc'[f] = 0 => rc[f] = 0 /\ f # d
      /\ \A f \in Dict : rc'[f] - Cardinality(Names(f)') - Passing(f)'
                           = rc[f] - Cardinality(Names(f)) - Passing(f)
  BY <1>1, <1>3, NewDictCounts
<1>6. Visits' /\ loop' \in LoopType /\ var' \in [Var -> Dict \cup {NULL}] /\ vrc' \in [Val -> Int]
  BY <1>1, <1>4, LoopSame, DictTypes, ValueTypes
<1>7. \A f \in Dict : rc'[f] = 0 => keys'[f] = << >>
  BY <1>1, <1>5, DictTypes
<1>8. \A w \in Val : vrc'[w] - Cardinality(Holders(w)') = vrc[w] - Cardinality(Holders(w))
  BY <1>1, <1>4
<1> QED
  BY <1>1, <1>3, <1>4, <1>5, <1>6, <1>7, <1>8, DictStep

\* No dict is named, created or given up.
LEMMA DictCountsSame ==
  ASSUME IInv, UNCHANGED <<rc, var, loop>>,
         pending.op \in {"assign", "fill"} <=> pending'.op \in {"assign", "fill"},
         pending.op \in {"assign", "fill"} => pending'.dict = pending.dict
  PROVE  /\ rc' \in [Dict -> Int]
         /\ \A f \in Dict : rc'[f] - Cardinality(Names(f)') - Passing(f)'
                              = rc[f] - Cardinality(Names(f)) - Passing(f)
<1>1. \A f \in Dict : Passing(f)' = Passing(f)
  BY DEF Passing, One
<1>2. \A f \in Dict : Names(f)' = Names(f)
  BY DEF Names
<1> QED
  BY <1>1, <1>2, DictTypes

LEMMA FillPairStep ==
  ASSUME IInv, FillPair
  PROVE  IInv'
<1> DEFINE d == pending.dict
           k == Head(pending.keys)
<1>1. /\ pending.op = "fill" /\ pending.keys # << >> /\ pending.keys \in Seq(Text)
      /\ pending.to \in Var /\ d \in Dict
      /\ pending' = [pending EXCEPT !.keys = Tail(@)] /\ UNCHANGED <<lost, var, held, loop>>
  BY PendingFacts DEF FillPair
<1>2. k \in Text /\ Tail(pending.keys) \in Seq(Text) /\ held \in Val /\ rc[d] > 0
  <2>1. held # NULL
    BY <1>1 DEF IInv, Statements
  <2> QED
    BY <1>1, <2>1, ValueTypes, PendingIsLive
<1>3. /\ pending'.op = "fill" /\ pending'.dict = d /\ pending'.to = pending.to
      /\ pending' \in Pending /\ Quiet
  <2>1. pending \in [op : {"fill"}, to : Var, dict : Dict, keys : Seq(Text)]
    BY <1>1 DEF IInv, TypeOK, Pending, Idle
  <2>2. pending' \in [op : {"fill"}, to : Var, dict : Dict, keys : Seq(Text)]
        /\ pending'.dict = d /\ pending'.to = pending.to
    BY <1>1, <1>2, <2>1
  <2> QED
    BY <1>1, <2>2 DEF Pending, Quiet
<1> HIDE DEF d, k
<1>4. /\ StoreOK' /\ (\A f \in Dict : Keeps(f)) /\ rc' = rc
      /\ \A f \in Dict : f # d => keys'[f] = keys[f]
      /\ vrc' \in [Val -> Int]
      /\ \A w \in Val : vrc'[w] - Cardinality(Holders(w)') = vrc[w] - Cardinality(Holders(w))
  <2>1. CASE Has(d, k)
    <3>1. UNCHANGED <<rc, keys, values, text, vrc>>
      BY <1>1, <2>1 DEF FillPair, store, d, k
    <3> QED
      BY <1>3, <3>1, StoreSame, ValueTypes
  <2>2. CASE ~Has(d, k)
    <3>1. Insert(d, k, held) /\ vrc' = Bump(vrc, held, 1) /\ rc' = rc
      BY <1>1, <2>2 DEF FillPair, Insert, d, k
    <3>2. /\ StoreOK' /\ \A f \in Dict : Keeps(f)
          /\ \A f \in Dict : f # d => keys'[f] = keys[f]
          /\ \A w : Cardinality(Holders(w)') = Cardinality(Holders(w)) + One(held = w)
      BY <1>1, <1>2, <1>3, <2>2, <3>1, InsertEffect DEF d
    <3>3. vrc' \in [Val -> Int] /\ \A w \in Val : vrc'[w] = vrc[w] + One(held = w)
      BY <1>2, <3>1, ValueTypes DEF Bump, One
    <3>4. \A w \in Val : vrc'[w] - Cardinality(Holders(w)') = vrc[w] - Cardinality(Holders(w))
      <4> TAKE w \in Val
      <4>1. /\ Cardinality(Holders(w)) \in Nat /\ One(held = w) \in Nat /\ vrc[w] \in Nat
            /\ Cardinality(Holders(w)') = Cardinality(Holders(w)) + One(held = w)
            /\ vrc'[w] = vrc[w] + One(held = w)
        BY <3>2, <3>3, IInvShape, HoldersAreSlots, ValueTypes DEF One
      <4> QED
        BY <4>1
    <3> QED
      BY <3>1, <3>2, <3>3, <3>4
  <2> QED
    BY <2>1, <2>2
<1>5. /\ rc' \in [Dict -> Int]
      /\ \A f \in Dict : rc'[f] - Cardinality(Names(f)') - Passing(f)'
                           = rc[f] - Cardinality(Names(f)) - Passing(f)
  BY <1>1, <1>3, <1>4, DictCountsSame DEF d
<1>6. Visits' /\ loop' \in LoopType /\ var' \in [Var -> Dict \cup {NULL}]
  BY <1>1, <1>4, LoopSame, DictTypes
<1>7. \A f \in Dict : rc'[f] = 0 => keys'[f] = << >>
  BY <1>2, <1>4, DictTypes
<1>8. held # NULL /\ UNCHANGED <<lost, held>>
  BY <1>1, <1>2
<1> QED
  BY <1>1, <1>3, <1>4, <1>5, <1>6, <1>7, <1>8, DictStep

LEMMA FilledStep ==
  ASSUME IInv, Filled
  PROVE  IInv'
<1>1. /\ pending.op = "fill" /\ pending.to \in Var /\ pending.dict \in Dict
      /\ pending' = [op |-> "assign", to |-> pending.to, dict |-> pending.dict]
      /\ UNCHANGED <<rc, keys, values, text, vrc, lost, var, held, loop>>
  BY PendingFacts DEF Filled, Assigning, store
<1>2. /\ pending'.op = "assign" /\ pending'.dict = pending.dict /\ pending' \in Pending /\ Quiet
  BY <1>1 DEF Quiet, Pending
<1>3. /\ StoreOK' /\ \A f \in Dict : Keeps(f)
      /\ \A w : Holders(w)' = Holders(w)
  BY <1>1, <1>2, StoreSame
<1>4. /\ rc' \in [Dict -> Int]
      /\ \A f \in Dict : rc'[f] - Cardinality(Names(f)') - Passing(f)'
                           = rc[f] - Cardinality(Names(f)) - Passing(f)
  BY <1>1, <1>2, DictCountsSame
<1>5. Visits' /\ loop' \in LoopType /\ var' \in [Var -> Dict \cup {NULL}] /\ vrc' \in [Val -> Int]
  BY <1>1, <1>3, LoopSame, DictTypes, ValueTypes
<1>6. \A f \in Dict : rc'[f] = 0 => keys'[f] = << >>
  BY <1>1, DictTypes
<1>7. \A w \in Val : vrc'[w] - Cardinality(Holders(w)') = vrc[w] - Cardinality(Holders(w))
  BY <1>1, <1>3
<1> QED
  BY <1>1, <1>2, <1>3, <1>4, <1>5, <1>6, <1>7, DictStep

-----------------------------------------------------------------------------
(***************************************************************************)
(* The for loop.                                                           *)
(***************************************************************************)
LEMMA NoLoopType == NoLoop \in LoopType /\ NoLoop.dict = NULL /\ NoLoop.idx = 0 /\ NoLoop.seen = << >>
BY DEF NoLoop, LoopType

LEMMA ForStartStep ==
  ASSUME IInv, NEW x \in Var, ForStart(x)
  PROVE  IInv'
<1> DEFINE d == var[x]
<1>1. /\ Ready /\ d # NULL /\ rc' = Bump(rc, d, 1) /\ loop = NoLoop
      /\ loop' = [NoLoop EXCEPT !.dict = d]
      /\ UNCHANGED <<keys, values, text, vrc, lost, var, held, pending>>
  BY DEF ForStart, Named
<1>2. d \in Dict /\ rc[d] > 0
  BY <1>1, NamedIsLive
<1> HIDE DEF d
<1>3. pending.op = "idle" /\ pending' = pending /\ pending' \in Pending /\ Quiet
  BY <1>1, PendingFacts DEF Quiet, IInv, TypeOK
<1>4. StoreOK' /\ \A w : Holders(w)' = Holders(w)
  BY <1>1, <1>3, StoreSame
<1>5. /\ loop' \in LoopType /\ loop'.dict = d /\ loop'.idx = 0 /\ loop'.seen = << >>
  <2>1. loop' = [dict |-> d, idx |-> 0, name |-> NULL, seen |-> << >>, kept |-> TRUE]
    BY <1>1 DEF NoLoop
  <2>2. << >> \in Seq(Text)
    OBVIOUS
  <2> QED
    BY <1>2, <2>1, <2>2 DEF LoopType
<1>6. rc' \in [Dict -> Int] /\ \A f \in Dict : rc'[f] = rc[f] + One(d = f)
  BY <1>1, <1>2, DictTypes DEF Bump, One
<1>7. \A f \in Dict : rc'[f] - Cardinality(Names(f)') - Passing(f)'
                        = rc[f] - Cardinality(Names(f)) - Passing(f)
  <2> TAKE f \in Dict
  <2>1. Cardinality(Names(f)') = Cardinality(Names(f)) /\ Cardinality(Names(f)) \in Nat
    BY <1>1, NamesSame
  <2>2. Passing(f)' = Passing(f) + One(d = f) /\ Passing(f) \in Nat /\ One(d = f) \in Nat
    BY <1>1, <1>3, <1>5, NoLoopType DEF Passing, One
  <2>3. rc'[f] = rc[f] + One(d = f) /\ rc[f] \in Nat
    BY <1>6, DictTypes
  <2> QED
    BY <2>1, <2>2, <2>3
<1>8. Visits'
  <2>1. Len(keys[d]) \in Nat
    BY <1>2, IInvShape, EntryFacts
  <2> QED
    BY <1>1, <1>5, <2>1 DEF Visits
<1>9. \A f \in Dict : rc'[f] = 0 => keys'[f] = << >>
  BY <1>1, <1>6, DictTypes DEF One
<1>10. \A w \in Val : vrc'[w] - Cardinality(Holders(w)') = vrc[w] - Cardinality(Holders(w))
  BY <1>1, <1>4
<1>11. var' \in [Var -> Dict \cup {NULL}] /\ vrc' \in [Val -> Int]
  BY <1>1, DictTypes, ValueTypes
<1> QED
  BY <1>1, <1>3, <1>4, <1>5, <1>6, <1>7, <1>8, <1>9, <1>10, <1>11, DictStep

LEMMA ForNextStep ==
  ASSUME IInv, ForNext
  PROVE  IInv'
<1> DEFINE d == loop.dict
           n == loop.idx + 1
           a == keys[d][n]
<1>1. /\ Ready /\ d # NULL /\ loop.idx < Len(keys[d])
      /\ loop' = [loop EXCEPT !.idx = n, !.name = a, !.seen = Append(@, text[a])]
      /\ UNCHANGED <<rc, keys, values, text, vrc, lost, var, held, pending>>
  BY DEF ForNext, store
<1>2. /\ d \in Dict /\ loop.idx \in Nat /\ loop.seen \in Seq(Text) /\ loop \in LoopType
  BY <1>1, DictTypes, LoopIsLive DEF LoopType
<1>3. n \in Entries(d) /\ n \in Nat /\ n > 0 /\ a \in KeyAddr /\ text[a] \in Text /\ n <= Len(keys[d])
  <2>1. /\ Entries(d) = 1 .. Len(keys[d]) /\ Len(keys[d]) \in Nat
        /\ \A i \in Entries(d) : keys[d][i] \in KeyAddr
    BY <1>2, IInvShape, EntryFacts
  <2>2. n \in Entries(d) /\ n \in Nat /\ n > 0 /\ n <= Len(keys[d])
    BY <1>1, <1>2, <2>1
  <2>3. text[a] # NULL /\ text \in [KeyAddr -> Text \cup {NULL}]
    BY <1>2, <2>2 DEF IInv, Owned, TypeOK
  <2> QED
    BY <2>1, <2>2, <2>3
<1>4. /\ loop' \in LoopType /\ loop'.dict = d /\ loop'.idx = n /\ loop'.name = a
      /\ loop'.seen = Append(loop.seen, text[a]) /\ loop'.kept = loop.kept
  <2>1. Append(loop.seen, text[a]) \in Seq(Text)
    BY <1>2, <1>3, AppendOne
  <2> HIDE DEF n, a
  <2>2. loop' = [loop EXCEPT !.idx = n, !.name = a, !.seen = Append(loop.seen, text[a])]
    BY <1>1
  <2> DEFINE t == Append(loop.seen, text[a])
  <2> HIDE DEF t
  <2>3. loop' = [loop EXCEPT !.idx = n, !.name = a, !.seen = t] /\ t \in Seq(Text)
    BY <2>1, <2>2 DEF t
  <2>4. loop' \in LoopType /\ loop'.dict = d /\ loop'.idx = n /\ loop'.name = a /\ loop'.seen = t
        /\ loop'.kept = loop.kept
    BY <1>2, <1>3, <2>3 DEF LoopType
  <2> QED
    BY <2>4 DEF t
<1>5. pending.op = "idle" /\ pending' = pending /\ pending' \in Pending /\ Quiet
  BY <1>1, PendingFacts DEF Quiet, IInv, TypeOK
<1>6. StoreOK' /\ \A w : Holders(w)' = Holders(w)
  BY <1>1, <1>5, StoreSame
<1>7. \A f \in Dict : Passing(f)' = Passing(f) /\ Names(f)' = Names(f)
  BY <1>1, <1>4 DEF Passing, One, Names
<1>8. ASSUME loop.kept
      PROVE  loop'.seen = [i \in 1 .. n |-> text[keys[d][i]]]
  <2>1. loop.seen = [i \in 1 .. loop.idx |-> text[keys[d][i]]]
    BY <1>1, <1>8 DEF IInv, Visits
  <2>2. Len(loop.seen) = loop.idx /\ \A i \in 1 .. loop.idx : loop.seen[i] = text[keys[d][i]]
    BY <1>2, <2>1
  <2>3. /\ Len(loop'.seen) = n /\ loop'.seen \in Seq(Text)
        /\ \A j \in 1 .. loop.idx : loop'.seen[j] = loop.seen[j]
        /\ loop'.seen[n] = text[a]
    BY <1>2, <1>3, <1>4, <2>2, AppendOne
  <2>4. \A i \in 1 .. n : loop'.seen[i] = text[keys[d][i]]
    BY <1>2, <2>2, <2>3
  <2> QED
    BY <1>3, <2>3, <2>4
<1>9. Visits'
  BY <1>1, <1>3, <1>4, <1>8 DEF Visits
<1>10. \A f \in Dict : rc'[f] = 0 => keys'[f] = << >>
  BY <1>1, DictTypes
<1>11. \A f \in Dict : rc'[f] - Cardinality(Names(f)') - Passing(f)'
                         = rc[f] - Cardinality(Names(f)) - Passing(f)
  BY <1>1, <1>7
<1>12. \A w \in Val : vrc'[w] - Cardinality(Holders(w)') = vrc[w] - Cardinality(Holders(w))
  BY <1>1, <1>6
<1>13. /\ var' \in [Var -> Dict \cup {NULL}] /\ vrc' \in [Val -> Int] /\ rc' \in [Dict -> Int]
  BY <1>1, DictTypes, ValueTypes
<1> QED
  BY <1>1, <1>4, <1>5, <1>6, <1>9, <1>10, <1>11, <1>12, <1>13, DictStep

LEMMA ForEndStep ==
  ASSUME IInv, ForEnd
  PROVE  IInv'
<1> DEFINE d == loop.dict
<1>1. /\ Ready /\ d # NULL /\ DecRef(d) /\ loop' = NoLoop
      /\ UNCHANGED <<lost, var, held, pending>>
  BY DEF ForEnd
<1>2. d \in Dict /\ rc[d] > 0
  BY <1>1, LoopIsLive
<1>3. pending.op = "idle" /\ pending' = pending /\ pending' \in Pending /\ Quiet
  BY <1>1, PendingFacts DEF Quiet, IInv, TypeOK
<1>4. /\ StoreOK' /\ \A f \in Dict : rc'[f] = 0 => keys'[f] = << >>
      /\ rc' \in [Dict -> Int] /\ \A f \in Dict : rc'[f] = rc[f] - One(f = d)
      /\ vrc' \in [Val -> Int]
      /\ \A w \in Val : vrc'[w] - Cardinality(Holders(w)') = vrc[w] - Cardinality(Holders(w))
  BY <1>1, <1>2, <1>3, DecRefEffect
<1>5. \A f \in Dict : rc'[f] - Cardinality(Names(f)') - Passing(f)'
                        = rc[f] - Cardinality(Names(f)) - Passing(f)
  <2> TAKE f \in Dict
  <2>1. Cardinality(Names(f)') = Cardinality(Names(f)) /\ Cardinality(Names(f)) \in Nat
    BY <1>1, NamesSame
  <2>2. Passing(f)' = Passing(f) - One(f = d) /\ Passing(f) \in Nat /\ One(f = d) \in Nat
    BY <1>1, <1>3, NoLoopType DEF Passing, One
  <2>3. rc'[f] = rc[f] - One(f = d) /\ rc[f] \in Nat
    BY <1>4, DictTypes
  <2> QED
    BY <2>1, <2>2, <2>3
<1>6. Visits' /\ loop' \in LoopType /\ var' \in [Var -> Dict \cup {NULL}]
  BY <1>1, NoLoopType, DictTypes DEF Visits
<1> QED
  BY <1>1, <1>3, <1>4, <1>5, <1>6, DictStep

-----------------------------------------------------------------------------
(***************************************************************************)
(* The invariant.                                                          *)
(***************************************************************************)
LEMMA InitIInv ==
  ASSUME Init
  PROVE  IInv
<1>1. /\ \A d \in Dict : Entries(d) = {} /\ KeysOf(d) = {} /\ Len(keys[d]) = 0 /\ Len(values[d]) = 0
      /\ pending.op = "idle" /\ pending \in Pending /\ loop \in LoopType
      /\ loop.dict = NULL
  <2>1. loop \in LoopType /\ loop.dict = NULL /\ pending.op = "idle" /\ pending \in Pending
    BY NoLoopType, PendingKinds DEF Init
  <2>2. \A d \in Dict : Entries(d) = {} /\ Len(keys[d]) = 0 /\ Len(values[d]) = 0
    BY DEF Init, Entries
  <2> QED
    BY <2>1, <2>2 DEF KeysOf
<1>2. TypeOK
  <2>1. \A S : << >> \in Seq(S)
    OBVIOUS
  <2>2. keys \in [Dict -> Seq(KeyAddr)] /\ values \in [Dict -> Seq(Val)]
    BY <2>1 DEF Init
  <2> QED
    BY <1>1, <2>2 DEF Init, TypeOK, LoopType
<1>3. \A v \in Val : Cardinality(Holders(v)) = 0
  <2>1. \A v \in Val : Holders(v) = {}
    BY <1>1 DEF Holders, Places
  <2> QED
    BY <2>1, FS_EmptySet
<1>4. \A d \in Dict : Cardinality(Names(d)) = 0
  <2>1. \A d \in Dict : Names(d) = {}
    BY DEF Init, Names
  <2> QED
    BY <2>1, FS_EmptySet
<1>5. CountsExact
  <2>1. \A d \in Dict : Passing(d) = 0 /\ rc[d] = 0
    BY <1>1 DEF Init, Passing, One
  <2>2. \A v \in Val : Loose(v) = 0 /\ vrc[v] = 0
    BY <1>1 DEF Init, Loose, One
  <2> QED
    BY <1>3, <1>4, <2>1, <2>2 DEF CountsExact, DictRefs, ValueRefs
<1>6. Arrays
  BY <1>1, Sizes DEF Init, Arrays
<1>7. Owned
  BY <1>1 DEF Init, Owned
<1>8. Statements /\ Visits
  BY <1>1 DEF Statements, Visits
<1> QED
  BY <1>2, <1>5, <1>6, <1>7, <1>8 DEF IInv

LEMMA StutterIInv ==
  ASSUME IInv, UNCHANGED vars
  PROVE  IInv'
<1>1. UNCHANGED <<rc, keys, values, text, vrc, lost, var, held, pending, loop>>
  BY DEF vars
<1>2. TypeOK' /\ Arrays' /\ Statements' /\ Visits'
  BY <1>1 DEF IInv, TypeOK, Arrays, Statements, Visits, Entries
<1>3. Owned'
  BY <1>1 DEF IInv, Owned, Entries, KeysOf
<1>4. CountsExact'
  BY <1>1 DEF IInv, CountsExact, DictRefs, ValueRefs, Names, Holders, Places, Passing, Loose, Open, Entries
<1> QED
  BY <1>2, <1>3, <1>4 DEF IInv

LEMMA NextIInv ==
  ASSUME IInv, Next
  PROVE  IInv'
<1>1. CASE ValueStatement
  <2>1. CASE StoreHeld
    BY <2>1, StoreHeldStep
  <2>2. CASE Discard
    BY <2>2, DiscardStep
  <2>3. CASE DropHeld
    BY <2>3, DropHeldStep
  <2>4. ASSUME NEW v \in Val, AssignFresh(v)
        PROVE  IInv'
    BY <2>4, AssignFreshStep
  <2>5. ASSUME NEW x \in Var, NEW k \in Text,
               AssignGet(x, k) \/ AssignIndex(x, k) \/ AssignGetOr(x, k) \/ Pop(x, k)
        PROVE  IInv'
    BY <2>5, AssignGetStep, AssignIndexStep, AssignGetOrStep, PopStep
  <2>6. ASSUME NEW x \in Var, NEW k \in Text, NEW f \in Val, AssignGetOrFresh(x, k, f)
        PROVE  IInv'
    BY <2>6, AssignGetOrFreshStep
  <2> QED
    BY <1>1, <2>1, <2>2, <2>3, <2>4, <2>5, <2>6 DEF ValueStatement
<1>2. CASE EntryStatement
  <2>1. CASE StoreEntry
    BY <2>1, StoreEntryStep
  <2>2. ASSUME NEW x \in Var, Clear(x)
        PROVE  IInv'
    BY <2>2, ClearStep
  <2>3. ASSUME NEW x \in Var, NEW k \in Text, SetHeld(x, k)
        PROVE  IInv'
    BY <2>3, SetHeldStep
  <2>4. ASSUME NEW x \in Var, NEW k \in Text, NEW v \in Val, SetFresh(x, k, v)
        PROVE  IInv'
    BY <2>4, SetFreshStep
  <2>5. ASSUME NEW x \in Var, NEW k \in Text, NEW y \in Var, NEW l \in Text, SetGet(x, k, y, l)
        PROVE  IInv'
    BY <2>5, SetGetStep
  <2> QED
    BY <1>2, <2>1, <2>2, <2>3, <2>4, <2>5 DEF EntryStatement
<1>3. CASE DictStatement
  <2>1. CASE StoreDict
    BY <2>1, StoreDictStep
  <2>2. CASE FillPair
    BY <2>2, FillPairStep
  <2>3. CASE Filled
    BY <2>3, FilledStep
  <2>4. ASSUME NEW x \in Var, DropVar(x)
        PROVE  IInv'
    BY <2>4, DropVarStep
  <2>5. ASSUME NEW x \in Var, NEW y \in Var, AssignVar(x, y)
        PROVE  IInv'
    BY <2>5, AssignVarStep
  <2>6. ASSUME NEW x \in Var, NEW y \in Var, NEW d \in Dict, AssignCopy(x, y, d)
        PROVE  IInv'
    BY <2>6, AssignCopyStep
  <2>7. ASSUME NEW x \in Var, NEW d \in Dict, NEW ks \in Literals, AssignLiteral(x, d, ks)
        PROVE  IInv'
    BY <2>7, AssignLiteralStep
  <2> QED
    BY <1>3, <2>1, <2>2, <2>3, <2>4, <2>5, <2>6, <2>7 DEF DictStatement
<1>4. CASE ForStatement
  <2>1. CASE ForNext
    BY <2>1, ForNextStep
  <2>2. CASE ForEnd
    BY <2>2, ForEndStep
  <2>3. ASSUME NEW x \in Var, ForStart(x)
        PROVE  IInv'
    BY <2>3, ForStartStep
  <2> QED
    BY <1>4, <2>1, <2>2, <2>3 DEF ForStatement
<1> QED
  BY <1>1, <1>2, <1>3, <1>4 DEF Next

(***************************************************************************)
(* IInv is an invariant: it holds at the start and every statement, or     *)
(* half of one, keeps it.                                                  *)
(***************************************************************************)
THEOREM Inductive == Spec => []IInv
<1>1. Init => IInv
  BY InitIInv
<1>2. IInv /\ [Next]_vars => IInv'
  BY NextIInv, StutterIInv
<1> QED
  BY <1>1, <1>2, PTL DEF Spec

(***************************************************************************)
(* The runtime's reference counts are the references that exist, for any   *)
(* program over dicts: no retain or release is forgotten.                  *)
(***************************************************************************)
THEOREM Exactness == Spec => []CountsExact
<1>1. IInv => CountsExact
  BY DEF IInv
<1> QED
  BY <1>1, Inductive, PTL

\* A value that something holds is allocated.
LEMMA HeldIsLive ==
  ASSUME IInv, NEW v \in Val, Cardinality(Holders(v)) # 0 \/ Loose(v) > 0
  PROVE  vrc[v] > 0
<1>1. vrc[v] = Cardinality(Holders(v)) + Loose(v)
  BY DEF IInv, CountsExact, ValueRefs
<1>2. Cardinality(Holders(v)) \in Nat
  BY IInvShape, HoldersAreSlots
<1>3. Loose(v) \in Nat
  BY ValueTypes DEF Loose, One
<1> QED
  BY <1>1, <1>2, <1>3

LEMMA IInvNoDangling ==
  ASSUME IInv
  PROVE  NoDangling
<1>1. \A x \in Var : var[x] # NULL => rc[var[x]] > 0
  BY NamedIsLive
<1>2. loop.dict # NULL => rc[loop.dict] > 0
  BY LoopIsLive
<1>3. pending.op \in {"slot", "assign", "fill"} => rc[pending.dict] > 0
  BY PendingIsLive DEF IInv, Statements
<1>4. held # NULL => vrc[held] > 0
  <2> SUFFICES ASSUME held # NULL
               PROVE  vrc[held] > 0
    OBVIOUS
  <2>1. held \in Val
    BY ValueTypes
  <2>2. Loose(held) > 0
    BY <2>1, ValueTypes DEF Loose, One
  <2> QED
    BY <2>1, <2>2, HeldIsLive
<1>5. pending.op \in {"local", "discard", "slot"} => vrc[pending.val] > 0
  <2> SUFFICES ASSUME pending.op \in {"local", "discard", "slot"}
               PROVE  vrc[pending.val] > 0
    OBVIOUS
  <2>1. pending.val \in Val
    BY PendingFacts
  <2>2. CASE pending.op = "slot" /\ ~pending.owned
    <3>1. pending.val = held
      BY <2>2 DEF IInv, Statements
    <3> QED
      BY <1>4, <2>1, <3>1
  <2>3. CASE ~(pending.op = "slot" /\ ~pending.owned)
    <3>1. Loose(pending.val) > 0
      BY <2>1, <2>3, ValueTypes DEF Loose, One
    <3> QED
      BY <2>1, <3>1, HeldIsLive
  <2> QED
    BY <2>2, <2>3
<1>6. ASSUME NEW d \in Dict, NEW i \in Entries(d), ~Open(d, i)
      PROVE  vrc[values[d][i]] > 0
  <2>1. values[d][i] \in Val
    BY IInvShape, EntryFacts
  <2>2. <<d, i>> \in Holders(values[d][i])
    BY <1>6 DEF Holders, Places
  <2>3. Cardinality(Holders(values[d][i])) # 0
    BY <2>2, IInvShape, HoldersAreSlots, FS_EmptySet
  <2> QED
    BY <2>1, <2>3, HeldIsLive
<1> QED
  BY <1>1, <1>2, <1>3, <1>4, <1>5, <1>6 DEF NoDangling

(***************************************************************************)
(* Nothing a program still points to has been freed.                       *)
(***************************************************************************)
THEOREM Safety == Spec => []NoDangling
<1>1. IInv => NoDangling
  BY IInvNoDangling
<1> QED
  BY <1>1, Inductive, PTL

LEMMA IInvKeysOwnedOnce ==
  ASSUME IInv
  PROVE  KeysOwnedOnce
<1>1. Owned
  BY DEF IInv
<1>2. ASSUME NEW a \in KeyAddr
      PROVE  Cardinality({p \in Places : keys[p[1]][p[2]] = a}) = One(text[a] # NULL)
  <2> DEFINE P == {p \in Places : keys[p[1]][p[2]] = a}
  <2>1. \A p \in Places : p[1] \in Dict /\ p[2] \in Entries(p[1]) /\ p = <<p[1], p[2]>>
    BY DEF Places
  <2>2. CASE text[a] # NULL
    <3>1. PICK d \in Dict : a \in KeysOf(d)
      BY <1>1, <2>2 DEF Owned
    <3>2. PICK i \in Entries(d) : keys[d][i] = a
      BY <3>1 DEF KeysOf
    <3>3. <<d, i>> \in P
      BY <3>2 DEF Places
    <3>4. \A p \in P : p = <<d, i>>
      BY <1>1, <2>1, <3>2 DEF Owned
    <3>5. P = {<<d, i>>}
      BY <3>3, <3>4
    <3> QED
      BY <2>2, <3>5, FS_Singleton DEF One
  <2>3. CASE text[a] = NULL
    <3>1. P = {}
      BY <1>1, <2>1, <2>3 DEF Owned
    <3> QED
      BY <2>3, <3>1, FS_EmptySet DEF One
  <2> QED
    BY <2>2, <2>3
<1>3. \A d \in Dict : \A i, j \in Entries(d) : text[keys[d][i]] = text[keys[d][j]] => i = j
  BY <1>1 DEF Owned
<1> QED
  BY <1>2, <1>3 DEF KeysOwnedOnce

(***************************************************************************)
(* Every key copy belongs to one entry of one dict, and the keys of a dict *)
(* are different.                                                          *)
(***************************************************************************)
THEOREM KeyOwnership == Spec => []KeysOwnedOnce
<1>1. IInv => KeysOwnedOnce
  BY IInvKeysOwnedOnce
<1> QED
  BY <1>1, Inductive, PTL

LEMMA IInvLoopFaithful ==
  ASSUME IInv
  PROVE  LoopFaithful
<1> SUFFICES ASSUME loop.dict # NULL, loop.kept
             PROVE  /\ loop.idx <= Len(keys[loop.dict])
                    /\ loop.seen = [i \in 1 .. loop.idx |-> text[keys[loop.dict][i]]]
                    /\ \A i, j \in DOMAIN loop.seen : loop.seen[i] = loop.seen[j] => i = j
                    /\ loop.idx > 0 => text[loop.name] = loop.seen[loop.idx]
  BY DEF LoopFaithful
<1> DEFINE d == loop.dict
<1>1. d \in Dict /\ loop.idx \in Nat
  BY LoopIsLive, DictTypes DEF LoopType
<1>2. /\ loop.idx <= Len(keys[d])
      /\ loop.seen = [i \in 1 .. loop.idx |-> text[keys[d][i]]]
      /\ loop.idx > 0 => loop.name = keys[d][loop.idx]
  BY DEF IInv, Visits
<1>3. Entries(d) = 1 .. Len(keys[d]) /\ Len(keys[d]) \in Nat
  BY <1>1, IInvShape, EntryFacts
<1>4. \A i, j \in Entries(d) : text[keys[d][i]] = text[keys[d][j]] => i = j
  BY <1>1 DEF IInv, Owned
<1>5. DOMAIN loop.seen = 1 .. loop.idx /\ \A i \in 1 .. loop.idx : i \in Entries(d) /\ loop.seen[i] = text[keys[d][i]]
  BY <1>1, <1>2, <1>3
<1>6. \A i, j \in DOMAIN loop.seen : loop.seen[i] = loop.seen[j] => i = j
  BY <1>4, <1>5
<1>7. loop.idx > 0 => text[loop.name] = loop.seen[loop.idx]
  BY <1>1, <1>2, <1>5
<1> QED
  BY <1>2, <1>6, <1>7

(***************************************************************************)
(* A for loop whose body takes no entry out of the dict visits every entry *)
(* once and in order, whatever else the body does.                         *)
(***************************************************************************)
THEOREM LoopVisitsInOrder == Spec => []LoopFaithful
<1>1. IInv => LoopFaithful
  BY IInvLoopFaithful
<1> QED
  BY <1>1, Inductive, PTL

-----------------------------------------------------------------------------
(***************************************************************************)
(* The maps of the language.                                               *)
(***************************************************************************)

\* A set of numbers that is not empty has a least element.
LEMMA Smallest ==
  ASSUME NEW T \in SUBSET Nat, T # {}
  PROVE  \E x \in T : \A y \in T : x <= y
<1> DEFINE R == OpToRel(<, Nat)
<1>1. IsWellFoundedOn(R, Nat)
  BY NatLessThanWellFounded
<1>2. PICK x \in T : \A y \in T : ~ (<<y, x>> \in R)
  BY <1>1, WFMin
<1>3. \A y \in T : ~(y < x)
  BY <1>2 DEF OpToRel
<1> QED
  BY <1>3

\* f has the maps on the way of putting the first n keys of ks.
Puts(f, n, m, ks, v) ==
  f = [j \in 0 .. n |-> IF j = 0 THEN m ELSE Maps!Put(f[j - 1], ks[j], v)]

LEMMA PutsExist ==
  ASSUME NEW m, NEW ks, NEW v, NEW n \in Nat
  PROVE  \E f : Puts(f, n, m, ks, v)
<1> DEFINE T == {i \in Nat : ~ \E f : Puts(f, i, m, ks, v)}
<1> SUFFICES ASSUME T # {}
             PROVE  FALSE
  OBVIOUS
<1>1. PICK i \in T : \A j \in T : i <= j
  BY Smallest
<1>2. i # 0
  <2> DEFINE g == [j \in 0 .. 0 |-> m]
  <2>1. Puts(g, 0, m, ks, v)
    BY DEF Puts
  <2> QED
    BY <2>1
<1>3. PICK f : Puts(f, i - 1, m, ks, v)
  BY <1>1, <1>2
<1>4. \A j \in 0 .. i - 1 : f[j] = IF j = 0 THEN m ELSE Maps!Put(f[j - 1], ks[j], v)
  BY <1>3, <1>1 DEF Puts
<1> DEFINE g == [j \in 0 .. i |-> IF j = i THEN Maps!Put(f[i - 1], ks[i], v) ELSE f[j]]
<1>5. \A j \in 0 .. i : g[j] = IF j = 0 THEN m ELSE Maps!Put(g[j - 1], ks[j], v)
  BY <1>4, <1>2, <1>1
<1>6. Puts(g, i, m, ks, v)
  BY <1>5 DEF Puts
<1> QED
  BY <1>6, <1>1

\* PutAll is the last of any such maps.
LEMMA PutsUnique ==
  ASSUME NEW m, NEW ks, NEW v, NEW n \in Nat, NEW f, Puts(f, n, m, ks, v),
         NEW g, Puts(g, n, m, ks, v)
  PROVE  f = g
<1>1. \A j \in 0 .. n : /\ f[j] = IF j = 0 THEN m ELSE Maps!Put(f[j - 1], ks[j], v)
                        /\ g[j] = IF j = 0 THEN m ELSE Maps!Put(g[j - 1], ks[j], v)
  BY DEF Puts
<1> DEFINE T == {j \in 0 .. n : f[j] # g[j]}
<1>2. T = {}
  <2> SUFFICES ASSUME T # {}
               PROVE  FALSE
    OBVIOUS
  <2>0. T \in SUBSET Nat /\ T # {}
    OBVIOUS
  <2> HIDE DEF T
  <2>1. PICK i \in T : \A j \in T : i <= j
    BY <2>0, Smallest
  <2> USE DEF T
  <2>2. i = 0 \/ f[i - 1] = g[i - 1]
    BY <2>1
  <2> QED
    BY <1>1, <2>1, <2>2
<1>3. \A j \in 0 .. n : f[j] = g[j]
  BY <1>2
<1> QED
  BY <1>3 DEF Puts

LEMMA PutAllIs ==
  ASSUME NEW m, NEW ks, NEW v, Len(ks) \in Nat, NEW f, Puts(f, Len(ks), m, ks, v)
  PROVE  Maps!PutAll(m, ks, v) = f[Len(ks)]
<1> DEFINE g == CHOOSE h : Puts(h, Len(ks), m, ks, v)
<1>1. Puts(g, Len(ks), m, ks, v)
  OBVIOUS
<1>2. Maps!PutAll(m, ks, v) = g[Len(ks)]
  BY DEF Maps!PutAll, Puts
<1> HIDE DEF g
<1>3. f = g
  BY <1>1, PutsUnique
<1> QED
  BY <1>2, <1>3

LEMMA PutNone ==
  ASSUME NEW m, NEW v
  PROVE  Maps!PutAll(m, << >>, v) = m
<1>1. PICK f : Puts(f, 0, m, << >>, v)
  BY PutsExist
<1>2. Maps!PutAll(m, << >>, v) = f[0]
  BY <1>1, PutAllIs
<1> QED
  BY <1>1, <1>2 DEF Puts

\* The first key can be put first.
LEMMA PutFirst ==
  ASSUME NEW m, NEW ks \in Seq(Text), ks # << >>, NEW v
  PROVE  Maps!PutAll(m, ks, v) = Maps!PutAll(Maps!Put(m, Head(ks), v), Tail(ks), v)
<1> DEFINE n == Len(ks)
           rest == Tail(ks)
           first == Maps!Put(m, Head(ks), v)
<1>1. /\ n \in Nat /\ n > 0 /\ Len(rest) = n - 1 /\ Head(ks) = ks[1]
      /\ \A j \in 1 .. n - 1 : rest[j] = ks[j + 1]
  OBVIOUS
<1>2. PICK f : Puts(f, n, m, ks, v)
  BY <1>1, PutsExist
<1>3. \A j \in 0 .. n : f[j] = IF j = 0 THEN m ELSE Maps!Put(f[j - 1], ks[j], v)
  BY <1>2 DEF Puts
<1> DEFINE g == [j \in 0 .. n - 1 |-> f[j + 1]]
<1>4. f[1] = first
  BY <1>1, <1>3
<1>5. ASSUME NEW j \in 0 .. n - 1
      PROVE  g[j] = IF j = 0 THEN first ELSE Maps!Put(g[j - 1], rest[j], v)
  <2>1. CASE j = 0
    BY <1>1, <1>4, <2>1
  <2>2. CASE j # 0
    <3>1. j + 1 \in 0 .. n /\ j + 1 # 0 /\ (j + 1) - 1 = j /\ j \in 1 .. n - 1
      BY <1>1, <2>2
    <3>2. f[j + 1] = Maps!Put(f[j], ks[j + 1], v)
      BY <1>3, <3>1
    <3>3. g[j] = f[j + 1] /\ g[j - 1] = f[j] /\ rest[j] = ks[j + 1]
      BY <1>1, <3>1
    <3> QED
      BY <2>2, <3>2, <3>3
  <2> QED
    BY <2>1, <2>2
<1>6. Puts(g, n - 1, first, rest, v)
  BY <1>1, <1>5 DEF Puts
<1>7. Maps!PutAll(m, ks, v) = f[n]
  BY <1>1, <1>2, PutAllIs
<1>8. Maps!PutAll(first, rest, v) = g[n - 1]
  <2>1. Len(rest) = n - 1 /\ Len(rest) \in Nat
    BY <1>1
  <2> HIDE DEF n, rest, first, g
  <2>2. Puts(g, Len(rest), first, rest, v)
    BY <1>6, <2>1
  <2> QED
    BY <2>1, <2>2, PutAllIs
<1> QED
  BY <1>1, <1>7, <1>8

LEMMA SameMaps ==
  ASSUME NEW m, NEW ks, NEW v
  PROVE  Ordered!PutAll(m, ks, v) = Maps!PutAll(m, ks, v)
BY DEF Ordered!PutAll, Maps!PutAll, Ordered!Put, Maps!Put, Ordered!Keys, Maps!Keys

-----------------------------------------------------------------------------
(***************************************************************************)
(* The arrays as a map.                                                    *)
(***************************************************************************)

\* What entry i of d holds for the program.
Entry(d, i) == IF Open(d, i) THEN pending.val ELSE values[d][i]

\* c is the map that the arrays of d are.
Reads(c, d) ==
  /\ c.order = [i \in 1 .. Len(keys[d]) |-> text[keys[d][i]]]
  /\ DOMAIN c.at = {text[keys[d][i]] : i \in 1 .. Len(keys[d])}
  /\ \A i \in 1 .. Len(keys[d]) : c.at[text[keys[d][i]]] = Entry(d, i)
  /\ c = [order |-> c.order, at |-> [k \in DOMAIN c.at |-> c.at[k]]]

LEMMA ContentReads == IInv => \A d \in Dict : Reads(Content(d), d)
<1> SUFFICES ASSUME IInv, NEW d \in Dict
             PROVE  Reads(Content(d), d)
  OBVIOUS
<1> DEFINE n == Len(keys[d])
           K == {text[a] : a \in KeysOf(d)}
           at == [k \in K |-> LET i == Find(d, k) IN IF Open(d, i) THEN pending.val ELSE values[d][i]]
<1>1. Entries(d) = 1 .. n /\ n \in Nat
  BY IInvShape, EntryFacts
<1>2. Content(d) = [order |-> [i \in Entries(d) |-> text[keys[d][i]]], at |-> at]
  BY DEF Content
<1>3. K = {text[keys[d][i]] : i \in 1 .. n}
  BY <1>1 DEF KeysOf
<1>4. ASSUME NEW i \in 1 .. n
      PROVE  at[text[keys[d][i]]] = Entry(d, i)
  <2>1. Find(d, text[keys[d][i]]) = i
    <3>1. Has(d, text[keys[d][i]])
      BY <1>1, FindFacts
    <3>2. /\ Find(d, text[keys[d][i]]) \in Entries(d)
          /\ text[keys[d][Find(d, text[keys[d][i]])]] = text[keys[d][i]]
      BY <3>1, FindFacts
    <3> QED
      BY <1>1, <3>2 DEF IInv, Owned
  <2>2. text[keys[d][i]] \in K
    BY <1>3
  <2> QED
    BY <2>1, <2>2 DEF Entry
<1> HIDE DEF at, K
<1>5. Content(d).order = [i \in 1 .. n |-> text[keys[d][i]]] /\ Content(d).at = at
  BY <1>1, <1>2
<1>6. DOMAIN at = K /\ at = [k \in K |-> at[k]]
  BY DEF at
<1>7. Content(d) = [order |-> Content(d).order, at |-> [k \in DOMAIN at |-> at[k]]]
  BY <1>2, <1>5, <1>6
<1> QED
  BY <1>3, <1>4, <1>5, <1>6, <1>7 DEF Reads

LEMMA ContentReadsNext == IInv' => (\A d \in Dict : Reads(Content(d), d))'
BY ContentReads, PTL

\* Two maps with the same keys in the same order and the same values.
LEMMA MapsEqual ==
  ASSUME NEW c, NEW e,
         e = [order |-> e.order, at |-> [k \in DOMAIN e.at |-> e.at[k]]],
         c = [order |-> c.order, at |-> [k \in DOMAIN c.at |-> c.at[k]]],
         c.order = e.order, DOMAIN c.at = DOMAIN e.at,
         \A k \in DOMAIN e.at : c.at[k] = e.at[k]
  PROVE  c = e
<1>1. [k \in DOMAIN e.at |-> e.at[k]] = [k \in DOMAIN c.at |-> c.at[k]]
  OBVIOUS
<1> QED
  BY <1>1

\* The keys and values of d are as they were.
Unmoved(d) ==
  /\ Len(keys'[d]) = Len(keys[d])
  /\ \A i \in 1 .. Len(keys[d]) : text'[keys'[d][i]] = text[keys[d][i]] /\ Entry(d, i)' = Entry(d, i)

LEMMA ContentKept ==
  ASSUME IInv, IInv', NEW d \in Dict, Unmoved(d)
  PROVE  Content(d)' = Content(d)
<1> DEFINE n == Len(keys[d])
<1>1. Reads(Content(d), d) /\ Reads(Content(d), d)'
  BY ContentReads, ContentReadsNext
<1> DEFINE c == Content(d)
           e == Content(d)'
<1>2. /\ c.order = [i \in 1 .. n |-> text[keys[d][i]]]
      /\ DOMAIN c.at = {text[keys[d][i]] : i \in 1 .. n}
      /\ \A i \in 1 .. n : c.at[text[keys[d][i]]] = Entry(d, i)
      /\ c = [order |-> c.order, at |-> [k \in DOMAIN c.at |-> c.at[k]]]
  BY <1>1 DEF Reads
<1>3. /\ e.order = [i \in 1 .. n |-> text'[keys'[d][i]]]
      /\ DOMAIN e.at = {text'[keys'[d][i]] : i \in 1 .. n}
      /\ \A i \in 1 .. n : e.at[text'[keys'[d][i]]] = Entry(d, i)'
      /\ e = [order |-> e.order, at |-> [k \in DOMAIN e.at |-> e.at[k]]]
  BY <1>1 DEF Reads, Unmoved
<1>4. \A i \in 1 .. n : text'[keys'[d][i]] = text[keys[d][i]] /\ Entry(d, i)' = Entry(d, i)
  BY DEF Unmoved
<1> HIDE DEF n, c, e
<1>5. c.order = e.order /\ DOMAIN c.at = DOMAIN e.at
  <2>1. [i \in 1 .. n |-> text[keys[d][i]]] = [i \in 1 .. n |-> text'[keys'[d][i]]]
    BY <1>4
  <2>2. {text[keys[d][i]] : i \in 1 .. n} = {text'[keys'[d][i]] : i \in 1 .. n}
    BY <1>4
  <2>3. c.order = e.order
    BY <1>2, <1>3, <2>1
  <2>4. DOMAIN c.at = DOMAIN e.at
    BY <1>2, <1>3, <2>2
  <2> QED
    BY <2>3, <2>4
<1>6. \A k \in DOMAIN e.at : c.at[k] = e.at[k]
  BY <1>2, <1>3, <1>4
<1>7. c = e
  BY <1>2, <1>3, <1>5, <1>6, MapsEqual
<1> QED
  BY <1>7 DEF c, e

\* The arrays do not change and no set is under way.
LEMMA ContentSame ==
  ASSUME IInv, IInv', UNCHANGED <<keys, values, text>>, Quiet
  PROVE  \A d \in Dict : Content(d)' = Content(d)
<1> SUFFICES ASSUME NEW d \in Dict
             PROVE  Unmoved(d)
  BY ContentKept
<1> QED
  BY DEF Unmoved, Entry, Open, Quiet

\* A map that reads as the next arrays of d is the next content of d.
LEMMA ContentIs ==
  ASSUME IInv', NEW d \in Dict, NEW m, Reads(m, d)'
  PROVE  Content(d)' = m
<1> DEFINE e == Content(d)'
           n == Len(keys'[d])
<1>1. /\ e.order = [i \in 1 .. n |-> text'[keys'[d][i]]]
      /\ DOMAIN e.at = {text'[keys'[d][i]] : i \in 1 .. n}
      /\ \A i \in 1 .. n : e.at[text'[keys'[d][i]]] = Entry(d, i)'
      /\ e = [order |-> e.order, at |-> [k \in DOMAIN e.at |-> e.at[k]]]
  BY ContentReadsNext DEF Reads
<1>2. /\ m.order = [i \in 1 .. n |-> text'[keys'[d][i]]]
      /\ DOMAIN m.at = {text'[keys'[d][i]] : i \in 1 .. n}
      /\ \A i \in 1 .. n : m.at[text'[keys'[d][i]]] = Entry(d, i)'
      /\ m = [order |-> m.order, at |-> [k \in DOMAIN m.at |-> m.at[k]]]
  BY DEF Reads
<1> HIDE DEF e, n
<1>3. m.order = e.order /\ DOMAIN m.at = DOMAIN e.at
  BY <1>1, <1>2
<1>4. \A k \in DOMAIN e.at : m.at[k] = e.at[k]
  BY <1>1, <1>2
<1>5. m = e
  <2>1. e = [order |-> e.order, at |-> [k \in DOMAIN e.at |-> e.at[k]]]
    BY <1>1
  <2>2. m = [order |-> m.order, at |-> [k \in DOMAIN m.at |-> m.at[k]]]
    BY <1>2
  <2> QED
    BY <1>3, <1>4, <2>1, <2>2, MapsEqual
<1> QED
  BY <1>5 DEF e

\* p is m with k put to v.
IsPut(p, m, k, v) ==
  /\ p.order = IF k \in DOMAIN m.at THEN m.order ELSE Append(m.order, k)
  /\ DOMAIN p.at = DOMAIN m.at \cup {k}
  /\ \A l \in DOMAIN m.at \cup {k} : p.at[l] = IF l = k THEN v ELSE m.at[l]
  /\ p = [order |-> p.order, at |-> [l \in DOMAIN p.at |-> p.at[l]]]

LEMMA PutParts ==
  ASSUME NEW m, NEW k, NEW v, NEW p, p = Maps!Put(m, k, v)
  PROVE  IsPut(p, m, k, v)
BY DEF Maps!Put, Maps!Keys, IsPut

\* A new entry is a new key at the end.
LEMMA InsertContent ==
  ASSUME IInv, IInv', Quiet, NEW d \in Dict, NEW k \in Text, NEW v \in Val, ~Has(d, k), Insert(d, k, v)
  PROVE  /\ Content(d)' = Maps!Put(Content(d), k, v)
         /\ \A e \in Dict : e # d => Content(e)' = Content(e)
<1> DEFINE n == Len(keys[d])
           c == Content(d)
<1>1. PICK a \in KeyAddr : /\ text' = [text EXCEPT ![a] = k]
                           /\ keys' = [keys EXCEPT ![d] = Append(@, a)]
  BY DEF Insert
<1>2. /\ keys \in [Dict -> Seq(KeyAddr)] /\ values \in [Dict -> Seq(Val)]
      /\ text \in [KeyAddr -> Text \cup {NULL}]
      /\ Entries(d) = 1 .. n /\ n \in Nat /\ Len(values[d]) = n
  BY IInvShape, EntryFacts DEF IInv, TypeOK
<1>3. /\ keys'[d] = Append(keys[d], a) /\ values'[d] = Append(values[d], v) /\ text'[a] = k
      /\ \A e \in Dict : e # d => keys'[e] = keys[e] /\ values'[e] = values[e]
  BY <1>1, <1>2 DEF Insert
<1>4. \A e \in Dict : Keeps(e)
  BY InsertEffect
<1>5. /\ Len(keys'[d]) = n + 1 /\ keys'[d][n + 1] = a /\ values'[d][n + 1] = v
      /\ \A i \in 1 .. n : values'[d][i] = values[d][i]
  BY <1>2, <1>3
<1>6. \A i \in 1 .. n : text'[keys'[d][i]] = text[keys[d][i]]
  <2>1. Keeps(d)
    BY <1>4
  <2>2. \A i \in 1 .. n : keys'[d][i] = keys[d][i] /\ text'[keys[d][i]] = text[keys[d][i]]
    BY <1>2, <2>1 DEF Keeps
  <2> QED
    BY <2>2
<1>7. \A e \in Dict, i \in Nat : Entry(e, i) = values[e][i] /\ Entry(e, i)' = values'[e][i]
  BY DEF Entry, Open, Quiet
<1>8. /\ c.order = [i \in 1 .. n |-> text[keys[d][i]]]
      /\ DOMAIN c.at = {text[keys[d][i]] : i \in 1 .. n}
      /\ \A i \in 1 .. n : c.at[text[keys[d][i]]] = values[d][i]
  <2>1. Reads(Content(d), d)
    BY ContentReads
  <2>2. \A i \in 1 .. n : Entry(d, i) = values[d][i]
    BY <1>2, <1>7
  <2> QED
    BY <2>1, <2>2 DEF Reads
<1>9. \A i \in 1 .. n : text[keys[d][i]] # k
  BY <1>2, FindFacts
<1>10. SUFFICES ASSUME NEW m, m = Maps!Put(c, k, v)
                PROVE  Reads(m, d)'
  <2>1. Content(d)' = Maps!Put(c, k, v)
    BY <1>10, ContentIs
  <2>2. ASSUME NEW e \in Dict, e # d
        PROVE  Content(e)' = Content(e)
    <3>1. Len(keys[e]) \in Nat /\ Entries(e) = 1 .. Len(keys[e])
      BY IInvShape, EntryFacts
    <3>2. Unmoved(e)
      BY <1>3, <1>4, <1>7, <2>2, <3>1 DEF Unmoved, Keeps
    <3> QED
      BY <3>2, ContentKept
  <2> QED
    BY <2>1, <2>2
<1> HIDE DEF c, n
<1>11. /\ m.order = Append(c.order, k) /\ DOMAIN m.at = DOMAIN c.at \cup {k}
       /\ \A l \in DOMAIN c.at \cup {k} : m.at[l] = IF l = k THEN v ELSE c.at[l]
       /\ m = [order |-> m.order, at |-> [l \in DOMAIN m.at |-> m.at[l]]]
  <2>1. k \notin DOMAIN c.at
    BY <1>8, <1>9
  <2>2. IsPut(m, c, k, v)
    BY <1>10, PutParts
  <2> QED
    BY <2>1, <2>2 DEF IsPut
<1>12. text'[keys'[d][n + 1]] = k
  BY <1>3, <1>5
<1>13. m.order = [i \in 1 .. n + 1 |-> text'[keys'[d][i]]]
  BY <1>2, <1>6, <1>8, <1>11, <1>12
<1>14. DOMAIN m.at = {text'[keys'[d][i]] : i \in 1 .. n + 1}
  <2>1. {text'[keys'[d][i]] : i \in 1 .. n + 1} = {text'[keys'[d][i]] : i \in 1 .. n} \cup {k}
    BY <1>2, <1>12
  <2>2. {text'[keys'[d][i]] : i \in 1 .. n} = {text[keys[d][i]] : i \in 1 .. n}
    BY <1>6
  <2> QED
    BY <1>8, <1>11, <2>1, <2>2
<1>15. ASSUME NEW i \in 1 .. n + 1
       PROVE  m.at[text'[keys'[d][i]]] = values'[d][i]
  <2>1. CASE i = n + 1
    BY <1>5, <1>11, <1>12, <2>1
  <2>2. CASE i # n + 1
    <3>1. i \in 1 .. n
      BY <1>2, <2>2
    <3> QED
      BY <1>5, <1>6, <1>8, <1>9, <1>11, <3>1
  <2> QED
    BY <2>1, <2>2
<1>16. \A i \in 1 .. n + 1 : m.at[text'[keys'[d][i]]] = Entry(d, i)'
  <2> TAKE i \in 1 .. n + 1
  <2>1. m.at[text'[keys'[d][i]]] = values'[d][i]
    BY <1>15
  <2>2. Entry(d, i)' = values'[d][i]
    BY <1>2, <1>7
  <2> QED
    BY <2>1, <2>2
<1> QED
  BY <1>5, <1>11, <1>13, <1>14, <1>16 DEF Reads

\* p is m without k, which is the i-th key.
IsRemoved(p, m, i, k) ==
  /\ p.order = Without(m.order, i)
  /\ DOMAIN p.at = DOMAIN m.at \ {k}
  /\ \A l \in DOMAIN m.at \ {k} : p.at[l] = m.at[l]
  /\ p = [order |-> p.order, at |-> [l \in DOMAIN p.at |-> p.at[l]]]

LEMMA RemoveParts ==
  ASSUME NEW m, NEW k, NEW i \in DOMAIN m.order, m.order[i] = k,
         \A j \in DOMAIN m.order : m.order[j] = k => j = i,
         NEW p, p = Ordered!Remove(m, k)
  PROVE  IsRemoved(p, m, i, k)
<1>1. i = CHOOSE j \in DOMAIN m.order : m.order[j] = k
  OBVIOUS
<1> DEFINE r == [order |-> Without(m.order, i), at |-> [l \in DOMAIN m.at \ {k} |-> m.at[l]]]
<1>2. p = r
  BY <1>1 DEF Ordered!Remove, Ordered!Keys, Without
<1>3. IsRemoved(r, m, i, k)
  BY DEF IsRemoved
<1> QED
  BY <1>2, <1>3

\* Where an element comes from when the i-th has gone.
Before(j, i) == IF j < i THEN j ELSE j + 1

LEMMA WithoutAt ==
  ASSUME NEW S, NEW s \in Seq(S), NEW i \in 1 .. Len(s)
  PROVE  /\ Without(s, i) \in Seq(S) /\ Len(Without(s, i)) = Len(s) - 1
         /\ \A j \in 1 .. Len(s) - 1 : Without(s, i)[j] = s[Before(j, i)]
<1>1. /\ Without(s, i) \in Seq(S) /\ Len(Without(s, i)) = Len(s) - 1
      /\ \A j \in 1 .. Len(s) - 1 : Without(s, i)[j] = IF j < i THEN s[j] ELSE s[j + 1]
  BY WithoutOne
<1>2. \A j \in 1 .. Len(s) - 1 : s[Before(j, i)] = IF j < i THEN s[j] ELSE s[j + 1]
  BY DEF Before
<1> QED
  BY <1>1, <1>2

\* The other entries move up, in the order they have.
LEMMA PopContent ==
  ASSUME IInv, IInv', Quiet, NEW d \in Dict, NEW k \in Text, Has(d, k), NEW i, i = Find(d, k),
         text' = [text EXCEPT ![keys[d][i]] = NULL],
         keys' = [keys EXCEPT ![d] = Without(@, i)],
         values' = [values EXCEPT ![d] = Without(@, i)]
  PROVE  /\ Content(d)' = Ordered!Remove(Content(d), k)
         /\ \A e \in Dict : e # d => Content(e)' = Content(e)
<1> DEFINE n == Len(keys[d])
           c == Content(d)
<1>1. i \in Entries(d) /\ text[keys[d][i]] = k
  BY FindFacts
<1>2. /\ keys \in [Dict -> Seq(KeyAddr)] /\ values \in [Dict -> Seq(Val)]
      /\ text \in [KeyAddr -> Text \cup {NULL}] /\ keys[d] \in Seq(KeyAddr) /\ values[d] \in Seq(Val)
      /\ Entries(d) = 1 .. n /\ n \in Nat /\ Len(values[d]) = n
      /\ \A j \in 1 .. n : keys[d][j] \in KeyAddr
  <2>1. TypeOK
    BY DEF IInv
  <2>2. keys \in [Dict -> Seq(KeyAddr)] /\ values \in [Dict -> Seq(Val)] /\ text \in [KeyAddr -> Text \cup {NULL}]
    BY <2>1 DEF TypeOK
  <2>3. Entries(d) = 1 .. n /\ Len(values[d]) = n
    BY IInvShape, EntryFacts
  <2> QED
    BY <2>2, <2>3
<1>3. /\ keys'[d] = Without(keys[d], i) /\ values'[d] = Without(values[d], i)
      /\ \A e \in Dict : e # d => keys'[e] = keys[e] /\ values'[e] = values[e]
  BY <1>2
<1>4. /\ Len(keys'[d]) = n - 1
      /\ \A j \in 1 .. n - 1 : keys'[d][j] = keys[d][Before(j, i)] /\ values'[d][j] = values[d][Before(j, i)]
  <2>0. /\ keys[d] \in Seq(KeyAddr) /\ values[d] \in Seq(Val) /\ i \in 1 .. n
        /\ Len(keys[d]) = n /\ Len(values[d]) = n
    BY <1>1, <1>2
  <2>1. /\ Len(Without(keys[d], i)) = n - 1
        /\ \A j \in 1 .. n - 1 : Without(keys[d], i)[j] = keys[d][Before(j, i)]
    BY <2>0, WithoutAt
  <2>2. \A j \in 1 .. n - 1 : Without(values[d], i)[j] = values[d][Before(j, i)]
    <3>1. values[d] \in Seq(Val) /\ i \in 1 .. Len(values[d])
      BY <2>0
    <3>2. \A j \in 1 .. Len(values[d]) - 1 : Without(values[d], i)[j] = values[d][Before(j, i)]
      BY <3>1, WithoutAt
    <3> QED
      BY <2>0, <3>2
  <2> QED
    BY <1>3, <2>1, <2>2
<1>5. \A j \in 1 .. n - 1 : Before(j, i) \in 1 .. n /\ Before(j, i) # i
  BY <1>1, <1>2 DEF Before
<1>6. \A j \in 1 .. n : j # i => text'[keys[d][j]] = text[keys[d][j]] /\ text[keys[d][j]] # k
  <2>1. \A j \in 1 .. n : j # i => keys[d][j] # keys[d][i] /\ text[keys[d][j]] # text[keys[d][i]]
    BY <1>1, <1>2 DEF IInv, Owned
  <2> QED
    BY <1>1, <1>2, <2>1
<1>7. \A e \in Dict, j \in Nat : Entry(e, j) = values[e][j] /\ Entry(e, j)' = values'[e][j]
  BY DEF Entry, Open, Quiet
<1>8. /\ c.order = [j \in 1 .. n |-> text[keys[d][j]]]
      /\ DOMAIN c.at = {text[keys[d][j]] : j \in 1 .. n}
      /\ \A j \in 1 .. n : c.at[text[keys[d][j]]] = values[d][j]
  <2>1. Reads(Content(d), d)
    BY ContentReads
  <2>2. \A j \in 1 .. n : Entry(d, j) = values[d][j]
    BY <1>2, <1>7
  <2> QED
    BY <2>1, <2>2 DEF Reads
<1>9. \A e \in Dict : e # d => Content(e)' = Content(e)
  <2> SUFFICES ASSUME NEW e \in Dict, e # d
               PROVE  Unmoved(e)
    BY ContentKept
  <2>1. Len(keys[e]) \in Nat /\ Entries(e) = 1 .. Len(keys[e])
    BY IInvShape, EntryFacts
  <2>2. Keeps(e)
    BY <1>1, PopEffect
  <2> QED
    BY <1>3, <1>7, <2>1, <2>2 DEF Unmoved, Keeps
<1>10. SUFFICES ASSUME NEW m, m = Ordered!Remove(c, k)
                PROVE  Reads(m, d)'
  BY <1>9, ContentIs
<1>11. IsRemoved(m, c, i, k)
  <2>1. DOMAIN c.order = 1 .. n /\ c.order[i] = k /\ \A j \in 1 .. n : c.order[j] = k => j = i
    BY <1>1, <1>2, <1>6, <1>8
  <2> HIDE DEF c
  <2> QED
    BY <1>1, <1>2, <1>10, <2>1, RemoveParts
<1> HIDE DEF c, n
<1>12. /\ m.order = Without(c.order, i) /\ DOMAIN m.at = DOMAIN c.at \ {k}
       /\ \A l \in DOMAIN c.at \ {k} : m.at[l] = c.at[l]
       /\ m = [order |-> m.order, at |-> [l \in DOMAIN m.at |-> m.at[l]]]
  BY <1>11 DEF IsRemoved
<1>13. \A j \in 1 .. n - 1 : text'[keys'[d][j]] = text[keys[d][Before(j, i)]]
  BY <1>4, <1>5, <1>6
<1>14. m.order = [j \in 1 .. n - 1 |-> text'[keys'[d][j]]]
  <2>1. c.order \in Seq(Text \cup {NULL}) /\ Len(c.order) = n /\ i \in 1 .. n
    BY <1>1, <1>2, <1>8
  <2>2. /\ Without(c.order, i) \in Seq(Text \cup {NULL}) /\ Len(Without(c.order, i)) = n - 1
        /\ \A j \in 1 .. n - 1 : Without(c.order, i)[j] = c.order[Before(j, i)]
    BY <2>1, WithoutAt
  <2>3. \A j \in 1 .. n - 1 : c.order[Before(j, i)] = text[keys[d][Before(j, i)]]
    BY <1>5, <1>8
  <2>4. \A j \in 1 .. n - 1 : m.order[j] = text'[keys'[d][j]]
    BY <1>12, <1>13, <2>2, <2>3
  <2>5. m.order = [j \in 1 .. n - 1 |-> m.order[j]]
    BY <1>12, <2>2
  <2> QED
    BY <2>4, <2>5
<1>15. DOMAIN m.at = {text'[keys'[d][j]] : j \in 1 .. n - 1}
  <2>1. ASSUME NEW j \in 1 .. n - 1
        PROVE  text'[keys'[d][j]] \in DOMAIN m.at
    BY <1>5, <1>6, <1>8, <1>12, <1>13
  <2>2. ASSUME NEW l \in DOMAIN m.at
        PROVE  \E j \in 1 .. n - 1 : l = text'[keys'[d][j]]
    <3>1. PICK j \in 1 .. n : l = text[keys[d][j]]
      BY <1>8, <1>12
    <3>2. j # i
      BY <1>1, <1>12, <3>1
    <3>3. CASE j < i
      <4>1. j \in 1 .. n - 1 /\ Before(j, i) = j
        BY <1>1, <1>2, <3>3 DEF Before
      <4> QED
        BY <1>13, <3>1, <4>1
    <3>4. CASE j > i
      <4>1. j - 1 \in 1 .. n - 1 /\ Before(j - 1, i) = j
        BY <1>1, <1>2, <3>4 DEF Before
      <4> QED
        BY <1>13, <3>1, <4>1
    <3> QED
      BY <1>1, <1>2, <3>2, <3>3, <3>4
  <2> QED
    BY <2>1, <2>2
<1>16. \A j \in 1 .. n - 1 : m.at[text'[keys'[d][j]]] = values'[d][j]
  BY <1>4, <1>5, <1>6, <1>8, <1>12, <1>13
<1>17. \A j \in 1 .. n - 1 : m.at[text'[keys'[d][j]]] = Entry(d, j)'
  BY <1>2, <1>7, <1>16
<1> QED
  BY <1>4, <1>12, <1>14, <1>15, <1>17 DEF Reads

\* A dict is emptied.
LEMMA EmptyContent ==
  ASSUME IInv, IInv', Quiet, NEW d \in Dict, Emptied(d)
  PROVE  /\ Content(d)' = Ordered!Empty
         /\ \A e \in Dict : e # d => Content(e)' = Content(e)
<1>1. keys \in [Dict -> Seq(KeyAddr)] /\ values \in [Dict -> Seq(Val)]
  BY DEF IInv, TypeOK
<1>2. /\ keys'[d] = << >>
      /\ \A e \in Dict : e # d => keys'[e] = keys[e] /\ values'[e] = values[e]
  BY <1>1 DEF Emptied
<1>3. Content(d)' = Ordered!Empty
  <2> DEFINE m == Ordered!Empty
  <2>1. /\ m.order = << >> /\ DOMAIN m.at = {}
        /\ m = [order |-> m.order, at |-> [k \in DOMAIN m.at |-> m.at[k]]]
    BY DEF Ordered!Empty
  <2>2. Len(keys'[d]) = 0
    BY <1>2
  <2> HIDE DEF m
  <2>3. Reads(m, d)'
    BY <2>1, <2>2 DEF Reads
  <2>4. Content(d)' = m
    BY <2>3, ContentIs
  <2> QED
    BY <2>4 DEF m
<1>4. ASSUME NEW e \in Dict, e # d
      PROVE  Content(e)' = Content(e)
  <2>1. Len(keys[e]) \in Nat /\ Entries(e) = 1 .. Len(keys[e])
    BY IInvShape, EntryFacts
  <2>2. Keeps(e)
    BY <1>4, EmptiedEffect
  <2>3. \A i \in Nat : Entry(e, i)' = Entry(e, i)
    BY <1>2, <1>4 DEF Entry, Open, Quiet
  <2>4. Unmoved(e)
    BY <1>2, <1>4, <2>1, <2>2, <2>3 DEF Unmoved, Keeps
  <2> QED
    BY <2>4, ContentKept
<1> QED
  BY <1>3, <1>4

\* A dict is released: those that are still there are as they were.
LEMMA ReleaseContent ==
  ASSUME IInv, IInv', Quiet, NEW d \in Dict \cup {NULL}, DecRef(d), d # NULL => rc[d] > 0
  PROVE  \A e \in Dict : rc'[e] # 0 => rc[e] # 0 /\ Content(e)' = Content(e)
<1>1. rc \in [Dict -> Nat] /\ NULL \notin Dict
  BY NullAssumption DEF IInv, TypeOK
<1>2. CASE d # NULL /\ rc[d] = 1
  <2>1. Emptied(d) /\ rc' = [rc EXCEPT ![d] = @ + (-1)] /\ d \in Dict
    BY <1>2 DEF DecRef, Bump
  <2>2. rc'[d] = 0 /\ \A e \in Dict : e # d => rc'[e] = rc[e]
    BY <1>1, <1>2, <2>1
  <2>3. \A e \in Dict : e # d => Content(e)' = Content(e)
    BY <2>1, EmptyContent
  <2> QED
    BY <2>2, <2>3
<1>3. CASE ~(d # NULL /\ rc[d] = 1)
  <2>1. UNCHANGED <<keys, values, text>>
    BY <1>3 DEF DecRef, store
  <2>2. \A e \in Dict : rc'[e] # 0 => rc[e] # 0
    <3>1. CASE d = NULL
      BY <3>1 DEF DecRef, store
    <3>2. CASE d # NULL
      <4>1. d \in Dict /\ rc' = [rc EXCEPT ![d] = @ + (-1)] /\ rc[d] > 0
        BY <3>2 DEF DecRef, Bump
      <4> QED
        BY <1>1, <4>1
    <3> QED
      BY <3>1, <3>2
  <2> QED
    BY <2>1, <2>2, ContentSame
<1> QED
  BY <1>2, <1>3

\* set on a key that is there counts at once.
LEMMA SetContent ==
  ASSUME IInv, IInv', Ready, NEW d \in Dict, NEW k \in Text, NEW v \in Val, NEW i, i = Find(d, k),
         i # 0, UNCHANGED <<keys, values, text>>,
         NEW o \in BOOLEAN, pending' = [op |-> "slot", dict |-> d, at |-> i, val |-> v, owned |-> o]
  PROVE  /\ Content(d)' = Maps!Put(Content(d), k, v)
         /\ \A e \in Dict : e # d => Content(e)' = Content(e)
<1> DEFINE n == Len(keys[d])
           c == Content(d)
<1>1. n \in Nat /\ Entries(d) = 1 .. n /\ i \in 1 .. n /\ text[keys[d][i]] = k
  BY IInvShape, EntryFacts, FindFacts DEF Has
<1>2. \A j \in 1 .. n : text[keys[d][j]] = k => j = i
  BY <1>1 DEF IInv, Owned
<1>3. /\ \A e \in Dict, j \in Nat : Entry(e, j) = values[e][j]
      /\ \A e \in Dict, j \in Nat : Entry(e, j)' = IF e = d /\ j = i THEN v ELSE values[e][j]
  BY PendingFacts DEF Entry, Open
<1>4. ASSUME NEW e \in Dict, e # d
      PROVE  Content(e)' = Content(e)
  <2>1. Len(keys[e]) \in Nat
    BY IInvShape, EntryFacts
  <2>2. Unmoved(e)
    BY <1>3, <1>4, <2>1 DEF Unmoved
  <2> QED
    BY <2>2, ContentKept
<1>5. /\ c.order = [j \in 1 .. n |-> text[keys[d][j]]]
      /\ DOMAIN c.at = {text[keys[d][j]] : j \in 1 .. n}
      /\ \A j \in 1 .. n : c.at[text[keys[d][j]]] = values[d][j]
  <2>1. Reads(Content(d), d)
    BY ContentReads
  <2>2. \A j \in 1 .. n : Entry(d, j) = values[d][j]
    BY <1>1, <1>3
  <2> QED
    BY <2>1, <2>2 DEF Reads
<1>6. SUFFICES ASSUME NEW m, m = Maps!Put(c, k, v)
               PROVE  Reads(m, d)'
  BY <1>4, ContentIs
<1>7. k \in DOMAIN c.at
  BY <1>1, <1>5
<1> HIDE DEF c, n
<1>8. IsPut(m, c, k, v)
  BY <1>6, PutParts
<1>9. /\ m.order = c.order /\ DOMAIN m.at = DOMAIN c.at
      /\ \A l \in DOMAIN c.at : m.at[l] = IF l = k THEN v ELSE c.at[l]
      /\ m = [order |-> m.order, at |-> [l \in DOMAIN m.at |-> m.at[l]]]
  BY <1>7, <1>8 DEF IsPut
<1>10. \A j \in 1 .. n : m.at[text[keys[d][j]]] = Entry(d, j)'
  <2> TAKE j \in 1 .. n
  <2>1. j \in Nat /\ Entry(d, j)' = IF j = i THEN v ELSE values[d][j]
    BY <1>1, <1>3
  <2>2. text[keys[d][j]] \in DOMAIN c.at /\ c.at[text[keys[d][j]]] = values[d][j]
    BY <1>5
  <2> QED
    BY <1>1, <1>2, <1>9, <2>1, <2>2
<1> QED
  BY <1>5, <1>9, <1>10 DEF Reads, n

\* Storing the new value changes nothing that counted before.
LEMMA StoredContent ==
  ASSUME IInv, IInv', pending.op = "slot", pending' = Idle, UNCHANGED <<keys, text>>,
         values' = [values EXCEPT ![pending.dict][pending.at] = pending.val]
  PROVE  \A d \in Dict : Content(d)' = Content(d)
<1> SUFFICES ASSUME NEW d \in Dict
             PROVE  Unmoved(d)
  BY ContentKept
<1> DEFINE e == pending.dict
           i == pending.at
<1>1. values \in [Dict -> Seq(Val)] /\ e \in Dict /\ i \in Entries(e) /\ pending'.op # "slot"
  BY PendingFacts, PendingKinds DEF IInv, TypeOK, Statements
<1>2. /\ Len(keys[d]) \in Nat /\ Len(keys[e]) \in Nat /\ DOMAIN values[d] = 1 .. Len(keys[d])
      /\ DOMAIN values[e] = 1 .. Len(keys[e]) /\ i \in 1 .. Len(keys[e])
  BY <1>1, IInvShape, EntryFacts
<1>3. ASSUME NEW j \in 1 .. Len(keys[d])
      PROVE  Entry(d, j)' = Entry(d, j)
  <2>1. Entry(d, j)' = values'[d][j]
    BY <1>1 DEF Entry, Open
  <2>2. Entry(d, j) = IF e = d /\ i = j THEN pending.val ELSE values[d][j]
    BY DEF Entry, Open
  <2>3. values'[e] = [values[e] EXCEPT ![i] = pending.val] /\ (d # e => values'[d] = values[d])
    BY <1>1
  <2>4. values'[d][j] = IF e = d /\ i = j THEN pending.val ELSE values[d][j]
    BY <1>2, <2>3
  <2> QED
    BY <2>1, <2>2, <2>4
<1> QED
  BY <1>3 DEF Unmoved

\* A copy has the texts and the values of its original.
LEMMA CopyContent ==
  ASSUME IInv, IInv', Quiet, NEW d \in Dict, NEW e \in Dict, e # d, keys[d] = << >>,
         NEW to \in [Entries(e) -> {a \in KeyAddr : NewKey(a)}],
         \A i, j \in DOMAIN to : to[i] = to[j] => i = j,
         keys' = [keys EXCEPT ![d] = to],
         text' = [a \in KeyAddr |-> IF \E i \in DOMAIN to : to[i] = a
                                    THEN text[keys[e][CHOOSE i \in DOMAIN to : to[i] = a]]
                                    ELSE text[a]],
         values' = [values EXCEPT ![d] = values[e]]
  PROVE  /\ Content(d)' = Content(e)
         /\ \A f \in Dict : f # d => Content(f)' = Content(f)
<1> DEFINE n == Len(keys[e])
<1>1. /\ keys \in [Dict -> Seq(KeyAddr)] /\ values \in [Dict -> Seq(Val)]
      /\ n \in Nat /\ Entries(e) = 1 .. n
  BY IInvShape, EntryFacts DEF IInv, TypeOK
<1>2. /\ keys'[d] = to /\ values'[d] = values[e]
      /\ \A f \in Dict : f # d => keys'[f] = keys[f] /\ values'[f] = values[f]
  BY <1>1
<1>3. to \in [1 .. n -> KeyAddr] /\ DOMAIN to = 1 .. n /\ Len(to) = n
  BY <1>1
<1>4. \A j \in 1 .. n : text'[to[j]] = text[keys[e][j]]
  <2> TAKE j \in 1 .. n
  <2>1. to[j] \in KeyAddr /\ \E i \in DOMAIN to : to[i] = to[j]
    BY <1>3
  <2>2. j = CHOOSE i \in DOMAIN to : to[i] = to[j]
    BY <1>3
  <2>3. text'[to[j]] = text[keys[e][CHOOSE i \in DOMAIN to : to[i] = to[j]]]
    BY <2>1
  <2> QED
    BY <2>2, <2>3
<1>5. ASSUME NEW f \in Dict, f # d
      PROVE  Content(f)' = Content(f)
  <2>1. Len(keys[f]) \in Nat /\ Entries(f) = 1 .. Len(keys[f])
    BY IInvShape, EntryFacts
  <2>2. Keeps(f)
    BY CopyEffect
  <2>3. \A i \in Nat : Entry(f, i)' = Entry(f, i)
    BY <1>2, <1>5 DEF Entry, Open, Quiet
  <2>4. Unmoved(f)
    BY <1>2, <1>5, <2>1, <2>2, <2>3 DEF Unmoved, Keeps
  <2> QED
    BY <2>4, ContentKept
<1>6. SUFFICES ASSUME NEW c, c = Content(e)
               PROVE  Reads(c, d)'
  BY <1>5, ContentIs
<1>7. /\ c.order = [i \in 1 .. n |-> text[keys[e][i]]]
      /\ DOMAIN c.at = {text[keys[e][i]] : i \in 1 .. n}
      /\ \A i \in 1 .. n : c.at[text[keys[e][i]]] = Entry(e, i)
      /\ c = [order |-> c.order, at |-> [k \in DOMAIN c.at |-> c.at[k]]]
  BY <1>6, ContentReads DEF Reads
<1>8. \A i \in 1 .. n : Entry(d, i)' = Entry(e, i) /\ text'[keys'[d][i]] = text[keys[e][i]]
  BY <1>1, <1>2, <1>4 DEF Entry, Open, Quiet
<1>9. Len(keys'[d]) = n
  BY <1>2, <1>3
<1> HIDE DEF n
<1>a. \A i \in 1 .. n : text'[keys'[d][i]] = text[keys[e][i]]
  BY <1>8
<1>b. \A i \in 1 .. n : Entry(d, i)' = Entry(e, i)
  BY <1>8
<1>10. c.order = [i \in 1 .. n |-> text'[keys'[d][i]]]
  <2>1. c.order = [i \in 1 .. n |-> text[keys[e][i]]]
    BY <1>7
  <2> QED
    BY <1>a, <2>1
<1>11. DOMAIN c.at = {text'[keys'[d][i]] : i \in 1 .. n}
  <2>1. DOMAIN c.at = {text[keys[e][i]] : i \in 1 .. n}
    BY <1>7
  <2>2. ASSUME NEW t \in DOMAIN c.at
        PROVE  \E i \in 1 .. n : t = text'[keys'[d][i]]
    <3>1. PICK i \in 1 .. n : t = text[keys[e][i]]
      BY <2>1
    <3> QED
      BY <1>a, <3>1
  <2>3. \A i \in 1 .. n : text'[keys'[d][i]] \in DOMAIN c.at
    BY <1>a, <2>1
  <2> DEFINE K == DOMAIN c.at
             T == {text'[keys'[d][i]] : i \in 1 .. n}
  <2>4. K \subseteq T
    BY <2>2
  <2>5. T \subseteq K
    <3> SUFFICES ASSUME NEW t \in T PROVE t \in K
      OBVIOUS
    <3>1. PICK i \in 1 .. n : t = text'[keys'[d][i]]
      OBVIOUS
    <3> QED
      BY <2>3, <3>1
  <2> HIDE DEF K, T
  <2>6. K = T
    BY <2>4, <2>5
  <2> QED
    BY <2>6 DEF K, T
<1>12. \A i \in 1 .. n : c.at[text'[keys'[d][i]]] = Entry(d, i)'
  <2>1. \A i \in 1 .. n : c.at[text[keys[e][i]]] = Entry(e, i)
    BY <1>7
  <2> TAKE i \in 1 .. n
  <2>2. text'[keys'[d][i]] = text[keys[e][i]] /\ Entry(d, i)' = Entry(e, i)
    BY <1>a, <1>b
  <2> QED
    BY <2>1, <2>2
<1> QED
  BY <1>7, <1>9, <1>10, <1>11, <1>12 DEF Reads

\* A key that already has the value.
LEMMA PutSame ==
  ASSUME NEW m, NEW k, NEW v, k \in DOMAIN m.at, m.at[k] = v,
         m = [order |-> m.order, at |-> [l \in DOMAIN m.at |-> m.at[l]]]
  PROVE  Maps!Put(m, k, v) = m
<1> DEFINE p == Maps!Put(m, k, v)
<1>1. IsPut(p, m, k, v)
  BY PutParts
<1> HIDE DEF p
<1>2. /\ p.order = m.order /\ DOMAIN p.at = DOMAIN m.at
      /\ \A l \in DOMAIN m.at : p.at[l] = m.at[l]
      /\ p = [order |-> p.order, at |-> [l \in DOMAIN p.at |-> p.at[l]]]
  BY <1>1 DEF IsPut
<1>3. p = m
  BY <1>2, MapsEqual
<1> QED
  BY <1>3 DEF p

-----------------------------------------------------------------------------
(***************************************************************************)
(* Steps of the runtime as steps of the abstract program.                  *)
(***************************************************************************)

\* What the mapping of steps needs besides IInv: a literal under construction
\* holds one value, and a loop has seen as many keys as it counts.
InStep ==
  /\ pending.op = "fill" => \A i \in Entries(pending.dict) : values[pending.dict][i] = held
  /\ Len(loop.seen) = loop.idx

\* Only the dict of a literal under construction is more than its entries.
AbsMapIs ==
  \A d \in Dict : AbsMap[d] = IF rc[d] = 0 THEN NULL ELSE Content(d)

LEMMA AbsMapPlain == pending.op # "fill" => AbsMapIs
BY DEF AbsMap, AbsMapIs

LEMMA AbsMapPlainNext == pending'.op # "fill" => AbsMapIs'
BY DEF AbsMap, AbsMapIs

\* The dicts are what they were.
LEMMA MapSame ==
  ASSUME pending.op # "fill", pending'.op # "fill",
         \A d \in Dict : (rc[d] = 0 <=> rc'[d] = 0) /\ (rc[d] # 0 => Content(d)' = Content(d))
  PROVE  AbsMap' = AbsMap
<1>1. AbsMap = [d \in Dict |-> IF rc[d] = 0 THEN NULL ELSE Content(d)]
  BY DEF AbsMap
<1>2. AbsMap' = [d \in Dict |-> IF rc'[d] = 0 THEN NULL ELSE Content(d)']
  BY DEF AbsMap
<1> QED
  BY <1>1, <1>2

\* A dict that is freed is not named.
LEMMA FreedUnused ==
  ASSUME IInv
  PROVE  \A d \in Dict : rc[d] = 0 => d \notin Ordered!InUse
<1> SUFFICES ASSUME NEW d \in Dict, rc[d] = 0
             PROVE  d \notin Ordered!InUse
  OBVIOUS
<1>0. NULL \notin Dict
  BY NullAssumption
<1>1. \A x \in Var : var[x] # d
  BY <1>0, NamedIsLive
<1>2. loop.dict # d
  BY <1>0, LoopIsLive
<1>3. AbsFresh # d
  BY <1>0, PendingIsLive DEF AbsFresh
<1> QED
  BY <1>1, <1>2, <1>3 DEF Ordered!InUse

LEMMA FreedUnusedNext == IInv' => (\A d \in Dict : rc[d] = 0 => d \notin Ordered!InUse)'
BY FreedUnused, PTL

\* What the dicts that are left hold is what the abstract step says.
LEMMA BecomesIs ==
  ASSUME IInv', pending'.op # "fill", NEW m, \A d \in Dict : rc'[d] # 0 => Content(d)' = m[d]
  PROVE  \A d \in Dict : AbsMap'[d] = m[d] \/ (AbsMap'[d] = NULL /\ d \notin (Ordered!InUse)')
<1>1. \A d \in Dict : AbsMap'[d] = IF rc'[d] = 0 THEN NULL ELSE Content(d)'
  BY AbsMapPlainNext DEF AbsMapIs
<1>2. \A d \in Dict : rc'[d] = 0 => d \notin (Ordered!InUse)'
  BY FreedUnusedNext
<1> QED
  BY <1>1, <1>2

\* A new value is being assigned.
LEMMA EvaluatedSeen ==
  ASSUME IInv, IInv', Ready, NEW v \in Val, Evaluated(v), UNCHANGED <<store, var, held, loop>>
  PROVE  Ordered!Evaluate
<1>1. pending' = [op |-> "local", val |-> v] /\ pending.op = "idle"
  BY PendingFacts DEF Evaluated
<1>2. UNCHANGED <<rc, keys, values, text>>
  BY DEF store
<1>3. Quiet
  BY <1>1 DEF Quiet
<1>4. AbsMap' = AbsMap
  BY <1>1, <1>2, <1>3, ContentSame, MapSame
<1>5. AbsFresh = NULL /\ AbsFresh' = NULL /\ AbsResult = NULL /\ AbsResult' = v
  BY <1>1 DEF AbsFresh, AbsResult
<1>6. UNCHANGED <<AbsMap, var, AbsFresh, held, loop.dict, loop.seen>>
  BY <1>4, <1>5
<1> QED
  BY <1>5, <1>6 DEF Ordered!Evaluate

LEMMA AssignSeen ==
  ASSUME IInv, IInv', NEW x \in Var, NEW k \in Text,
         \/ \E v \in Val : AssignFresh(v)
         \/ AssignGet(x, k) \/ AssignIndex(x, k) \/ AssignGetOr(x, k)
         \/ \E f \in Val : AssignGetOrFresh(x, k, f)
  PROVE  Ordered!Evaluate
<1>1. ASSUME NEW v \in Val, AssignFresh(v)
      PROVE  Ordered!Evaluate
  BY <1>1, EvaluatedSeen DEF AssignFresh
<1>2. CASE AssignGet(x, k)
  BY <1>2, EvaluatedSeen, ValueFound DEF AssignGet, Named
<1>3. CASE AssignIndex(x, k)
  BY <1>3, EvaluatedSeen, ValueFound DEF AssignIndex, Named
<1>4. CASE AssignGetOr(x, k)
  <2> DEFINE v == IF Has(var[x], k) THEN values[var[x]][Find(var[x], k)] ELSE held
  <2>1. v \in Val
    BY <1>4, ValueFound, ValueTypes DEF AssignGetOr, Named
  <2>2. Ready /\ Evaluated(v) /\ UNCHANGED <<store, var, held, loop>>
    BY <1>4 DEF AssignGetOr, Named
  <2> HIDE DEF v
  <2> QED
    BY <2>1, <2>2, EvaluatedSeen
<1>5. ASSUME NEW f \in Val, AssignGetOrFresh(x, k, f)
      PROVE  Ordered!Evaluate
  <2> DEFINE v == IF Has(var[x], k) THEN values[var[x]][Find(var[x], k)] ELSE f
  <2>1. v \in Val
    BY <1>5, ValueFound, ValueTypes DEF AssignGetOrFresh, Named
  <2>2. Ready /\ Evaluated(v) /\ UNCHANGED <<store, var, held, loop>>
    BY <1>5 DEF AssignGetOrFresh, Named
  <2> HIDE DEF v
  <2> QED
    BY <2>1, <2>2, EvaluatedSeen
<1> QED
  BY <1>1, <1>2, <1>3, <1>4, <1>5

\* The value becomes the local's, or is dropped.
LEMMA StoreHeldSeen ==
  ASSUME IInv, IInv', StoreHeld
  PROVE  Ordered!Store
<1>1. pending.op = "local" /\ pending' = Idle /\ UNCHANGED <<rc, keys, values, text, var, loop>>
  BY DEF StoreHeld, store
<1>2. Quiet /\ pending'.op = "idle"
  BY <1>1, PendingKinds DEF Quiet
<1>3. AbsMap' = AbsMap
  BY <1>1, <1>2, ContentSame, MapSame
<1>4. AbsFresh = NULL /\ AbsFresh' = NULL /\ AbsResult = pending.val /\ AbsResult' = NULL
  BY <1>1, <1>2 DEF AbsFresh, AbsResult
<1>5. held' = pending.val
  BY DEF StoreHeld
<1> QED
  BY <1>1, <1>3, <1>4, <1>5 DEF Ordered!Store

LEMMA DiscardSeen ==
  ASSUME IInv, IInv', Discard
  PROVE  Ordered!Discard
<1>1. pending.op = "discard" /\ pending' = Idle /\ UNCHANGED <<rc, keys, values, text, held, var, loop>>
  BY DEF Discard, store
<1>2. Quiet /\ pending'.op = "idle"
  BY <1>1, PendingKinds DEF Quiet
<1>3. AbsMap' = AbsMap
  BY <1>1, <1>2, ContentSame, MapSame
<1>4. AbsFresh = NULL /\ AbsFresh' = NULL /\ AbsResult = pending.val /\ AbsResult' = NULL
  BY <1>1, <1>2 DEF AbsFresh, AbsResult
<1>5. pending.val # NULL
  BY <1>1, PendingFacts, NullAssumption
<1> QED
  BY <1>1, <1>3, <1>4, <1>5 DEF Ordered!Discard

LEMMA DropHeldSeen ==
  ASSUME IInv, IInv', DropHeld
  PROVE  Ordered!Forget
<1>1. pending.op = "idle" /\ pending' = pending /\ held' = NULL
      /\ UNCHANGED <<rc, keys, values, text, var, loop>>
  BY PendingFacts DEF DropHeld, store
<1>2. Quiet
  BY <1>1 DEF Quiet
<1>3. AbsMap' = AbsMap
  BY <1>1, <1>2, ContentSame, MapSame
<1>4. AbsFresh = NULL /\ AbsFresh' = NULL /\ AbsResult = NULL /\ AbsResult' = NULL
  BY <1>1 DEF AbsFresh, AbsResult
<1> QED
  BY <1>1, <1>3, <1>4 DEF Ordered!Forget

\* An entry is gone, its value on the way.
LEMMA PopSeen ==
  ASSUME IInv, IInv', NEW x \in Var, NEW k \in Text, Pop(x, k)
  PROVE  Ordered!Take(var[x], k)
<1> SUFFICES ASSUME NEW d, d = var[x], NEW i, i = Find(d, k)
             PROVE  Ordered!Take(d, k)
  OBVIOUS
<1> DEFINE M == Ordered!With(d, Ordered!Remove(AbsMap[d], k))
<1>1. Ready /\ Has(d, k) /\ d # NULL
  BY DEF Pop, Named
<1>2. d \in Dict /\ rc[d] > 0 /\ rc[d] \in Nat
  BY <1>1, NamedIsLive
<1>3. PICK op \in {"local", "discard"} : pending' = [op |-> op, val |-> values[d][i]]
  BY DEF Pop
<1>4. pending.op = "idle" /\ pending'.op \in {"local", "discard"} /\ pending'.val = values[d][i]
  BY <1>1, <1>3, PendingFacts
<1>5. Quiet
  BY <1>4 DEF Quiet
<1>6. /\ Content(d)' = Ordered!Remove(Content(d), k)
      /\ \A e \in Dict : e # d => Content(e)' = Content(e)
  <2>1. /\ text' = [text EXCEPT ![keys[d][i]] = NULL]
        /\ keys' = [keys EXCEPT ![d] = Without(@, i)]
        /\ values' = [values EXCEPT ![d] = Without(@, i)]
    BY DEF Pop
  <2> QED
    BY <1>1, <1>2, <1>5, <2>1, PopContent
<1>7. UNCHANGED <<rc, var, held, loop.dict, loop.seen>>
  BY DictTypes DEF Pop, Removing, LoopType
<1>8. \A e \in Dict : AbsMap[e] = IF rc[e] = 0 THEN NULL ELSE Content(e)
  BY <1>4, AbsMapPlain DEF AbsMapIs
<1>9. \A e \in Dict : rc'[e] # 0 => Content(e)' = M[e]
  <2>1. DOMAIN AbsMap = Dict
    BY DEF AbsMap
  <2>2. \A e \in Dict : M[e] = IF e = d THEN Ordered!Remove(AbsMap[d], k) ELSE AbsMap[e]
    BY <2>1 DEF Ordered!With
  <2> HIDE DEF M
  <2> QED
    BY <1>2, <1>6, <1>7, <1>8, <2>2
<1>10. Ordered!Becomes(M)
  BY <1>4, <1>9, BecomesIs DEF Ordered!Becomes
<1>11. k \in Ordered!Keys(AbsMap[d]) /\ AbsMap[d].at[k] = values[d][i]
  <2>1. i \in Entries(d) /\ text[keys[d][i]] = k /\ Entries(d) = 1 .. Len(keys[d])
    BY <1>1, <1>2, FindFacts, IInvShape, EntryFacts
  <2>2. k \in DOMAIN Content(d).at /\ Content(d).at[k] = Entry(d, i)
    <3>1. Reads(Content(d), d)
      BY <1>2, ContentReads
    <3> QED
      BY <2>1, <3>1 DEF Reads
  <2>3. Entry(d, i) = values[d][i]
    BY <1>4 DEF Entry, Open
  <2> QED
    BY <1>2, <1>8, <2>2, <2>3 DEF Ordered!Keys
<1>12. AbsFresh = NULL /\ AbsFresh' = NULL /\ AbsResult = NULL /\ AbsResult' = values[d][i]
  BY <1>4 DEF AbsFresh, AbsResult
<1> HIDE DEF M
<1> QED
  BY <1>7, <1>10, <1>11, <1>12 DEF Ordered!Take, M

\* The dicts after one of them got the content m.
LEMMA WithIs ==
  ASSUME AbsMapIs, NEW d \in Dict, NEW m
  PROVE  \A e \in Dict : Ordered!With(d, m)[e] = IF e = d THEN m ELSE IF rc[e] = 0 THEN NULL ELSE Content(e)
<1>1. DOMAIN AbsMap = Dict
  BY DEF AbsMap
<1> QED
  BY <1>1 DEF Ordered!With, AbsMapIs

\* An entry is set, also when the new value is still to be stored.
LEMMA SetSeen ==
  ASSUME IInv, IInv', Ready, NEW x \in Var, var[x] # NULL, NEW k \in Text, NEW v \in Val,
         NEW o \in {0, 1}, Set(var[x], k, v, o), UNCHANGED <<var, held, loop>>
  PROVE  Ordered!Assign(var[x], k)
<1> SUFFICES ASSUME NEW d, d = var[x]
             PROVE  Ordered!Assign(d, k)
  OBVIOUS
<1>1. d \in Dict /\ rc[d] > 0 /\ rc[d] \in Nat /\ pending.op = "idle"
  BY NamedIsLive, PendingFacts
<1>2. /\ Content(d)' = Maps!Put(Content(d), k, v) /\ rc' = rc
      /\ \A e \in Dict : e # d => Content(e)' = Content(e)
      /\ pending'.op \in {"idle", "slot"}
  <2>1. CASE Find(d, k) = 0
    <3>1. Insert(d, k, v) /\ rc' = rc /\ pending' = pending /\ ~Has(d, k)
      BY <2>1 DEF Set, Insert, Has
    <3>2. Quiet
      BY <1>1, <3>1 DEF Quiet
    <3> QED
      BY <1>1, <3>1, <3>2, InsertContent
  <2>2. CASE Find(d, k) # 0
    <3>1. PICK i : i = Find(d, k)
      OBVIOUS
    <3>2. /\ UNCHANGED <<rc, keys, values, text>> /\ (o = 1) \in BOOLEAN
          /\ pending' = [op |-> "slot", dict |-> d, at |-> i, val |-> v, owned |-> o = 1]
      BY <2>2, <3>1 DEF Set, store
    <3> QED
      BY <1>1, <2>2, <3>1, <3>2, SetContent
  <2> QED
    BY <2>1, <2>2
<1> DEFINE m == Ordered!Put(AbsMap[d], k, v)
           M == Ordered!With(d, m)
<1>3. AbsMapIs
  BY <1>1, AbsMapPlain
<1>4. Content(d)' = m
  <2>1. AbsMap[d] = Content(d)
    BY <1>1, <1>3 DEF AbsMapIs
  <2> QED
    BY <1>2, <2>1 DEF Ordered!Put, Maps!Put, Ordered!Keys, Maps!Keys
<1> HIDE DEF m
<1>5. \A e \in Dict : M[e] = IF e = d THEN m ELSE IF rc[e] = 0 THEN NULL ELSE Content(e)
  BY <1>1, <1>3, WithIs
<1> HIDE DEF M
<1>6. \A e \in Dict : rc'[e] # 0 => Content(e)' = M[e]
  BY <1>2, <1>4, <1>5
<1>7. Ordered!Becomes(M)
  BY <1>2, <1>6, BecomesIs DEF Ordered!Becomes
<1>8. AbsFresh = NULL /\ AbsFresh' = NULL /\ AbsResult = NULL /\ AbsResult' = NULL
  BY <1>1, <1>2 DEF AbsFresh, AbsResult
<1> QED
  BY <1>7, <1>8 DEF Ordered!Assign, M, m

LEMMA SetsSeen ==
  ASSUME IInv, IInv', NEW x \in Var, NEW k \in Text,
         \/ SetHeld(x, k) \/ \E v \in Val : SetFresh(x, k, v)
         \/ \E y \in Var, l \in Text : SetGet(x, k, y, l)
  PROVE  var[x] # NULL /\ Ordered!Assign(var[x], k)
<1>1. CASE SetHeld(x, k)
  <2>1. held \in Val
    BY <1>1, ValueTypes DEF SetHeld
  <2>2. Ready /\ var[x] # NULL /\ Set(var[x], k, held, 0) /\ UNCHANGED <<var, held, loop>>
    BY <1>1 DEF SetHeld, Named
  <2> QED
    BY <2>1, <2>2, SetSeen
<1>2. ASSUME NEW v \in Val, SetFresh(x, k, v)
      PROVE  var[x] # NULL /\ Ordered!Assign(var[x], k)
  BY <1>2, SetSeen DEF SetFresh, Named
<1>3. ASSUME NEW y \in Var, NEW l \in Text, SetGet(x, k, y, l)
      PROVE  var[x] # NULL /\ Ordered!Assign(var[x], k)
  <2> DEFINE v == values[var[y]][Find(var[y], l)]
  <2>1. v \in Val
    BY <1>3, ValueFound DEF SetGet
  <2>2. Ready /\ var[x] # NULL /\ Set(var[x], k, v, 1) /\ UNCHANGED <<var, held, loop>>
    BY <1>3 DEF SetGet, Named
  <2> HIDE DEF v
  <2> QED
    BY <2>1, <2>2, SetSeen
<1> QED
  BY <1>1, <1>2, <1>3

LEMMA ClearSeen ==
  ASSUME IInv, IInv', NEW x \in Var, Clear(x)
  PROVE  var[x] # NULL /\ Ordered!Clear(var[x])
<1> SUFFICES ASSUME NEW d, d = var[x]
             PROVE  d # NULL /\ Ordered!Clear(d)
  OBVIOUS
<1>1. Ready /\ d # NULL /\ Emptied(d) /\ UNCHANGED <<rc, var, held, pending>>
  BY DEF Clear, Named
<1>2. d \in Dict /\ pending.op = "idle" /\ pending'.op = "idle"
  BY <1>1, NamedIsLive, PendingFacts
<1>3. Quiet
  BY <1>2 DEF Quiet
<1>4. /\ Content(d)' = Ordered!Empty
      /\ \A e \in Dict : e # d => Content(e)' = Content(e)
  BY <1>1, <1>2, <1>3, EmptyContent
<1> DEFINE M == Ordered!With(d, Ordered!Empty)
<1>5. \A e \in Dict : M[e] = IF e = d THEN Ordered!Empty ELSE IF rc[e] = 0 THEN NULL ELSE Content(e)
  BY <1>2, AbsMapPlain, WithIs
<1> HIDE DEF M
<1>6. \A e \in Dict : rc'[e] # 0 => Content(e)' = M[e]
  BY <1>1, <1>4, <1>5
<1>7. Ordered!Becomes(M)
  BY <1>2, <1>6, BecomesIs DEF Ordered!Becomes
<1>8. UNCHANGED <<loop.dict, loop.seen>>
  BY DictTypes DEF Clear, Removing, LoopType
<1>9. AbsFresh = NULL /\ AbsFresh' = NULL /\ AbsResult = NULL /\ AbsResult' = NULL
  BY <1>2 DEF AbsFresh, AbsResult
<1> QED
  BY <1>1, <1>7, <1>8, <1>9 DEF Ordered!Clear, M

LEMMA StoreEntrySeen ==
  ASSUME IInv, IInv', StoreEntry
  PROVE  UNCHANGED Ordered!ovars
<1>1. /\ pending.op = "slot" /\ pending' = Idle /\ UNCHANGED <<rc, keys, text, var, held, loop>>
      /\ values' = [values EXCEPT ![pending.dict][pending.at] = pending.val]
  BY DEF StoreEntry
<1>2. pending'.op = "idle"
  BY <1>1, PendingKinds
<1>3. AbsMap' = AbsMap
  BY <1>1, <1>2, StoredContent, MapSame
<1>4. AbsFresh = NULL /\ AbsFresh' = NULL /\ AbsResult = NULL /\ AbsResult' = NULL
  BY <1>1, <1>2 DEF AbsFresh, AbsResult
<1> QED
  BY <1>1, <1>3, <1>4 DEF Ordered!ovars

\* A dict is released and may go.
LEMMA ReleaseSeen ==
  ASSUME IInv, IInv', NEW d \in Dict \cup {NULL}, DecRef(d), d # NULL => rc[d] > 0,
         pending.op \notin {"fill", "slot"}, pending'.op \notin {"fill", "slot"}
  PROVE  Ordered!Becomes(AbsMap)
<1>1. \A e \in Dict : rc'[e] # 0 => rc[e] # 0 /\ Content(e)' = Content(e)
  BY ReleaseContent DEF Quiet
<1>2. \A e \in Dict : AbsMap[e] = IF rc[e] = 0 THEN NULL ELSE Content(e)
  BY AbsMapPlain DEF AbsMapIs
<1>3. \A e \in Dict : rc'[e] # 0 => Content(e)' = AbsMap[e]
  BY <1>1, <1>2
<1> QED
  BY <1>3, BecomesIs DEF Ordered!Becomes

\* The local names the dict that was evaluated.
LEMMA StoreDictSeen ==
  ASSUME IInv, IInv', StoreDict
  PROVE  \E x \in Var : Ordered!Bind(x)
<1>1. /\ pending.op = "assign" /\ pending' = Idle /\ DecRef(var[pending.to])
      /\ var' = [var EXCEPT ![pending.to] = pending.dict] /\ UNCHANGED <<held, loop>>
  BY DEF StoreDict
<1>2. pending'.op = "idle" /\ pending.to \in Var /\ pending.dict \in Dict /\ NULL \notin Dict
  BY <1>1, PendingKinds, PendingFacts, NullAssumption
<1>3. var[pending.to] \in Dict \cup {NULL} /\ (var[pending.to] # NULL => rc[var[pending.to]] > 0)
  BY <1>2, DictTypes, NamedIsLive
<1>4. Ordered!Becomes(AbsMap)
  <2> SUFFICES ASSUME NEW d, d = var[pending.to]
               PROVE  Ordered!Becomes(AbsMap)
    OBVIOUS
  <2> QED
    BY <1>1, <1>2, <1>3, ReleaseSeen
<1>5. /\ AbsFresh = pending.dict /\ AbsFresh' = NULL /\ AbsResult = NULL /\ AbsResult' = NULL
      /\ AbsFresh # NULL
  BY <1>1, <1>2 DEF AbsFresh, AbsResult
<1>6. Ordered!Bind(pending.to)
  BY <1>1, <1>4, <1>5 DEF Ordered!Bind
<1> QED
  BY <1>2, <1>6

LEMMA DropVarSeen ==
  ASSUME IInv, IInv', NEW x \in Var, DropVar(x)
  PROVE  Ordered!EndScope(x)
<1>1. /\ Ready /\ var[x] # NULL /\ DecRef(var[x]) /\ var' = [var EXCEPT ![x] = NULL]
      /\ UNCHANGED <<held, pending, loop>>
  BY DEF DropVar, Named
<1>2. pending.op = "idle" /\ pending'.op = "idle"
  BY <1>1, PendingFacts
<1>3. Ordered!Becomes(AbsMap)
  <2> SUFFICES ASSUME NEW d, d = var[x]
               PROVE  Ordered!Becomes(AbsMap)
    OBVIOUS
  <2>1. d \in Dict /\ rc[d] > 0
    BY <1>1, NamedIsLive
  <2> QED
    BY <1>1, <1>2, <2>1, ReleaseSeen
<1>4. AbsFresh = NULL /\ AbsFresh' = NULL /\ AbsResult = NULL /\ AbsResult' = NULL
  BY <1>2 DEF AbsFresh, AbsResult
<1> QED
  BY <1>1, <1>3, <1>4 DEF Ordered!EndScope

LEMMA ForEndSeen ==
  ASSUME IInv, IInv', ForEnd
  PROVE  Ordered!End
<1>1. /\ Ready /\ loop.dict # NULL /\ DecRef(loop.dict) /\ loop' = NoLoop
      /\ UNCHANGED <<var, held, pending>>
  BY DEF ForEnd
<1>2. pending.op = "idle" /\ pending'.op = "idle" /\ loop'.dict = NULL /\ loop'.seen = << >>
  BY <1>1, PendingFacts, NoLoopType
<1>3. Ordered!Becomes(AbsMap)
  <2> SUFFICES ASSUME NEW d, d = loop.dict
               PROVE  Ordered!Becomes(AbsMap)
    OBVIOUS
  <2>1. d \in Dict /\ rc[d] > 0
    BY <1>1, LoopIsLive
  <2> QED
    BY <1>1, <1>2, <2>1, ReleaseSeen
<1>4. AbsFresh = NULL /\ AbsFresh' = NULL /\ AbsResult = NULL /\ AbsResult' = NULL
  BY <1>2 DEF AbsFresh, AbsResult
<1> QED
  BY <1>1, <1>2, <1>3, <1>4 DEF Ordered!End

\* One more name.
LEMMA AssignVarSeen ==
  ASSUME IInv, IInv', NEW x \in Var, NEW y \in Var, AssignVar(x, y)
  PROVE  var[y] # NULL /\ Ordered!Share(var[y])
<1>1. /\ Ready /\ var[y] # NULL /\ rc' = [rc EXCEPT ![var[y]] = @ + 1]
      /\ pending' = [op |-> "assign", to |-> x, dict |-> var[y]]
      /\ UNCHANGED <<keys, values, text, var, held, loop>>
  BY DEF AssignVar, Named, Assigning, Bump
<1>2. pending.op = "idle" /\ pending'.op = "assign" /\ pending'.dict = var[y]
  BY <1>1, PendingFacts
<1>3. AbsMap' = AbsMap
  <2>1. var[y] \in Dict /\ rc[var[y]] \in Nat /\ rc[var[y]] > 0 /\ rc \in [Dict -> Nat]
    BY <1>1, NamedIsLive, DictTypes
  <2>2. \A d \in Dict : rc[d] = 0 <=> rc'[d] = 0
    BY <1>1, <2>1
  <2>3. \A d \in Dict : Content(d)' = Content(d)
    BY <1>1, <1>2, ContentSame DEF Quiet
  <2> QED
    BY <1>2, <2>2, <2>3, MapSame
<1>4. AbsFresh = NULL /\ AbsFresh' = var[y] /\ AbsResult = NULL /\ AbsResult' = NULL
  BY <1>2 DEF AbsFresh, AbsResult
<1> QED
  BY <1>1, <1>3, <1>4 DEF Ordered!Share

\* The key copies to that d gets from e.
Copied(d, e, to) ==
  /\ to \in [Entries(e) -> {a \in KeyAddr : NewKey(a)}]
  /\ \A i, j \in DOMAIN to : to[i] = to[j] => i = j
  /\ keys' = [keys EXCEPT ![d] = to]
  /\ text' = [a \in KeyAddr |-> IF \E i \in DOMAIN to : to[i] = a
                                THEN text[keys[e][CHOOSE i \in DOMAIN to : to[i] = a]]
                                ELSE text[a]]

LEMMA AssignCopySeen ==
  ASSUME IInv, IInv', NEW x \in Var, NEW y \in Var, NEW d \in Dict, AssignCopy(x, y, d)
  PROVE  Ordered!Create(d)
<1> SUFFICES ASSUME NEW e, e = var[y]
             PROVE  Ordered!Create(d)
  OBVIOUS
<1>1. /\ Ready /\ e # NULL /\ rc[d] = 0 /\ rc' = [rc EXCEPT ![d] = 1]
      /\ pending' = [op |-> "assign", to |-> x, dict |-> d]
      /\ values' = [values EXCEPT ![d] = values[e]] /\ UNCHANGED <<var, held, loop>>
  BY DEF AssignCopy, Named, NewDict, Assigning
<1>2. PICK to : Copied(d, e, to)
  <2>1. \E to : Copied(d, var[y], to)
    BY DEF AssignCopy, Copied
  <2> QED
    BY <2>1
<1>3. /\ e \in Dict /\ rc[e] > 0 /\ rc[e] \in Nat /\ e # d /\ keys[d] = << >>
      /\ rc \in [Dict -> Nat]
  BY <1>1, NamedIsLive, DictTypes
<1>4. /\ pending.op = "idle" /\ pending'.op = "assign" /\ pending'.dict = d
      /\ Quiet /\ NULL \notin Dict
  BY <1>1, PendingFacts, NullAssumption DEF Quiet
<1>5. /\ Content(d)' = Content(e)
      /\ \A f \in Dict : f # d => Content(f)' = Content(f)
  BY <1>1, <1>2, <1>3, <1>4, CopyContent DEF Copied
<1> DEFINE M == Ordered!With(d, AbsMap[e])
<1>6. AbsMapIs
  BY <1>4, AbsMapPlain
<1>7. AbsMap[e] = Content(e) /\ AbsMap[d] = NULL
  BY <1>1, <1>3, <1>6 DEF AbsMapIs
<1>8. \A f \in Dict : M[f] = IF f = d THEN Content(e) ELSE IF rc[f] = 0 THEN NULL ELSE Content(f)
  BY <1>6, <1>7, WithIs
<1>9. \A f \in Dict : f # d => rc'[f] = rc[f]
  BY <1>1, <1>3
<1> HIDE DEF M
<1>10. \A f \in Dict : rc'[f] # 0 => Content(f)' = M[f]
  BY <1>5, <1>8, <1>9
<1>11. Ordered!Becomes(M)
  BY <1>4, <1>10, BecomesIs DEF Ordered!Becomes
<1>12. AbsFresh = NULL /\ AbsFresh' = d /\ AbsResult = NULL /\ AbsResult' = NULL
  BY <1>4 DEF AbsFresh, AbsResult
<1>13. \E z \in Var : var[z] # NULL /\ Ordered!Becomes(Ordered!With(d, AbsMap[var[z]]))
  BY <1>1, <1>11 DEF M
<1> QED
  BY <1>1, <1>7, <1>12, <1>13 DEF Ordered!Create

\* An empty dict that will have the pairs of a literal.
LEMMA AssignLiteralSeen ==
  ASSUME IInv, IInv', NEW x \in Var, NEW d \in Dict, NEW ks \in Literals, AssignLiteral(x, d, ks)
  PROVE  Ordered!Create(d)
<1>1. /\ Ready /\ rc[d] = 0 /\ rc' = [rc EXCEPT ![d] = 1]
      /\ pending' = [op |-> "fill", to |-> x, dict |-> d, keys |-> ks]
      /\ UNCHANGED <<keys, values, text, var, held, loop>>
  BY DEF AssignLiteral, NewDict
<1>2. keys[d] = << >> /\ rc \in [Dict -> Nat] /\ NULL \notin Dict
  BY <1>1, DictTypes, NullAssumption
<1>3. /\ pending.op = "idle" /\ pending'.op = "fill" /\ pending'.dict = d /\ pending'.keys = ks
      /\ Quiet
  BY <1>1, PendingFacts DEF Quiet
<1>4. \A e \in Dict : Content(e)' = Content(e)
  BY <1>1, <1>3, ContentSame
<1>5. Content(d)' = Ordered!Empty
  <2> DEFINE m == Ordered!Empty
  <2>1. /\ m.order = << >> /\ DOMAIN m.at = {}
        /\ m = [order |-> m.order, at |-> [k \in DOMAIN m.at |-> m.at[k]]]
    BY DEF Ordered!Empty
  <2>2. Len(keys'[d]) = 0
    BY <1>1, <1>2
  <2> HIDE DEF m
  <2>3. Reads(m, d)'
    BY <2>1, <2>2 DEF Reads
  <2>4. Content(d)' = m
    BY <2>3, ContentIs
  <2> QED
    BY <2>4 DEF m
<1> DEFINE m == Ordered!PutAll(Ordered!Empty, ks, held)
           M == Ordered!With(d, m)
<1>6. AbsMapIs
  BY <1>3, AbsMapPlain
<1>7. \A e \in Dict : M[e] = IF e = d THEN m ELSE IF rc[e] = 0 THEN NULL ELSE Content(e)
  BY <1>6, WithIs
<1>8. AbsMap'[d] = m
  <2>1. rc'[d] # 0
    BY <1>1, <1>2
  <2>2. AbsMap'[d] = Maps!PutAll(Content(d)', ks, held)
    BY <1>1, <1>3, <2>1 DEF AbsMap
  <2>3. AbsMap'[d] = Maps!PutAll(Ordered!Empty, ks, held)
    BY <1>5, <2>2
  <2> QED
    BY <2>3, SameMaps
<1> HIDE DEF m
<1>9. ASSUME NEW e \in Dict, e # d
      PROVE  AbsMap'[e] = M[e]
  <2>1. rc'[e] = rc[e]
    BY <1>1, <1>2, <1>9
  <2>2. AbsMap'[e] = IF rc'[e] = 0 THEN NULL ELSE Content(e)'
    BY <1>3, <1>9 DEF AbsMap
  <2> QED
    BY <1>4, <1>7, <1>9, <2>1, <2>2
<1>10. \A e \in Dict : AbsMap'[e] = M[e]
  BY <1>7, <1>8, <1>9
<1>11. Ordered!Becomes(M)
  BY <1>10 DEF Ordered!Becomes
<1>12. AbsFresh = NULL /\ AbsFresh' = d /\ AbsResult = NULL /\ AbsResult' = NULL
  BY <1>3 DEF AbsFresh, AbsResult
<1>13. AbsMap[d] = NULL
  BY <1>1, <1>6 DEF AbsMapIs
<1>14. PICK n \in 0 .. MaxLen : ks \in [1 .. n -> Text]
  BY DEF Literals
<1> QED
  BY <1>1, <1>11, <1>12, <1>13, <1>14 DEF Ordered!Create, M, m

\* Pair by pair, the literal counts as the whole from the start.
LEMMA FillPairSeen ==
  ASSUME IInv, IInv', InStep, FillPair
  PROVE  UNCHANGED Ordered!ovars
<1> DEFINE ks == pending.keys
           k == Head(ks)
<1> SUFFICES ASSUME NEW d, d = pending.dict
             PROVE  UNCHANGED Ordered!ovars
  OBVIOUS
<1>1. /\ pending.op = "fill" /\ ks # << >> /\ pending' = [pending EXCEPT !.keys = Tail(@)]
      /\ UNCHANGED <<rc, var, held, loop>>
  BY DEF FillPair, Insert, store
<1>2. /\ d \in Dict /\ rc[d] > 0 /\ rc[d] \in Nat /\ ks \in Seq(Text) /\ k \in Text
      /\ held \in Val /\ pending \in Pending
  <2>1. held # NULL /\ pending \in Pending
    BY <1>1 DEF IInv, Statements, TypeOK
  <2> QED
    BY <1>1, <2>1, PendingIsLive, PendingFacts, ValueTypes
<1>3. pending'.op = "fill" /\ pending'.dict = d /\ pending'.keys = Tail(ks) /\ Quiet
  BY <1>1, <1>2 DEF Quiet, Pending, Idle
<1>4. /\ Content(d)' = Maps!Put(Content(d), k, held)
      /\ \A e \in Dict : e # d => Content(e)' = Content(e)
  <2>1. CASE Has(d, k)
    <3>1. UNCHANGED <<keys, values, text>>
      BY <2>1 DEF FillPair, store
    <3>2. \A e \in Dict : Content(e)' = Content(e)
      BY <1>3, <3>1, ContentSame
    <3> DEFINE i == Find(d, k)
               c == Content(d)
    <3>3. i \in Entries(d) /\ text[keys[d][i]] = k /\ Entries(d) = 1 .. Len(keys[d])
      BY <1>2, <2>1, FindFacts, IInvShape, EntryFacts
    <3>4. Entry(d, i) = held
      BY <1>1, <3>3 DEF Entry, Open, InStep
    <3>5. Reads(c, d)
      BY <1>2, ContentReads
    <3> HIDE DEF i, c
    <3>6. /\ k \in DOMAIN c.at /\ c.at[k] = held
          /\ c = [order |-> c.order, at |-> [l \in DOMAIN c.at |-> c.at[l]]]
      <4>1. /\ DOMAIN c.at = {text[keys[d][j]] : j \in 1 .. Len(keys[d])}
            /\ \A j \in 1 .. Len(keys[d]) : c.at[text[keys[d][j]]] = Entry(d, j)
            /\ c = [order |-> c.order, at |-> [l \in DOMAIN c.at |-> c.at[l]]]
        BY <3>5 DEF Reads
      <4> QED
        BY <3>3, <3>4, <4>1
    <3>7. Maps!Put(c, k, held) = c
      BY <3>6, PutSame
    <3> QED
      BY <1>2, <3>2, <3>7 DEF c
  <2>2. CASE ~Has(d, k)
    <3>1. Insert(d, k, held)
      BY <2>2 DEF FillPair
    <3> QED
      BY <1>2, <1>3, <2>2, <3>1, InsertContent
  <2> QED
    BY <2>1, <2>2
<1>5. ASSUME NEW e \in Dict
      PROVE  AbsMap'[e] = AbsMap[e]
  <2>1. CASE e = d
    <3>1. AbsMap[d] = Maps!PutAll(Content(d), ks, held)
      BY <1>1, <1>2 DEF AbsMap
    <3>2. AbsMap'[d] = Maps!PutAll(Content(d)', Tail(ks), held)
      BY <1>1, <1>2, <1>3 DEF AbsMap
    <3>3. Maps!PutAll(Content(d), ks, held) = Maps!PutAll(Maps!Put(Content(d), k, held), Tail(ks), held)
      BY <1>1, <1>2, PutFirst
    <3> QED
      BY <1>4, <2>1, <3>1, <3>2, <3>3
  <2>2. CASE e # d
    <3>1. AbsMap[e] = IF rc[e] = 0 THEN NULL ELSE Content(e)
      BY <2>2 DEF AbsMap
    <3>2. AbsMap'[e] = IF rc'[e] = 0 THEN NULL ELSE Content(e)'
      BY <1>3, <2>2 DEF AbsMap
    <3> QED
      BY <1>1, <1>4, <2>2, <3>1, <3>2
  <2> QED
    BY <2>1, <2>2
<1>6. AbsMap' = AbsMap
  BY <1>5 DEF AbsMap
<1>7. AbsFresh = d /\ AbsFresh' = d /\ AbsResult = NULL /\ AbsResult' = NULL
  BY <1>1, <1>3 DEF AbsFresh, AbsResult
<1> QED
  BY <1>1, <1>6, <1>7 DEF Ordered!ovars

LEMMA FilledSeen ==
  ASSUME IInv, IInv', Filled
  PROVE  UNCHANGED Ordered!ovars
<1> SUFFICES ASSUME NEW d, d = pending.dict
             PROVE  UNCHANGED Ordered!ovars
  OBVIOUS
<1>1. /\ pending.op = "fill" /\ pending.keys = << >>
      /\ pending' = [op |-> "assign", to |-> pending.to, dict |-> d]
      /\ UNCHANGED <<rc, keys, values, text, var, held, loop>>
  BY DEF Filled, Assigning, store
<1>2. pending'.op = "assign" /\ pending'.dict = d /\ Quiet
  BY <1>1 DEF Quiet
<1>3. \A e \in Dict : Content(e)' = Content(e)
  BY <1>1, <1>2, ContentSame
<1>4. ASSUME NEW e \in Dict
      PROVE  AbsMap'[e] = AbsMap[e]
  <2>1. AbsMap[e] = IF rc[e] = 0 THEN NULL
                    ELSE IF d = e THEN Maps!PutAll(Content(e), << >>, held) ELSE Content(e)
    BY <1>1 DEF AbsMap
  <2>2. AbsMap'[e] = IF rc'[e] = 0 THEN NULL ELSE Content(e)'
    BY <1>2 DEF AbsMap
  <2>3. Maps!PutAll(Content(e), << >>, held) = Content(e)
    BY PutNone
  <2> QED
    BY <1>1, <1>3, <2>1, <2>2, <2>3
<1>5. AbsMap' = AbsMap
  BY <1>4 DEF AbsMap
<1>6. AbsFresh = d /\ AbsFresh' = d /\ AbsResult = NULL /\ AbsResult' = NULL
  BY <1>1, <1>2 DEF AbsFresh, AbsResult
<1> QED
  BY <1>1, <1>5, <1>6 DEF Ordered!ovars

\* A for loop.
LEMMA ForStartSeen ==
  ASSUME IInv, IInv', NEW x \in Var, ForStart(x)
  PROVE  var[x] # NULL /\ Ordered!Begin(var[x])
<1>1. /\ Ready /\ var[x] # NULL /\ loop = NoLoop /\ rc' = [rc EXCEPT ![var[x]] = @ + 1]
      /\ loop' = [NoLoop EXCEPT !.dict = var[x]]
      /\ UNCHANGED <<keys, values, text, var, held, pending>>
  BY DEF ForStart, Named, Bump
<1>2. pending.op = "idle" /\ pending'.op = "idle"
  BY <1>1, PendingFacts
<1>3. AbsMap' = AbsMap
  <2>1. var[x] \in Dict /\ rc[var[x]] \in Nat /\ rc[var[x]] > 0 /\ rc \in [Dict -> Nat]
    BY <1>1, NamedIsLive, DictTypes
  <2>2. \A d \in Dict : rc[d] = 0 <=> rc'[d] = 0
    BY <1>1, <2>1
  <2>3. \A d \in Dict : Content(d)' = Content(d)
    BY <1>1, <1>2, ContentSame DEF Quiet
  <2> QED
    BY <1>2, <2>2, <2>3, MapSame
<1>4. loop.dict = NULL /\ loop'.dict = var[x] /\ loop'.seen = << >>
  BY <1>1 DEF NoLoop
<1>5. AbsFresh = NULL /\ AbsFresh' = NULL /\ AbsResult = NULL /\ AbsResult' = NULL
  BY <1>2 DEF AbsFresh, AbsResult
<1> QED
  BY <1>1, <1>3, <1>4, <1>5 DEF Ordered!Begin

LEMMA ForNextSeen ==
  ASSUME IInv, IInv', InStep, ForNext
  PROVE  Ordered!Visit
<1> DEFINE d == loop.dict
           n == loop.idx
           a == keys[d][n + 1]
<1>1. /\ Ready /\ d # NULL /\ n < Len(keys[d])
      /\ loop' = [loop EXCEPT !.idx = @ + 1, !.name = a, !.seen = Append(@, text[a])]
      /\ UNCHANGED <<rc, keys, values, text, var, held, pending>>
  BY DEF ForNext, store
<1>2. pending.op = "idle" /\ pending'.op = "idle"
  BY <1>1, PendingFacts
<1>3. d \in Dict /\ rc[d] > 0 /\ rc[d] \in Nat /\ n \in Nat /\ Len(keys[d]) \in Nat
  BY <1>1, LoopIsLive, DictTypes, IInvShape, EntryFacts DEF LoopType
<1>4. AbsMap' = AbsMap
  BY <1>1, <1>2, ContentSame, MapSame DEF Quiet
<1>5. loop'.dict = d /\ loop'.seen = Append(loop.seen, text[a]) /\ Len(loop.seen) = n
  BY <1>1, DictTypes DEF LoopType, InStep
<1>6. AbsMap[d].order = [i \in 1 .. Len(keys[d]) |-> text[keys[d][i]]]
  <2>1. AbsMap[d] = Content(d)
    BY <1>2, <1>3, AbsMapPlain DEF AbsMapIs
  <2> QED
    BY <1>3, <2>1, ContentReads DEF Reads
<1>7. n < Len(AbsMap[d].order) /\ AbsMap[d].order[n + 1] = text[a]
  BY <1>1, <1>3, <1>6
<1>8. AbsFresh = NULL /\ AbsFresh' = NULL /\ AbsResult = NULL /\ AbsResult' = NULL
  BY <1>2 DEF AbsFresh, AbsResult
<1> HIDE DEF n, a
<1> QED
  BY <1>1, <1>4, <1>5, <1>7, <1>8 DEF Ordered!Visit, n

-----------------------------------------------------------------------------
(***************************************************************************)
(* What is in progress, and all steps together.                            *)
(***************************************************************************)

\* Most steps build no literal and leave the loop where it is.
LEMMA InStepKept ==
  ASSUME InStep, pending'.op # "fill", loop'.seen = loop.seen, loop'.idx = loop.idx
  PROVE  InStep'
BY DEF InStep

LEMMA InStepValue ==
  ASSUME IInv, InStep, ValueStatement
  PROVE  InStep'
<1>1. pending'.op # "fill"
  <2>1. CASE StoreHeld \/ Discard
    BY <2>1, PendingKinds DEF StoreHeld, Discard
  <2>2. CASE DropHeld
    BY <2>2, PendingFacts DEF DropHeld
  <2>3. ASSUME NEW v \in Val, AssignFresh(v)
        PROVE  pending'.op # "fill"
    BY <2>3 DEF AssignFresh, Evaluated
  <2>4. ASSUME NEW x \in Var, NEW k \in Text, NEW f \in Val,
               \/ AssignGet(x, k) \/ AssignIndex(x, k) \/ AssignGetOr(x, k) \/ Pop(x, k)
               \/ AssignGetOrFresh(x, k, f)
        PROVE  pending'.op # "fill"
    BY <2>4 DEF AssignGet, AssignIndex, AssignGetOr, AssignGetOrFresh, Pop, Evaluated
  <2>5. ASSUME NEW x \in Var, NEW k \in Text,
               AssignGet(x, k) \/ AssignIndex(x, k) \/ AssignGetOr(x, k) \/ Pop(x, k)
        PROVE  pending'.op # "fill"
    BY <2>5 DEF AssignGet, AssignIndex, AssignGetOr, Pop, Evaluated
  <2> QED
    BY <2>1, <2>2, <2>3, <2>4, <2>5 DEF ValueStatement
<1>2. UNCHANGED loop \/ \E d : Removing(d)
  <2>1. CASE StoreHeld \/ Discard \/ DropHeld
    BY <2>1 DEF StoreHeld, Discard, DropHeld
  <2>2. ASSUME NEW v \in Val, AssignFresh(v)
        PROVE  UNCHANGED loop
    BY <2>2 DEF AssignFresh
  <2>3. ASSUME NEW x \in Var, NEW k \in Text,
               AssignGet(x, k) \/ AssignIndex(x, k) \/ AssignGetOr(x, k)
        PROVE  UNCHANGED loop
    BY <2>3 DEF AssignGet, AssignIndex, AssignGetOr
  <2>4. ASSUME NEW x \in Var, NEW k \in Text, NEW f \in Val, AssignGetOrFresh(x, k, f)
        PROVE  UNCHANGED loop
    BY <2>4 DEF AssignGetOrFresh
  <2>5. ASSUME NEW x \in Var, NEW k \in Text, Pop(x, k)
        PROVE  UNCHANGED loop \/ \E d : Removing(d)
    BY <2>5 DEF Pop
  <2> QED
    BY <2>1, <2>2, <2>3, <2>4, <2>5 DEF ValueStatement
<1>3. loop'.seen = loop.seen /\ loop'.idx = loop.idx
  BY <1>2, DictTypes DEF Removing, LoopType
<1> QED
  BY <1>1, <1>3, InStepKept

LEMMA InStepEntry ==
  ASSUME IInv, InStep, EntryStatement
  PROVE  InStep'
<1>1. ASSUME NEW d, NEW k, NEW v, NEW o, Ready, Set(d, k, v, o)
      PROVE  pending'.op # "fill"
  BY <1>1, PendingFacts DEF Set
<1>2. pending'.op # "fill"
  <2>1. CASE StoreEntry
    BY <2>1, PendingKinds DEF StoreEntry
  <2>2. ASSUME NEW x \in Var, Clear(x)
        PROVE  pending'.op # "fill"
    BY <2>2, PendingFacts DEF Clear, Named
  <2>3. ASSUME NEW x \in Var, NEW k \in Text,
               \/ SetHeld(x, k) \/ \E v \in Val : SetFresh(x, k, v)
               \/ \E y \in Var, l \in Text : SetGet(x, k, y, l)
        PROVE  pending'.op # "fill"
    BY <1>1, <2>3 DEF SetHeld, SetFresh, SetGet, Named
  <2> QED
    BY <2>1, <2>2, <2>3 DEF EntryStatement
<1>3. UNCHANGED loop \/ \E d : Removing(d)
  BY DEF EntryStatement, StoreEntry, Clear, SetHeld, SetFresh, SetGet
<1>4. loop'.seen = loop.seen /\ loop'.idx = loop.idx
  BY <1>3, DictTypes DEF Removing, LoopType
<1> QED
  BY <1>2, <1>4, InStepKept

\* A pair adds the one value.
LEMMA InStepFill ==
  ASSUME IInv, InStep, FillPair
  PROVE  InStep'
<1> SUFFICES ASSUME NEW d, d = pending.dict
             PROVE  InStep'
  OBVIOUS
<1>1. /\ pending.op = "fill" /\ pending' = [pending EXCEPT !.keys = Tail(@)]
      /\ UNCHANGED <<held, loop>>
  BY DEF FillPair
<1>2. d \in Dict /\ pending \in Pending
  BY <1>1, PendingFacts DEF IInv, TypeOK
<1>3. pending'.dict = d
  BY <1>1, <1>2 DEF Pending, Idle
<1>4. \A i \in Entries(d) : values[d][i] = held
  BY <1>1 DEF InStep
<1>5. ASSUME NEW i \in DOMAIN keys'[d]
      PROVE  values'[d][i] = held
  <2>1. CASE UNCHANGED <<keys, values>>
    BY <1>4, <1>5, <2>1 DEF Entries
  <2>2. CASE Insert(d, Head(pending.keys), held)
    <3>1. PICK a \in KeyAddr : keys' = [keys EXCEPT ![d] = Append(@, a)]
      BY <2>2 DEF Insert
    <3>2. /\ keys \in [Dict -> Seq(KeyAddr)] /\ values \in [Dict -> Seq(Val)]
          /\ Entries(d) = 1 .. Len(keys[d]) /\ Len(values[d]) = Len(keys[d]) /\ Len(keys[d]) \in Nat
      BY <1>2, IInvShape, EntryFacts DEF IInv, TypeOK
    <3>3. keys'[d] = Append(keys[d], a) /\ values'[d] = Append(values[d], held)
      BY <1>2, <2>2, <3>1, <3>2 DEF Insert
    <3>4. i \in 1 .. Len(keys[d]) + 1
      BY <1>2, <1>5, <3>2, <3>3
    <3>5. values'[d][i] = IF i = Len(keys[d]) + 1 THEN held ELSE values[d][i]
      BY <1>2, <3>2, <3>3, <3>4
    <3> QED
      BY <1>4, <3>2, <3>4, <3>5
  <2> QED
    BY <2>1, <2>2 DEF FillPair, store
<1> QED
  BY <1>1, <1>3, <1>5 DEF InStep, Entries

LEMMA InStepDict ==
  ASSUME IInv, InStep, DictStatement
  PROVE  InStep'
<1>1. CASE StoreDict
  BY <1>1, PendingKinds, InStepKept DEF StoreDict
<1>2. CASE FillPair
  BY <1>2, InStepFill
<1>3. CASE Filled
  BY <1>3, InStepKept DEF Filled, Assigning
<1>4. ASSUME NEW x \in Var, DropVar(x)
      PROVE  InStep'
  BY <1>4, PendingFacts, InStepKept DEF DropVar, Named
<1>5. ASSUME NEW x \in Var, NEW y \in Var, AssignVar(x, y) \/ \E d \in Dict : AssignCopy(x, y, d)
      PROVE  InStep'
  BY <1>5, InStepKept DEF AssignVar, AssignCopy, Assigning
<1>6. ASSUME NEW x \in Var, NEW d \in Dict, NEW ks \in Literals, AssignLiteral(x, d, ks)
      PROVE  InStep'
  <2>1. keys[d] = << >> /\ UNCHANGED <<keys, loop>> /\ pending'.dict = d
    BY <1>6, DictTypes DEF AssignLiteral, NewDict
  <2> QED
    BY <2>1 DEF InStep, Entries
<1> QED
  BY <1>1, <1>2, <1>3, <1>4, <1>5, <1>6 DEF DictStatement

LEMMA InStepFor ==
  ASSUME IInv, InStep, ForStatement
  PROVE  InStep'
<1>1. pending.op = "idle" /\ pending'.op = "idle"
  BY PendingFacts DEF ForStatement, ForNext, ForEnd, ForStart, Named
<1>2. CASE ForNext
  <2> DEFINE t == text[keys[loop.dict][loop.idx + 1]]
  <2>1. loop.seen \in Seq(Text) /\ loop.idx \in Nat
    BY DictTypes DEF LoopType
  <2>2. loop'.idx = loop.idx + 1 /\ loop'.seen = Append(loop.seen, t)
    BY <1>2, DictTypes DEF ForNext, LoopType
  <2> HIDE DEF t
  <2>3. Len(Append(loop.seen, t)) = Len(loop.seen) + 1
    BY <2>1
  <2> QED
    BY <1>1, <2>2, <2>3 DEF InStep
<1>3. CASE ForEnd
  BY <1>1, <1>3, NoLoopType DEF ForEnd, InStep
<1>4. ASSUME NEW x \in Var, ForStart(x)
      PROVE  InStep'
  BY <1>1, <1>4 DEF ForStart, NoLoop, InStep
<1> QED
  BY <1>2, <1>3, <1>4 DEF ForStatement

LEMMA InStepNext ==
  ASSUME IInv, InStep, [Next]_vars
  PROVE  InStep'
<1>1. CASE UNCHANGED vars
  BY <1>1 DEF vars, InStep, Entries
<1> QED
  BY <1>1, InStepValue, InStepEntry, InStepDict, InStepFor DEF Next

LEMMA InitSeen ==
  ASSUME Init
  PROVE  Ordered!OInit /\ InStep
<1>1. pending.op = "idle" /\ loop = NoLoop
  BY PendingKinds DEF Init
<1>2. AbsMap = [d \in Dict |-> NULL]
  BY <1>1 DEF Init, AbsMap
<1> QED
  BY <1>1, <1>2, NoLoopType DEF Init, Ordered!OInit, AbsFresh, AbsResult, InStep

LEMMA StutterSeen ==
  ASSUME UNCHANGED vars
  PROVE  UNCHANGED Ordered!ovars
<1>1. UNCHANGED <<rc, keys, values, text, vrc, lost, var, held, pending, loop>>
  BY DEF vars
<1>2. AbsMap' = AbsMap
  BY <1>1 DEF AbsMap, Content, Find, Entries, KeysOf, Open
<1>3. AbsFresh' = AbsFresh /\ AbsResult' = AbsResult
  BY <1>1 DEF AbsFresh, AbsResult
<1> QED
  BY <1>1, <1>2, <1>3 DEF Ordered!ovars

\* Every statement, or half of one, is a step of the abstract program or none.
LEMMA NextSeen ==
  ASSUME IInv, IInv', InStep, Next
  PROVE  Ordered!ONext \/ UNCHANGED Ordered!ovars
<1>1. CASE ValueStatement
  <2>1. CASE StoreHeld
    BY <2>1, StoreHeldSeen DEF Ordered!ONext
  <2>2. CASE Discard
    BY <2>2, DiscardSeen DEF Ordered!ONext
  <2>3. CASE DropHeld
    BY <2>3, DropHeldSeen DEF Ordered!ONext
  <2>4. ASSUME NEW v \in Val, AssignFresh(v)
        PROVE  Ordered!Evaluate
    BY <2>4, EvaluatedSeen DEF AssignFresh
  <2>5. ASSUME NEW x \in Var, NEW k \in Text,
               \/ AssignGet(x, k) \/ AssignIndex(x, k) \/ AssignGetOr(x, k)
               \/ \E f \in Val : AssignGetOrFresh(x, k, f)
        PROVE  Ordered!Evaluate
    BY <2>5, AssignSeen
  <2>6. ASSUME NEW x \in Var, NEW k \in Text, Pop(x, k)
        PROVE  Ordered!ONext
    <3>1. var[x] # NULL
      BY <2>6 DEF Pop, Named
    <3>2. Ordered!Take(var[x], k)
      BY <2>6, PopSeen
    <3> QED
      BY <3>1, <3>2 DEF Ordered!ONext
  <2>7. Ordered!Evaluate => Ordered!ONext
    BY DEF Ordered!ONext
  <2> QED
    BY <1>1, <2>1, <2>2, <2>3, <2>4, <2>5, <2>6, <2>7 DEF ValueStatement
<1>2. CASE EntryStatement
  <2>1. CASE StoreEntry
    BY <2>1, StoreEntrySeen
  <2>2. ASSUME NEW x \in Var, Clear(x)
        PROVE  Ordered!ONext
    BY <2>2, ClearSeen DEF Ordered!ONext
  <2>3. ASSUME NEW x \in Var, NEW k \in Text,
               \/ SetHeld(x, k) \/ \E v \in Val : SetFresh(x, k, v)
               \/ \E y \in Var, l \in Text : SetGet(x, k, y, l)
        PROVE  Ordered!ONext
    BY <2>3, SetsSeen DEF Ordered!ONext
  <2> QED
    BY <1>2, <2>1, <2>2, <2>3 DEF EntryStatement
<1>3. CASE DictStatement
  <2>1. CASE StoreDict
    BY <2>1, StoreDictSeen DEF Ordered!ONext
  <2>2. CASE FillPair \/ Filled
    BY <2>2, FillPairSeen, FilledSeen
  <2>3. ASSUME NEW x \in Var, DropVar(x)
        PROVE  Ordered!ONext
    BY <2>3, DropVarSeen DEF Ordered!ONext
  <2>4. ASSUME NEW x \in Var, NEW y \in Var, AssignVar(x, y)
        PROVE  Ordered!ONext
    BY <2>4, AssignVarSeen DEF Ordered!ONext
  <2>5. ASSUME NEW x \in Var, NEW y \in Var, NEW d \in Dict, AssignCopy(x, y, d)
        PROVE  Ordered!ONext
    BY <2>5, AssignCopySeen DEF Ordered!ONext
  <2>6. ASSUME NEW x \in Var, NEW d \in Dict, NEW ks \in Literals, AssignLiteral(x, d, ks)
        PROVE  Ordered!ONext
    BY <2>6, AssignLiteralSeen DEF Ordered!ONext
  <2> QED
    BY <1>3, <2>1, <2>2, <2>3, <2>4, <2>5, <2>6 DEF DictStatement
<1>4. CASE ForStatement
  <2>1. CASE ForNext
    BY <2>1, ForNextSeen DEF Ordered!ONext
  <2>2. CASE ForEnd
    BY <2>2, ForEndSeen DEF Ordered!ONext
  <2>3. ASSUME NEW x \in Var, ForStart(x)
        PROVE  Ordered!ONext
    BY <2>3, ForStartSeen DEF Ordered!ONext
  <2> QED
    BY <1>4, <2>1, <2>2, <2>3 DEF ForStatement
<1> QED
  BY <1>1, <1>2, <1>3, <1>4 DEF Next

(***************************************************************************)
(* The parallel arrays with their key copies behave as maps that remember  *)
(* the order of insertion, for any number of dicts and keys: each step of  *)
(* the runtime is one step of a program on such maps, or none, and a dict  *)
(* disappears only when nothing names it.                                  *)
(***************************************************************************)
THEOREM Refinement == Spec => ImplementsOrderedMaps
<1>1. Init => Ordered!OInit /\ InStep
  BY InitSeen
<1>2. IInv /\ InStep /\ [Next]_vars => InStep'
  BY InStepNext
<1>3. IInv /\ IInv' /\ InStep /\ [Next]_vars => [Ordered!ONext]_(Ordered!ovars)
  BY NextSeen, StutterSeen
<1>4. Spec => []IInv
  BY Inductive
<1> QED
  BY <1>1, <1>2, <1>3, <1>4, PTL DEF Spec, ImplementsOrderedMaps, Ordered!OSpec
=============================================================================
