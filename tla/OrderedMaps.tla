----------------------------- MODULE OrderedMaps -----------------------------
(***************************************************************************)
(* What the language promises about dict[str, V]: a dict is an object with *)
(* an identity that maps strings to values and remembers the order in      *)
(* which the keys were first inserted.  Nothing here knows about arrays,   *)
(* key copies or reference counts.                                         *)
(***************************************************************************)
EXTENDS Naturals, Sequences, FiniteSets

CONSTANTS Dict, Text, Val, Var, NULL, MaxLen

VARIABLES
  map,     (* map[d]: [order, at], NULL when d does not exist              *)
  local,   (* the dict each local names                                    *)
  fresh,   (* the dict being assigned                                      *)
  value,   (* the value held by a local                                    *)
  result,  (* the value being assigned to it                               *)
  over,    (* the dict a for loop runs over                                *)
  visited  (* the keys the loop has visited                                *)

ovars == <<map, local, fresh, value, result, over, visited>>

Empty == [order |-> << >>, at |-> [k \in {} |-> NULL]]
Keys(m) == DOMAIN m.at

Put(m, k, v) ==
  [order |-> IF k \in Keys(m) THEN m.order ELSE Append(m.order, k),
   at    |-> [l \in Keys(m) \cup {k} |-> IF l = k THEN v ELSE m.at[l]]]

\* The other keys keep their order.
Remove(m, k) ==
  LET i == CHOOSE j \in DOMAIN m.order : m.order[j] = k
  IN [order |-> SubSeq(m.order, 1, i - 1) \o SubSeq(m.order, i + 1, Len(m.order)),
      at    |-> [l \in Keys(m) \ {k} |-> m.at[l]]]

\* The keys ks put in this order, all with the value v.
PutAll(m, ks, v) ==
  LET with[n \in 0 .. Len(ks)] == IF n = 0 THEN m ELSE Put(with[n - 1], ks[n], v)
  IN with[Len(ks)]

InUse == {local[x] : x \in Var} \cup {fresh, over}

\* m is the new content of the dicts; a dict may go when nothing names it.
Becomes(m) ==
  \A d \in Dict : map'[d] = m[d] \/ (map'[d] = NULL /\ d \notin InUse')
With(d, m) == [map EXCEPT ![d] = m]

OInit ==
  /\ map = [d \in Dict |-> NULL] /\ local = [x \in Var |-> NULL]
  /\ fresh = NULL /\ value = NULL /\ result = NULL
  /\ over = NULL /\ visited = << >>

\* Expressions of type V leave every dict alone.  Which value one has is not
\* promised here, except for pop.
Evaluate ==
  /\ UNCHANGED <<map, local, fresh, value, over, visited>>
  /\ result = NULL /\ result' \in Val

\* pop: the entry is gone at once, the value is assigned or discarded.
Take(d, k) ==
  /\ UNCHANGED <<local, fresh, value, over, visited>>
  /\ result = NULL /\ k \in Keys(map[d])
  /\ result' = map[d].at[k]
  /\ Becomes(With(d, Remove(map[d], k)))

Store == value' = result /\ result' = NULL /\ UNCHANGED <<map, local, fresh, over, visited>>
Discard == result # NULL /\ result' = NULL /\ UNCHANGED <<map, local, fresh, value, over, visited>>
Forget == value' = NULL /\ UNCHANGED <<map, local, fresh, result, over, visited>>

Assign(d, k) ==
  /\ UNCHANGED <<local, fresh, value, result, over, visited>>
  /\ \E v \in Val : Becomes(With(d, Put(map[d], k, v)))

Clear(d) == UNCHANGED <<local, fresh, value, result, over, visited>> /\ Becomes(With(d, Empty))

\* A dict expression: a name, a copy, or a literal.
Share(d) ==
  /\ UNCHANGED <<map, local, value, result, over, visited>>
  /\ fresh = NULL /\ fresh' = d

Create(d) ==
  /\ UNCHANGED <<local, value, result, over, visited>>
  /\ fresh = NULL /\ map[d] = NULL /\ fresh' = d
  /\ \/ \E x \in Var : local[x] # NULL /\ Becomes(With(d, map[local[x]]))
     \/ \E n \in 0 .. MaxLen : \E ks \in [1 .. n -> Text] : Becomes(With(d, PutAll(Empty, ks, value)))

Bind(x) ==
  /\ UNCHANGED <<value, result, over, visited>>
  /\ fresh # NULL /\ fresh' = NULL
  /\ local' = [local EXCEPT ![x] = fresh]
  /\ Becomes(map)

EndScope(x) ==
  /\ UNCHANGED <<fresh, value, result, over, visited>>
  /\ local' = [local EXCEPT ![x] = NULL] /\ Becomes(map)

Begin(d) ==
  /\ UNCHANGED <<map, local, fresh, value, result>>
  /\ over = NULL /\ over' = d /\ visited' = << >>

\* The n-th iteration visits the n-th key.
Visit ==
  /\ UNCHANGED <<map, local, fresh, value, result, over>>
  /\ over # NULL /\ Len(visited) < Len(map[over].order)
  /\ visited' = Append(visited, map[over].order[Len(visited) + 1])

End ==
  /\ UNCHANGED <<local, fresh, value, result>>
  /\ over # NULL /\ over' = NULL /\ visited' = << >> /\ Becomes(map)

ONext ==
  \/ Evaluate \/ Store \/ Discard \/ Forget \/ Visit \/ End
  \/ \E d \in Dict : Create(d)
  \/ \E x \in Var : Bind(x) \/ EndScope(x)
  \/ \E x \in {y \in Var : local[y] # NULL} :
       \/ Clear(local[x]) \/ Share(local[x]) \/ Begin(local[x])
       \/ \E k \in Text : Take(local[x], k) \/ Assign(local[x], k)

OSpec == OInit /\ [][ONext]_ovars
=============================================================================
