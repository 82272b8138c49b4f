----------------------------- MODULE ManagedLists -----------------------------
(***************************************************************************)
(* What the language promises about lists: a list is an object with an     *)
(* identity, an assignment shares it, each statement takes effect at once, *)
(* and storage may be reclaimed only when nothing the program can still    *)
(* reach leads to it.  Nothing here counts references; the runtime that    *)
(* does is shown to implement this (ListRefinement).                       *)
(***************************************************************************)
EXTENDS Naturals, Sequences, FiniteSets

CONSTANTS Obj, Var, NULL, MaxLen

VARIABLES
  local,   (* the list each local names, NULL when it is out of scope      *)
  temp,    (* the value of the expression being assigned or stored         *)
  over,    (* the list a for loop runs over                                *)
  pos,     (* how many of its elements the loop has visited                *)
  list,    (* the elements of each list                                    *)
  alive    (* the lists that have not been reclaimed                       *)

avars == <<local, temp, over, pos, list, alive>>

AInit ==
  /\ local = [v \in Var |-> NULL]
  /\ temp = NULL /\ over = NULL /\ pos = 0
  /\ list = [o \in Obj |-> << >>]
  /\ alive = {}

\* The lists that can be reached from roots: those in every set that has the
\* roots and, with a list, its elements.
Reachable(roots, elems) ==
  LET closed(S) ==
        /\ roots \ {NULL} \subseteq S
        /\ \A o \in S : \A i \in DOMAIN elems[o] : elems[o][i] \in S
  IN {o \in Obj : \A S \in SUBSET Obj : closed(S) => o \in S}

\* Storage is reclaimed, never while the program can reach it.
Reclaim(allocated) ==
  /\ alive' \subseteq alive \cup allocated
  /\ Reachable({local'[v] : v \in Var} \cup {temp', over'}, list') \subseteq alive'

Elements(o) == {list[o][i] : i \in DOMAIN list[o]}
But(f, o, s) == [f EXCEPT ![o] = s]

\* Unreachable lists may lose their elements when they are reclaimed.
Elems(f) == \A o \in alive' : list'[o] = f[o]

Keep == UNCHANGED <<local, temp, over, pos>> /\ Elems(list)

\* The value of an expression: a name, an element, a popped element, or a new list.
Evaluate ==
  /\ temp = NULL
  /\ UNCHANGED <<local, over, pos>>
  /\ \/ \E w \in Var : temp' = local[w] /\ temp' # NULL /\ Elems(list)
     \/ \E w \in Var : /\ local[w] # NULL
                       /\ \/ temp' \in Elements(local[w]) /\ Elems(list)
                          \/ LET s == list[local[w]]
                             IN /\ s # << >> /\ temp' = s[Len(s)]
                                /\ Elems(But(list, local[w], SubSeq(s, 1, Len(s) - 1)))

EvaluateNew(o) ==
  /\ temp = NULL /\ o \notin alive
  /\ temp' = o
  /\ Elems(But(list, o, list'[o]))
  /\ \/ \E w \in Var : local[w] # NULL /\ list'[o] = list[local[w]]
     \/ \A i \in DOMAIN list'[o] : \E w \in Var : list'[o][i] = local[w]
  /\ UNCHANGED <<local, over, pos>>

Store(v) ==
  /\ temp # NULL
  /\ local' = [local EXCEPT ![v] = temp] /\ temp' = NULL
  /\ UNCHANGED <<over, pos>> /\ Elems(list)

Discard == temp # NULL /\ temp' = NULL /\ UNCHANGED <<local, over, pos>> /\ Elems(list)

EndScope(v) ==
  /\ local' = [local EXCEPT ![v] = NULL]
  /\ UNCHANGED <<temp, over, pos>> /\ Elems(list)

\* The values a statement can pass to append or to an item assignment.
Argument == {temp} \cup UNION {{local[u]} \cup Elements(local[u]) : u \in {x \in Var : local[x] # NULL}}

AppendTo(l) ==
  /\ \E e \in Argument \ {NULL} : Elems(But(list, l, Append(list[l], e)))
  /\ UNCHANGED <<local, temp, over, pos>>

SetIn(l) ==
  /\ \E e \in Argument \ {NULL}, i \in DOMAIN list[l] : Elems(But(list, l, [list[l] EXCEPT ![i] = e]))
  /\ temp' = NULL
  /\ UNCHANGED <<local, over, pos>>

ClearAll(l) == Elems(But(list, l, << >>)) /\ UNCHANGED <<local, temp, over, pos>>

Begin ==
  /\ over = NULL /\ over' # NULL /\ pos' = 0
  /\ \E w \in Var : local[w] # NULL /\ over' \in {local[w]} \cup Elements(local[w])
  /\ UNCHANGED <<local, temp>> /\ Elems(list)

Visit(v) ==
  /\ over # NULL /\ pos < Len(list[over])
  /\ local' = [local EXCEPT ![v] = list[over][pos + 1]]
  /\ pos' = pos + 1
  /\ UNCHANGED <<temp, over>> /\ Elems(list)

Finish ==
  /\ over # NULL /\ over' = NULL /\ pos' = 0
  /\ UNCHANGED <<local, temp>> /\ Elems(list)

ANext ==
  \/ /\ \/ Keep \/ Evaluate \/ Discard \/ Begin \/ Finish
        \/ \E v \in Var : Store(v) \/ EndScope(v) \/ Visit(v)
        \/ \E v \in Var : /\ local[v] # NULL
                          /\ AppendTo(local[v]) \/ SetIn(local[v]) \/ ClearAll(local[v])
     /\ Reclaim({})
  \/ \E o \in Obj : EvaluateNew(o) /\ Reclaim({o})

ASpec == AInit /\ [][ANext]_avars
=============================================================================
