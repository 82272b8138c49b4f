SPECIFICATION Spec
CONSTANTS
  Dict = {d1, d2}
  KeyAddr = {a1, a2, a3}
  Text = {s, t, r}
  Val = {u, v}
  Var = {x}
  NULL = NULL
  MaxLen = 3
  MaxLost = 1
SYMMETRY Renaming
INVARIANTS CountsExact NoDangling KeysOwnedOnce LoopFaithful
PROPERTIES ImplementsOrderedMaps
