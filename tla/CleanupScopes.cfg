CONSTANTS
  n1 = n1
  n2 = n2
  Name <- Names
  NULL = NULL
  MaxStmts = 4
  MaxDepth = 4
SPECIFICATION Spec
SYMMETRY Renaming
INVARIANTS
  ReleasesSound
  LeaksExplained
  ResultOwned
  NoFallThrough
CHECK_DEADLOCK FALSE
