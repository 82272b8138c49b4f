\* Two lists, so that values passed inline to append and set can be counted.
CONSTANTS
  Obj = {a, b}
  Var = {x, y}
  LoopVar = y
  NULL = NULL
  MaxLen = 2
  MaxLost = 1
SPECIFICATION FairSpec
INVARIANTS
  RefCountExact
  NoDangling
  GarbageIsExplained
PROPERTIES
  ImplementsManagedLists
  StatementsFinish
\* When every address is leaked and no local is left the program has stopped.
CHECK_DEADLOCK FALSE
