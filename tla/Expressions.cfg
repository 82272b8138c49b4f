CONSTANTS
  Statements <- AllStatements
  MaxRounds = 2
SPECIFICATION Spec
CHECK_DEADLOCK FALSE
INVARIANTS
  InOrder
  Released
  NoDangling
