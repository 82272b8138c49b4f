SPECIFICATION Spec
CONSTANTS
  Column <- MCColumn
  Kind <- MCKind
  MaxLevels = 3
  MaxLines = 5
INVARIANTS
  AcceptedFaithful
  RejectedJustified
CHECK_DEADLOCK FALSE
