CONSTANTS
  Programs <- MCPrograms
  MaxTuple = 2
  MaxClass = 2
  MaxList = 2
  MaxNative = 2
  MaxOptional = 2
  MaxDict = 2
  MaxEnum = 1
  MaxElements = 2
  MaxName = 128
  NULL = NULL
SPECIFICATION Spec
INVARIANTS
  NumbersFaithful
  VerdictRight
  AssignableRight
  NamesApart
CHECK_DEADLOCK FALSE
