SPECIFICATION Spec
CONSTANTS
  Program <- MCProgram
  Private <- MCPrivate
  NoClass = NoClass
  MaxFields = 2
INVARIANTS
  Verdict
  Dispatch
  DefinedBeforeUse
  EncodersExact
PROPERTY Ends
CHECK_DEADLOCK FALSE
