SPECIFICATION Spec
CONSTANTS
  Program <- Trees
  Private <- MCPrivate
  NoClass = NoClass
  MaxFields = 2
INVARIANT SupportCheckReturns
CHECK_DEADLOCK FALSE
