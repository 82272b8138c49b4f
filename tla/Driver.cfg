CONSTANTS
  CommandLines <- MCCommandLines
  PathOf <- MCPathOf
  Sorted <- MCSorted
  Below <- MCBelow
  TestStems = {"a_test", "b_test", "lost_test"}
  NULL = NULL
SPECIFICATION Spec
INVARIANTS
  NoStray
  ExitTells
  SourcesKept
  VerdictsOwn
CHECK_DEADLOCK FALSE
