---------------------------- MODULE MCListRuntime ----------------------------
\* Instance of ListRuntime for TLC: addresses are interchangeable.
EXTENDS ListRefinement, TLC

Addresses == Permutations(Obj)
=============================================================================
