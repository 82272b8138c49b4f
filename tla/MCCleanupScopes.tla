--------------------------- MODULE MCCleanupScopes ---------------------------
EXTENDS CleanupScopes, TLC

CONSTANTS n1, n2

\* Two names, enough for one local to shadow another.
Names == {n1, n2}
Renaming == Permutations(Names)
=============================================================================
