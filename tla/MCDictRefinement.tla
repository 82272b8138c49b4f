--------------------------- MODULE MCDictRefinement --------------------------
EXTENDS DictRefinement, TLC

Renaming == Permutations(Dict) \cup Permutations(KeyAddr) \cup Permutations(Text)
            \cup Permutations(Val)
=============================================================================
