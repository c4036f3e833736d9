---------------------------- MODULE MCGroupStore ----------------------------
EXTENDS GroupStore

Symmetry == Permutations(Members) \cup Permutations(Plans)
=============================================================================
