---------------------------- MODULE MCPidManager ----------------------------
EXTENDS PidManager, TLC

Symmetry == Permutations(Requests)
=============================================================================
