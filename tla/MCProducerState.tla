--------------------------- MODULE MCProducerState ---------------------------
EXTENDS ProducerState

Symmetry == Permutations(Pids)

\* Once a restart has lost state, every property but TypeOK says nothing.
StillCounts == ~lossy \/ crashes = 0
=============================================================================
