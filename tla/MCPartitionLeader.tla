------------------------- MODULE MCPartitionLeader --------------------------
(* PartitionLeader on small sets of brokers and connections.               *)
EXTENDS PartitionLeader, TLC

\* Followers, producers and consumers are interchangeable.
Symmetry ==
    Permutations(Followers) \cup Permutations(Producers)
        \cup Permutations(Consumers)
=============================================================================
