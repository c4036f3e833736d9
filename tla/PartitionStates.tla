--------------------------- MODULE PartitionStates ---------------------------
(***************************************************************************)
(* What package coordinator does to one PartitionState, as operators on    *)
(* records. LastCaughtUp is abstracted to the set of followers that have   *)
(* an entry; how old an entry is, is for the user of Ticked to say.        *)
(***************************************************************************)
EXTENDS Integers, Sequences, SequencesExt

NewState(leader, replicas, isr) ==
    [leader |-> leader, replicas |-> replicas, isr |-> isr,
     LEO |-> 0, HWM |-> 0, replicaLEO |-> [r \in {} |-> 0], caughtUp |-> {}]

\* SetLeader of a partition the store does not know.
SetLeader(b) == NewState(b, <<b>>, {b})

\* AssignReplicas: the replicas of partition p, round-robin over the ids, of
\* which only the first is in sync.
AssignReplicas(p, replicationFactor, ids) ==
    LET replicas == [i \in 1 .. replicationFactor |->
                        ids[((p + i - 1) % Len(ids)) + 1]]
    IN NewState(replicas[1], replicas, {replicas[1]})

\* AdvanceHWM: up to what the leader and every in-sync follower have; a
\* follower that has not fetched has nothing.
AdvanceHWM(ps) ==
    LET leos == {ps.LEO} \cup
                {IF f \in DOMAIN ps.replicaLEO THEN ps.replicaLEO[f] ELSE 0 :
                    f \in ps.isr \ {ps.leader}}
        low == CHOOSE l \in leos : \A m \in leos : l <= m
    IN IF low > ps.HWM THEN [ps EXCEPT !.HWM = low] ELSE ps

OnLeaderAppend(ps, lastOffset) ==
    AdvanceHWM(IF lastOffset + 1 > ps.LEO THEN [ps EXCEPT !.LEO = lastOffset + 1]
                                          ELSE ps)

UpdateReplicaLEO(ps, follower, upto) ==
    AdvanceHWM([ps EXCEPT
        !.replicaLEO = [f \in DOMAIN @ \cup {follower} |->
                           IF f = follower THEN upto ELSE @[f]],
        !.caughtUp = IF upto >= ps.LEO THEN @ \cup {follower} ELSE @])

\* The followers a tick of the ISR manager removes, when those in expired have
\* not been caught up for lagMax, and the replicas it adds.
Laggards(ps, expired) ==
    {f \in ps.isr \ {ps.leader} : f \notin ps.caughtUp \/ f \in expired}


Returning(ps) ==
    {r \in ToSet(ps.replicas) \ (ps.isr \cup {ps.leader}) :
        r \in DOMAIN ps.replicaLEO /\ ps.replicaLEO[r] >= ps.HWM}

\* The state after a tick that changed something (checkMinISR wakes producers
\* and changes nothing here).
Ticked(ps, expired) ==
    AdvanceHWM([ps EXCEPT !.isr = (@ \ Laggards(ps, expired)) \cup Returning(ps)])
=============================================================================
