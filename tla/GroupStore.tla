----------------------------- MODULE GroupStore -----------------------------
(***************************************************************************)
(* One consumer group: its rebalance state machine, the JoinGroup and      *)
(* SyncGroup handlers that block on it, the members that come, go, retry   *)
(* and expire, and the rebalance timer. Every handler holds gs.mu to its   *)
(* end, so it is one step. The closure of a rebalance timer reads the      *)
(* generation without gs.mu some time after the timer ended, and takes     *)
(* gs.mu later still.                                                      *)
(***************************************************************************)
EXTENDS Integers, FiniteSets, Sequences, SequencesExt

CONSTANTS
    Members,     \* member ids
    NoMember,
    Plans,       \* assignments a leader may compute
    NoPlan,
    Retries,     \* may a client send again while its request is blocked?
    MaxGen,      \* bound: generations of the group
    MaxLives,    \* bound: times the group is created
    MaxPending   \* bound: blocked JoinGroup handlers

ASSUME ConstantsAssumption ==
    /\ NoMember \notin Members
    /\ NoPlan \notin Plans
    /\ Retries \in BOOLEAN
    /\ MaxGen \in Nat /\ MaxLives \in Nat /\ MaxPending \in Nat

VARIABLES
    group,     \* gs.groups[groupId]
    life,      \* how often the group was created; 0 < life iff it ever was
    expired,   \* has a timer's goroutine started and not read the generation?
    fired,     \* expectedGeneration of callbacks that wait for gs.mu
    panicked,  \* a goroutine indexed an empty pendingJoins: the broker died
    client,    \* per member, the request its current connection is blocked on
    joined,    \* per member, its last JoinGroup answer
    synced     \* per member, its last SyncGroup answer

vars == <<group, life, expired, fired, panicked, client, joined, synced>>

States == {"none", "Preparing", "Completing", "Stable", "Dead"}

Groups == [State : States,                       \* "none": not in gs.groups
           GenerationId : 0 .. MaxGen,
           LeaderId : Members \cup {NoMember},
           members : SUBSET Members,
           pendingJoins : Seq(Members),
           pendingSyncs : SUBSET Members,
           leaderAssignment : Plans \cup {NoPlan},
           rebalanceTimer : BOOLEAN]             \* is it armed?

NoGroup == [State |-> "none", GenerationId |-> 0, LeaderId |-> NoMember,
            members |-> {}, pendingJoins |-> <<>>, pendingSyncs |-> {},
            leaderAssignment |-> NoPlan, rebalanceTimer |-> FALSE]

TypeOK ==
    /\ group \in Groups
    /\ Len(group.pendingJoins) <= MaxPending
    /\ life \in 0 .. MaxLives
    /\ expired \in BOOLEAN
    /\ fired \subseteq 0 .. MaxGen
    /\ panicked \in BOOLEAN
    /\ client \in [Members -> {"idle", "joining", "syncing"}]
    /\ joined \in [Members -> [life : 0 .. MaxLives, gen : 0 .. MaxGen,
                               leader : Members \cup {NoMember}]]
    /\ synced \in [Members -> [life : 0 .. MaxLives, gen : 0 .. MaxGen,
                               plan : Plans \cup {NoPlan}]]

Init ==
    /\ group = NoGroup
    /\ life = 0
    /\ expired = FALSE
    /\ fired = {}
    /\ panicked = FALSE
    /\ client = [m \in Members |-> "idle"]
    /\ joined = [m \in Members |-> [life |-> 0, gen |-> 0, leader |-> NoMember]]
    /\ synced = [m \in Members |-> [life |-> 0, gen |-> 0, plan |-> NoPlan]]

\* A client sends a request: on a new connection if the old one is blocked.
MaySend(m) == ~panicked /\ (client[m] = "idle" \/ Retries)

(***************************************************************************)
(* transitionToPrepareRebalance and maybeCloseJoinBarrier.                 *)
(***************************************************************************)

\* Mutants of Transition: the generation is counted twice or only once, blocked
\* SyncGroup or JoinGroup handlers stay, or no timer is started.
TransitionTwice(g) ==
    [g EXCEPT !.State = "Preparing", !.GenerationId = @ + 2,
              !.LeaderId = NoMember, !.leaderAssignment = NoPlan,
              !.pendingJoins = <<>>, !.pendingSyncs = {},
              !.rebalanceTimer = TRUE]

TransitionSameGen(g) ==
    [g EXCEPT !.State = "Preparing", !.LeaderId = NoMember,
              !.GenerationId = IF @ = 0 THEN 1 ELSE @,
              !.leaderAssignment = NoPlan, !.pendingJoins = <<>>,
              !.pendingSyncs = {}, !.rebalanceTimer = TRUE]

TransitionKeepsSyncs(g) ==
    [g EXCEPT !.State = "Preparing", !.GenerationId = @ + 1,
              !.LeaderId = NoMember, !.leaderAssignment = NoPlan,
              !.pendingJoins = <<>>, !.rebalanceTimer = TRUE]

TransitionKeepsJoins(g) ==
    [g EXCEPT !.State = "Preparing", !.GenerationId = @ + 1,
              !.LeaderId = NoMember, !.leaderAssignment = NoPlan,
              !.pendingSyncs = {}, !.rebalanceTimer = TRUE]

TransitionNoTimer(g) ==
    [g EXCEPT !.State = "Preparing", !.GenerationId = @ + 1,
              !.LeaderId = NoMember, !.leaderAssignment = NoPlan,
              !.pendingJoins = <<>>, !.pendingSyncs = {}]

\* g with a new generation in preparation. Whoever was blocked is forgotten.
Transition(g) ==
    [g EXCEPT !.State = "Preparing", !.GenerationId = @ + 1,
              !.LeaderId = NoMember, !.leaderAssignment = NoPlan,
              !.pendingJoins = <<>>, !.pendingSyncs = {},
              !.rebalanceTimer = TRUE]

\* Has the barrier as many joins as members?
Closes(g) ==
    /\ g.State = "Preparing"
    /\ Len(g.pendingJoins) = Cardinality(g.members)

\* The end of a handler that leaves the group as g and clients as blocked: if
\* the barrier closes, every blocked JoinGroup is answered.
MaybeCloseJoinBarrier(g, blocked) ==
    IF Closes(g)
    THEN LET joiners == ToSet(g.pendingJoins)
             leader == Head(g.pendingJoins) IN
         /\ group' = [g EXCEPT !.State = "Completing", !.LeaderId = leader,
                               !.pendingJoins = <<>>, !.rebalanceTimer = FALSE]
         /\ client' = [m \in Members |->
                         IF m \in joiners /\ blocked[m] = "joining"
                         THEN "idle" ELSE blocked[m]]
         /\ joined' = [m \in Members |->
                         IF m \in joiners /\ blocked[m] = "joining"
                         THEN [life |-> life', gen |-> g.GenerationId,
                               leader |-> leader]
                         ELSE joined[m]]
    ELSE group' = g /\ client' = blocked /\ UNCHANGED joined

(***************************************************************************)
(* The handlers.                                                           *)
(***************************************************************************)

JoinGroup(m) ==
    /\ MaySend(m)
    /\ Len(group.pendingJoins) < MaxPending
    /\ life' = IF group.State = "none" THEN life + 1 ELSE life
    /\ life' <= MaxLives
    /\ LET added == [group EXCEPT !.members = @ \cup {m}]
           rebalances == group.State \in {"none", "Stable", "Dead"}
           g == IF rebalances THEN Transition(added) ELSE added
       IN /\ rebalances => group.GenerationId < MaxGen
          /\ MaybeCloseJoinBarrier([g EXCEPT !.pendingJoins = Append(@, m)],
                                   [client EXCEPT ![m] = "joining"])
    /\ UNCHANGED <<expired, fired, panicked, synced>>

\* m is no longer a member; the group dies with its last one, otherwise it
\* rebalances.
RemoveMember(m) ==
    LET g == [group EXCEPT !.members = @ \ {m}] IN
    /\ m \in group.members
    /\ IF g.members = {}
       THEN group' = [g EXCEPT !.State = "Dead"]
       ELSE group.GenerationId < MaxGen /\ group' = Transition(g)

LeaveGroup(m) ==
    /\ MaySend(m)
    /\ RemoveMember(m)
    /\ client' = [client EXCEPT ![m] = "idle"]
    /\ UNCHANGED <<life, expired, fired, panicked, joined, synced>>

\* evictMember: the session timer of a member runs out. Its client may be
\* alive and blocked, and knows nothing of it.
EvictMember(m) ==
    /\ ~panicked
    /\ RemoveMember(m)
    /\ UNCHANGED <<life, expired, fired, panicked, client, joined, synced>>

\* The clients in ms, blocked in SyncGroup, are answered with plan p.
AnswerSyncs(ms, p) ==
    /\ client' = [m \in Members |-> IF m \in ms THEN "idle" ELSE client[m]]
    /\ synced' = [m \in Members |->
                    IF m \in ms THEN [life |-> life, gen |-> group.GenerationId,
                                      plan |-> p]
                                ELSE synced[m]]

\* Mutant of SyncAccepted: the group's state is not checked.
SyncAcceptedAlways(m) ==
    /\ group.State # "none"
    /\ joined[m].gen = group.GenerationId

\* SyncGroup's checks. Nothing checks that m is a member.
SyncAccepted(m) ==
    /\ group.State = "Completing"
    /\ joined[m].gen = group.GenerationId

\* The leader's SyncGroup, with its assignments.
SyncGroupLeader(m, p) ==
    /\ MaySend(m)
    /\ SyncAccepted(m)
    /\ m = group.LeaderId
    /\ group' = [group EXCEPT !.leaderAssignment = p, !.pendingSyncs = {},
                              !.State = "Stable"]
    /\ AnswerSyncs({m} \cup {f \in group.pendingSyncs : client[f] = "syncing"}, p)
    /\ UNCHANGED <<life, expired, fired, panicked, joined>>

\* Any SyncGroup without assignments waits for the leader's. (leaderAssignment
\* is nil until the group is Stable: the code's immediate answer cannot happen.)
SyncGroupFollower(m) ==
    /\ MaySend(m)
    /\ SyncAccepted(m)
    /\ group' = [group EXCEPT !.pendingSyncs = @ \cup {m}]
    /\ client' = [client EXCEPT ![m] = "syncing"]
    /\ UNCHANGED <<life, expired, fired, panicked, joined, synced>>

(***************************************************************************)
(* Timers.                                                                 *)
(***************************************************************************)

\* The rebalance timer ends and its goroutine starts. Stop has no effect on it
\* any more. (Bound: one such goroutine at a time.)
TimerFires ==
    /\ ~panicked
    /\ group.rebalanceTimer
    /\ ~expired
    /\ expired' = TRUE
    /\ group' = [group EXCEPT !.rebalanceTimer = FALSE]
    /\ UNCHANGED <<life, fired, panicked, client, joined, synced>>

\* The closure evaluates group.GenerationId, which may have moved on.
TimerReads ==
    /\ ~panicked
    /\ expired
    /\ expired' = FALSE
    /\ fired' = fired \cup {group.GenerationId}
    /\ UNCHANGED <<group, life, panicked, client, joined, synced>>

\* onRebalanceTimeout: whoever has not joined is dropped.
OnRebalanceTimeout(expectedGeneration) ==
    LET g == [group EXCEPT !.members = @ \cap ToSet(group.pendingJoins)] IN
    /\ ~panicked
    /\ expectedGeneration \in fired
    /\ fired' = fired \ {expectedGeneration}
    /\ UNCHANGED <<life, expired, synced>>
    /\ \/ /\ group.State = "none" \/ group.GenerationId # expectedGeneration
          /\ UNCHANGED <<group, panicked, client, joined>>
       \/ /\ group.State # "none" /\ group.GenerationId = expectedGeneration
          /\ IF Closes(g) /\ g.pendingJoins = <<>>
             THEN panicked' = TRUE /\ UNCHANGED <<group, client, joined>>
             ELSE MaybeCloseJoinBarrier(g, client) /\ UNCHANGED panicked

\* scheduleGroupCleanup's callback. The closure of a timer that has not read
\* the old group's generation will read the one it has now.
CleanupGroup ==
    /\ ~panicked
    /\ group.State = "Dead"
    /\ group' = NoGroup
    /\ fired' = IF group.rebalanceTimer \/ expired
                THEN fired \cup {group.GenerationId} ELSE fired
    /\ expired' = FALSE
    /\ UNCHANGED <<life, panicked, client, joined, synced>>

TimerStep ==
    \/ TimerFires
    \/ TimerReads
    \/ \E g \in fired : OnRebalanceTimeout(g)

Next ==
    \/ \E m \in Members :
          \/ JoinGroup(m)
          \/ LeaveGroup(m)
          \/ EvictMember(m)
          \/ SyncGroupFollower(m)
          \/ \E p \in Plans : SyncGroupLeader(m, p)
    \/ TimerStep
    \/ CleanupGroup

Spec == Init /\ [][Next]_vars

\* Timers fire and their callbacks get gs.mu. Clients owe nothing.
FairSpec == Spec /\ WF_vars(TimerStep)

(***************************************************************************)
(* Properties.                                                             *)
(***************************************************************************)

\* All JoinGroup answers of one generation name the same leader, whichever
\* handler or timer closed the barrier and whoever retried.
OneLeader ==
    \A m, n \in Members :
        /\ joined[m].gen > 0
        /\ joined[m].gen = joined[n].gen
        /\ joined[m].life = joined[n].life
        => joined[m].leader = joined[n].leader

\* All SyncGroup answers of one generation come from the same assignment, so
\* two members of a generation never work from different plans.
OnePlan ==
    \A m, n \in Members :
        /\ synced[m].gen > 0
        /\ synced[m].gen = synced[n].gen
        /\ synced[m].life = synced[n].life
        => synced[m].plan = synced[n].plan

\* A SyncGroup that was blocked while the group went on to another generation
\* is never answered with that generation's assignment.
SyncedAsAsked ==
    [][\A m \in Members :
          synced'[m] # synced[m] => synced'[m].gen = joined[m].gen]_vars

\* When the barrier closes, by a join or by the timer, the leader is one of the
\* members and is being answered: joins of members that left are not counted.
LeaderIsMember ==
    [][group.State # "Completing" /\ group'.State = "Completing" =>
          group'.LeaderId \in group'.members]_vars

\* A generation does not stay in preparation: when the rebalance timer ends it is
\* completed or superseded, or the process ends in the panic TimeoutCompletes is
\* about. True of clients that wait for their answers; with Retries, doubled
\* joins can outnumber the members the timeout leaves, and the barrier stays.
BarrierResolves ==
    \A g \in 1 .. MaxGen, n \in 1 .. MaxLives :
        group.State = "Preparing" /\ group.GenerationId = g /\ life = n
        ~> \/ panicked
           \/ ~(group.State = "Preparing" /\ group.GenerationId = g /\ life = n)

\* full_flow.md: "PreparingRebalance -> CompletingRebalance (all members joined
\* or timeout)": the timeout of a generation nobody joined does not end in a
\* panic of maybeCloseJoinBarrier.
TimeoutCompletes == ~panicked

\* README: "Join barrier blocks JoinGroup responses until every known member
\* has re-joined": members left when the barrier closes have been answered.
BarrierWaitsForAll ==
    [][group.State # "Completing" /\ group'.State = "Completing" =>
          \A m \in group'.members :
             joined'[m] = [life |-> life', gen |-> group'.GenerationId,
                           leader |-> group'.LeaderId]]_vars

\* full_flow.md: HandleJoinGroupApi "blocks the handler goroutine until either
\* all expected members have joined or rebalanceTimeout elapses".
JoinIsAnswered ==
    \A m \in Members :
        client[m] = "joining" ~> (client[m] # "joining" \/ panicked)

\* full_flow.md: "Stable -> PreparingRebalance (member joined or left, heartbeat
\* timeout)": a stable group does not lose members without a rebalance.
LossRebalances ==
    [][group.State = "Stable" /\ ~(group.members \subseteq group'.members) =>
          group'.State \in {"Preparing", "Dead"}]_vars
=============================================================================
