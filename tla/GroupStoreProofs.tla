-------------------------- MODULE GroupStoreProofs --------------------------
(***************************************************************************)
(* Agreement within a generation of a consumer group, for every number of  *)
(* members, with retries, expiry, late timers and a group that dies and    *)
(* is created again under its name.                                        *)
(***************************************************************************)
EXTENDS GroupStore, TLAPS

\* What answer j of JoinGroup has to do with the group g in its n-th life: it is
\* of the past, or of this generation and names its leader.
JoinKnown(j, n, g) ==
    /\ j.life <= n
    /\ j.life = n /\ g.State # "none" =>
          /\ j.gen <= g.GenerationId
          /\ j.gen = g.GenerationId => g.State # "Preparing" /\ j.leader = g.LeaderId

\* The same of answer s of SyncGroup.
SyncKnown(s, n, g) ==
    /\ s.life <= n
    /\ s.life = n /\ g.State # "none" =>
          /\ s.gen <= g.GenerationId
          /\ s.gen = g.GenerationId => /\ g.State \in {"Stable", "Dead"}
                                       /\ s.plan = g.leaderAssignment

JoinInv ==
    /\ \A m \in Members : joined[m].gen > 0 => JoinKnown(joined[m], life, group)
    /\ OneLeader

SyncInv ==
    /\ \A m \in Members : synced[m].gen > 0 => SyncKnown(synced[m], life, group)
    /\ OnePlan

\* A blocked SyncGroup is of the generation that its client asked for.
BlockedInv ==
    /\ group.pendingSyncs # {} => group.State \in {"Completing", "Dead"}
    /\ \A m \in group.pendingSyncs :
          client[m] = "syncing" => joined[m].gen = group.GenerationId
    /\ group.State = "none" => group.members = {}

Inv == TypeOK /\ JoinInv /\ SyncInv /\ BlockedInv

LEMMA NoGroupFields ==
    /\ NoGroup \in Groups /\ Len(NoGroup.pendingJoins) <= MaxPending
    /\ NoGroup.State = "none" /\ NoGroup.members = {} /\ NoGroup.pendingSyncs = {}
  <1>1. NoGroup \in Groups
    BY ConstantsAssumption DEF NoGroup, Groups, States
  <1>2. Len(NoGroup.pendingJoins) <= MaxPending
    BY ConstantsAssumption DEF NoGroup
  <1>3. NoGroup.State = "none" /\ NoGroup.members = {} /\ NoGroup.pendingSyncs = {}
    BY DEF NoGroup
  <1> QED
    BY <1>1, <1>2, <1>3

LEMMA InitInv == Init => Inv
  <1> SUFFICES ASSUME Init PROVE Inv
    OBVIOUS
  <1> USE ConstantsAssumption DEF Init
  <1>1. TypeOK
    <2>3. group \in Groups /\ Len(group.pendingJoins) <= MaxPending
      BY NoGroupFields
    <2>4. 0 \in 0 .. MaxLives /\ 0 \in 0 .. MaxGen
      OBVIOUS
    <2>5. /\ joined \in [Members -> [life : 0 .. MaxLives, gen : 0 .. MaxGen,
                                    leader : Members \cup {NoMember}]]
          /\ synced \in [Members -> [life : 0 .. MaxLives, gen : 0 .. MaxGen,
                                    plan : Plans \cup {NoPlan}]]
      BY <2>4
    <2>6. /\ life \in 0 .. MaxLives /\ fired \subseteq 0 .. MaxGen
          /\ client \in [Members -> {"idle", "joining", "syncing"}]
          /\ expired \in BOOLEAN /\ panicked \in BOOLEAN
      BY <2>4
    <2> QED
      BY <2>3, <2>5, <2>6 DEF TypeOK
  <1>2. JoinInv /\ SyncInv
    BY DEF JoinInv, SyncInv, OneLeader, OnePlan
  <1>3. BlockedInv
    BY DEF BlockedInv, NoGroup
  <1> QED
    BY <1>1, <1>2, <1>3 DEF Inv

(***************************************************************************)
(* The end of JoinGroup and of onRebalanceTimeout.                         *)
(***************************************************************************)

\* The types of what JoinGroup and SyncGroup answer.
Joins == [life : 0 .. MaxLives, gen : 0 .. MaxGen, leader : Members \cup {NoMember}]
Clients == [Members -> {"idle", "joining", "syncing"}]

LEMMA CloseType ==
    ASSUME NEW g \in Groups, NEW blocked \in Clients,
           MaybeCloseJoinBarrier(g, blocked),
           Closes(g) => g.pendingJoins # <<>>,
           Len(g.pendingJoins) <= MaxPending,
           joined \in [Members -> Joins], life' \in 0 .. MaxLives
    PROVE  /\ group' \in Groups /\ Len(group'.pendingJoins) <= MaxPending
           /\ client' \in Clients
           /\ joined' \in [Members -> Joins]
  <1>1. CASE Closes(g)
    <2>1. Head(g.pendingJoins) \in Members
      BY <1>1 DEF Groups
    <2>2. group' = [g EXCEPT !.State = "Completing", !.LeaderId = Head(g.pendingJoins),
                             !.pendingJoins = <<>>, !.rebalanceTimer = FALSE]
      BY <1>1 DEF MaybeCloseJoinBarrier
    <2>3. group' \in Groups /\ Len(group'.pendingJoins) = 0
      <3>1. "Completing" \in States /\ <<>> \in Seq(Members) /\ Len(<<>>) = 0
        BY DEF States
      <3>2. group'.pendingJoins = <<>>
        BY <2>2 DEF Groups
      <3> QED
        BY <2>1, <2>2, <3>1, <3>2 DEF Groups
    <2>4. client' \in Clients
      BY <1>1 DEF MaybeCloseJoinBarrier, Clients
    <2>5. joined' \in [Members -> Joins]
      BY <1>1, <2>1 DEF MaybeCloseJoinBarrier, Joins, Groups
    <2> QED
      BY <2>3, <2>4, <2>5, ConstantsAssumption
  <1>2. CASE ~Closes(g)
    BY <1>2 DEF MaybeCloseJoinBarrier
  <1> QED
    BY <1>1, <1>2

\* What the end does to the fields the invariants speak of.
LEMMA CloseFields ==
    ASSUME NEW g \in Groups, NEW blocked, MaybeCloseJoinBarrier(g, blocked)
    PROVE  /\ group'.GenerationId = g.GenerationId
           /\ group'.leaderAssignment = g.leaderAssignment
           /\ group'.pendingSyncs = g.pendingSyncs
           /\ \/ group'.State = g.State /\ group'.LeaderId = g.LeaderId
                 /\ client' = blocked /\ joined' = joined
              \/ /\ g.State = "Preparing" /\ group'.State = "Completing"
                 /\ \A m \in Members :
                       \/ joined'[m] = joined[m]
                       \/ joined'[m] = [life |-> life', gen |-> g.GenerationId,
                                        leader |-> group'.LeaderId]
  <1>1. CASE Closes(g)
    <2>1. group' = [g EXCEPT !.State = "Completing", !.LeaderId = Head(g.pendingJoins),
                             !.pendingJoins = <<>>, !.rebalanceTimer = FALSE]
      BY <1>1 DEF MaybeCloseJoinBarrier
    <2>2. /\ group'.GenerationId = g.GenerationId
          /\ group'.leaderAssignment = g.leaderAssignment
          /\ group'.pendingSyncs = g.pendingSyncs
          /\ group'.State = "Completing" /\ group'.LeaderId = Head(g.pendingJoins)
      BY <2>1 DEF Groups
    <2>3. \A m \in Members :
             \/ joined'[m] = joined[m]
             \/ joined'[m] = [life |-> life', gen |-> g.GenerationId,
                              leader |-> Head(g.pendingJoins)]
      BY <1>1 DEF MaybeCloseJoinBarrier
    <2> QED
      BY <1>1, <2>2, <2>3 DEF Closes
  <1>2. CASE ~Closes(g)
    BY <1>2 DEF MaybeCloseJoinBarrier
  <1> QED
    BY <1>1, <1>2

LEMMA CloseLeader ==
    ASSUME NEW g \in Groups, NEW blocked, MaybeCloseJoinBarrier(g, blocked),
           joined \in [Members -> Joins], life' \in 0 .. MaxLives,
           g.State # "none", OneLeader,
           \A m \in Members : joined[m].gen > 0 => JoinKnown(joined[m], life', g)
    PROVE  JoinInv'
  <1>0. MaxGen \in Nat /\ MaxLives \in Nat /\ g.GenerationId \in 0 .. MaxGen
    BY ConstantsAssumption DEF Groups
  <1>1. CASE /\ group'.State = g.State /\ group'.LeaderId = g.LeaderId
             /\ joined' = joined
    BY <1>1, CloseFields DEF JoinInv, JoinKnown, OneLeader
  <1>2. CASE /\ g.State = "Preparing" /\ group'.State = "Completing"
             /\ \A m \in Members :
                   \/ joined'[m] = joined[m]
                   \/ joined'[m] = [life |-> life', gen |-> g.GenerationId,
                                    leader |-> group'.LeaderId]
    <2> DEFINE New(m) == joined'[m] = [life |-> life', gen |-> g.GenerationId,
                                       leader |-> group'.LeaderId]
               Old(m) == /\ joined'[m] = joined[m]
                         /\ joined[m].life = life' => joined[m].gen < g.GenerationId
    <2>1. \A m \in Members : joined'[m].gen > 0 => New(m) \/ Old(m)
      BY <1>0, <1>2 DEF JoinKnown, Joins
    <2>2. \A m \in Members : joined'[m].gen > 0 => JoinKnown(joined'[m], life', group')
      <3> SUFFICES ASSUME NEW m \in Members, joined'[m].gen > 0
                   PROVE  JoinKnown(joined'[m], life', group')
        OBVIOUS
      <3>1. CASE New(m)
        BY <1>0, <1>2, <3>1, CloseFields DEF JoinKnown
      <3>2. CASE Old(m)
        BY <1>0, <1>2, <3>2, CloseFields DEF JoinKnown, Joins
      <3> QED
        BY <2>1, <3>1, <3>2
    <2>3. OneLeader'
      <3> SUFFICES ASSUME NEW m \in Members, NEW n \in Members,
                          joined'[m].gen > 0, joined'[m].gen = joined'[n].gen,
                          joined'[m].life = joined'[n].life
                   PROVE  joined'[m].leader = joined'[n].leader
        BY DEF OneLeader
      <3>1. (New(m) \/ Old(m)) /\ (New(n) \/ Old(n))
        BY <2>1
      <3>2. CASE Old(m) /\ Old(n)
        BY <3>2 DEF OneLeader
      <3>3. CASE New(m) /\ New(n)
        BY <3>3
      <3>4. ~(New(m) /\ Old(n)) /\ ~(New(n) /\ Old(m))
        BY <1>0 DEF Joins
      <3> QED
        BY <3>1, <3>2, <3>3, <3>4
    <2> QED
      BY <2>2, <2>3 DEF JoinInv
  <1> QED
    BY <1>1, <1>2, CloseFields

(***************************************************************************)
(* How a handler changes the group before that end.                        *)
(***************************************************************************)

\* g, in life n, is the group with a new generation in preparation.
Prepares(g, n) ==
    /\ n > life \/ (n = life /\ group.State # "none")
    /\ n = life => g.GenerationId > group.GenerationId
    /\ g.State = "Preparing"
    /\ g.pendingSyncs = {}

\* g is the group with other members and joins, or dead.
Stays(g, n) ==
    /\ n = life
    /\ g.GenerationId = group.GenerationId
    /\ g.LeaderId = group.LeaderId
    /\ g.leaderAssignment = group.leaderAssignment
    /\ g.pendingSyncs = group.pendingSyncs
    /\ group.State # "none"
    /\ g.State = group.State \/ g.State = "Dead"

LEMMA Carried ==
    ASSUME Inv, NEW g \in Groups, NEW n \in 0 .. MaxLives,
           Prepares(g, n) \/ Stays(g, n)
    PROVE  /\ \A m \in Members : joined[m].gen > 0 => JoinKnown(joined[m], n, g)
           /\ \A m \in Members : synced[m].gen > 0 => SyncKnown(synced[m], n, g)
           /\ g.State # "none"
           /\ g.pendingSyncs # {} => g.State \in {"Completing", "Dead"}
           /\ \A m \in g.pendingSyncs :
                 client[m] = "syncing" => joined[m].gen = g.GenerationId
  <1>0. /\ MaxGen \in Nat /\ MaxLives \in Nat /\ life \in 0 .. MaxLives
        /\ g.GenerationId \in 0 .. MaxGen /\ group.GenerationId \in 0 .. MaxGen
        /\ \A m \in Members : /\ joined[m].gen \in 0 .. MaxGen
                              /\ joined[m].life \in 0 .. MaxLives
                              /\ synced[m].gen \in 0 .. MaxGen
                              /\ synced[m].life \in 0 .. MaxLives
    BY ConstantsAssumption DEF Inv, TypeOK, Groups
  <1>1. CASE Prepares(g, n)
    <2>1. \A m \in Members : joined[m].gen > 0 => JoinKnown(joined[m], n, g)
      BY <1>0, <1>1 DEF Prepares, Inv, JoinInv, JoinKnown
    <2>2. \A m \in Members : synced[m].gen > 0 => SyncKnown(synced[m], n, g)
      BY <1>0, <1>1 DEF Prepares, Inv, SyncInv, SyncKnown
    <2> QED
      BY <1>1, <2>1, <2>2 DEF Prepares
  <1>2. CASE Stays(g, n)
    <2>1. \A m \in Members : joined[m].gen > 0 => JoinKnown(joined[m], n, g)
      BY <1>0, <1>2 DEF Stays, Inv, JoinInv, JoinKnown
    <2>2. \A m \in Members : synced[m].gen > 0 => SyncKnown(synced[m], n, g)
      BY <1>0, <1>2 DEF Stays, Inv, SyncInv, SyncKnown
    <2> QED
      BY <1>2, <2>1, <2>2 DEF Stays, Inv, BlockedInv
  <1> QED
    BY <1>1, <1>2

\* The rest of the types, for the actions that leave most of them alone.
LEMMA TypeParts ==
    ASSUME group' \in Groups, Len(group'.pendingJoins) <= MaxPending,
           life' \in 0 .. MaxLives, expired' \in BOOLEAN, fired' \subseteq 0 .. MaxGen,
           panicked' \in BOOLEAN, client' \in Clients, joined' \in [Members -> Joins],
           synced' \in [Members -> [life : 0 .. MaxLives, gen : 0 .. MaxGen,
                                    plan : Plans \cup {NoPlan}]]
    PROVE  TypeOK'
  BY DEF TypeOK, Clients, Joins

\* The end of a handler keeps the invariant.
LEMMA CloseInv ==
    ASSUME Inv, NEW g \in Groups, NEW blocked \in Clients,
           MaybeCloseJoinBarrier(g, blocked),
           Closes(g) => g.pendingJoins # <<>>, Len(g.pendingJoins) <= MaxPending,
           Prepares(g, life') \/ Stays(g, life'),
           \A m \in Members : blocked[m] = "syncing" => client[m] = "syncing",
           life' \in 0 .. MaxLives, expired' \in BOOLEAN,
           fired' \subseteq 0 .. MaxGen, panicked' \in BOOLEAN, synced' = synced
    PROVE  Inv'
  <1>0. joined \in [Members -> Joins] /\ g.pendingSyncs \subseteq Members
    BY DEF Inv, TypeOK, Joins, Groups
  <1>1. TypeOK'
    BY <1>0, CloseType, TypeParts DEF Inv, TypeOK
  <1>2. JoinInv'
    BY <1>0, Carried, CloseLeader DEF Inv, JoinInv
  <1>3. SyncInv'
    <2>1. OnePlan'
      BY DEF Inv, SyncInv, OnePlan
    <2>2. ASSUME NEW m \in Members, synced'[m].gen > 0
          PROVE  SyncKnown(synced'[m], life', group')
      <3>1. SyncKnown(synced[m], life', g)
        BY <2>2, Carried
      <3> QED
        BY <3>1, CloseFields DEF SyncKnown
    <2> QED
      BY <2>1, <2>2 DEF SyncInv
  <1>4. BlockedInv'
    <2>1. CASE group'.State = g.State /\ client' = blocked /\ joined' = joined
      BY <1>0, <2>1, CloseFields, Carried DEF BlockedInv
    <2>2. CASE g.State = "Preparing"
      BY <2>2, CloseFields, Carried DEF BlockedInv
    <2> QED
      BY <2>1, <2>2, CloseFields
  <1> QED
    BY <1>1, <1>2, <1>3, <1>4 DEF Inv

(***************************************************************************)
(* The actions.                                                            *)
(***************************************************************************)

LEMMA TransitionFields ==
    ASSUME NEW g \in Groups, g.GenerationId < MaxGen
    PROVE  /\ Transition(g) \in Groups
           /\ Transition(g).State = "Preparing"
           /\ Transition(g).GenerationId = g.GenerationId + 1
           /\ Transition(g).pendingJoins = <<>>
           /\ Transition(g).pendingSyncs = {}
  <1>1. /\ "Preparing" \in States /\ <<>> \in Seq(Members)
        /\ g.GenerationId + 1 \in 0 .. MaxGen
    BY ConstantsAssumption DEF States, Groups
  <1> QED
    BY <1>1 DEF Transition, Groups

\* With more members, or fewer, and nothing else.
LEMMA EditMembers ==
    ASSUME NEW g \in Groups, NEW ms \in SUBSET Members
    PROVE  LET h == [g EXCEPT !.members = ms] IN
           /\ h \in Groups
           /\ h.GenerationId = g.GenerationId /\ h.LeaderId = g.LeaderId
           /\ h.leaderAssignment = g.leaderAssignment
           /\ h.pendingSyncs = g.pendingSyncs /\ h.pendingJoins = g.pendingJoins
           /\ h.State = g.State
  BY DEF Groups

LEMMA EditJoins ==
    ASSUME NEW g \in Groups, NEW js \in Seq(Members)
    PROVE  LET h == [g EXCEPT !.pendingJoins = js] IN
           /\ h \in Groups
           /\ h.GenerationId = g.GenerationId /\ h.LeaderId = g.LeaderId
           /\ h.leaderAssignment = g.leaderAssignment
           /\ h.pendingSyncs = g.pendingSyncs /\ h.pendingJoins = js
           /\ h.State = g.State
  BY DEF Groups

LEMMA JoinGroupInv ==
    ASSUME Inv, NEW m \in Members, JoinGroup(m)
    PROVE  Inv'
  <1> DEFINE added == [group EXCEPT !.members = group.members \cup {m}]
             rebalances == group.State \in {"none", "Stable", "Dead"}
             g == IF rebalances THEN Transition(added) ELSE added
             h == [g EXCEPT !.pendingJoins = Append(g.pendingJoins, m)]
             blocked == [client EXCEPT ![m] = "joining"]
  <1>0. /\ group \in Groups /\ group.GenerationId \in 0 .. MaxGen
        /\ group.pendingJoins \in Seq(Members) /\ group.members \subseteq Members
        /\ client \in Clients /\ MaxGen \in Nat /\ MaxLives \in Nat
        /\ MaxPending \in Nat /\ life \in 0 .. MaxLives
    BY ConstantsAssumption DEF Inv, TypeOK, Groups, Clients
  <1>1. /\ added \in Groups
        /\ added.GenerationId = group.GenerationId /\ added.LeaderId = group.LeaderId
        /\ added.leaderAssignment = group.leaderAssignment
        /\ added.pendingSyncs = group.pendingSyncs
        /\ added.pendingJoins = group.pendingJoins /\ added.State = group.State
    BY <1>0, EditMembers
  <1>2. /\ rebalances => group.GenerationId < MaxGen
        /\ MaybeCloseJoinBarrier(h, blocked)
        /\ Len(group.pendingJoins) < MaxPending
        /\ life' = IF group.State = "none" THEN life + 1 ELSE life
        /\ life' <= MaxLives
        /\ UNCHANGED <<expired, fired, panicked, synced>>
    BY DEF JoinGroup
  <1> HIDE DEF added
  <1>3. g \in Groups /\ Len(g.pendingJoins) < MaxPending
    <2>1. CASE rebalances
      <3>1. g = Transition(added) /\ added.GenerationId < MaxGen
        BY <1>1, <1>2, <2>1
      <3>2. g \in Groups /\ g.pendingJoins = <<>>
        BY <1>1, <3>1, TransitionFields
      <3>3. 0 < MaxPending
        BY <1>0, <1>2
      <3> QED
        BY <3>2, <3>3
    <2>2. CASE ~rebalances
      BY <1>1, <1>2, <2>2
    <2> QED
      BY <2>1, <2>2
  <1>a. rebalances => g = Transition(added)
    OBVIOUS
  <1>b. ~rebalances => g = added
    OBVIOUS
  <1> HIDE DEF g
  <1>4. g.pendingJoins \in Seq(Members)
    BY <1>3 DEF Groups
  <1>5. /\ Append(g.pendingJoins, m) \in Seq(Members)
        /\ Append(g.pendingJoins, m) # <<>>
        /\ Len(Append(g.pendingJoins, m)) <= MaxPending
    BY <1>0, <1>3, <1>4
  <1>6. /\ h \in Groups /\ h.State = g.State /\ h.GenerationId = g.GenerationId
        /\ h.LeaderId = g.LeaderId /\ h.leaderAssignment = g.leaderAssignment
        /\ h.pendingSyncs = g.pendingSyncs
        /\ h.pendingJoins = Append(g.pendingJoins, m)
    BY <1>3, <1>5, EditJoins
  <1>7. life' \in 0 .. MaxLives
    BY <1>0, <1>2
  <1> HIDE DEF h
  <1>8. Prepares(h, life') \/ Stays(h, life')
    <2>1. CASE rebalances
      <3>1. /\ h.State = "Preparing" /\ h.GenerationId = group.GenerationId + 1
            /\ h.pendingSyncs = {}
        BY <1>1, <1>2, <1>6, <1>a, <2>1, TransitionFields
      <3>2. h.GenerationId > group.GenerationId
        BY <1>0, <3>1
      <3>3. life' > life \/ (life' = life /\ group.State # "none")
        BY <1>0, <1>2
      <3> QED
        BY <3>1, <3>2, <3>3 DEF Prepares
    <2>2. CASE ~rebalances
      BY <1>1, <1>2, <1>6, <1>b, <2>2 DEF Stays
    <2> QED
      BY <2>1, <2>2
  <1>9. /\ blocked \in Clients
        /\ \A n \in Members : blocked[n] = "syncing" => client[n] = "syncing"
    BY <1>0 DEF Clients
  <1>10. expired' \in BOOLEAN /\ fired' \subseteq 0 .. MaxGen /\ panicked' \in BOOLEAN
    BY <1>2 DEF Inv, TypeOK
  <1> HIDE DEF blocked
  <1> QED
    BY <1>2, <1>5, <1>6, <1>7, <1>8, <1>9, <1>10, CloseInv

LEMMA OnRebalanceTimeoutInv ==
    ASSUME Inv, NEW e \in fired, OnRebalanceTimeout(e)
    PROVE  Inv'
  <1> DEFINE g == [group EXCEPT !.members = group.members \cap ToSet(group.pendingJoins)]
  <1>0. /\ group \in Groups /\ group.members \subseteq Members
        /\ Len(group.pendingJoins) <= MaxPending /\ client \in Clients
        /\ life \in 0 .. MaxLives /\ expired \in BOOLEAN
        /\ fired \subseteq 0 .. MaxGen /\ panicked \in BOOLEAN
    BY DEF Inv, TypeOK, Groups, Clients
  <1>1. /\ g \in Groups
        /\ g.GenerationId = group.GenerationId /\ g.LeaderId = group.LeaderId
        /\ g.leaderAssignment = group.leaderAssignment
        /\ g.pendingSyncs = group.pendingSyncs
        /\ g.pendingJoins = group.pendingJoins /\ g.State = group.State
    BY <1>0, EditMembers
  <1>2. /\ life' = life /\ expired' = expired /\ synced' = synced
        /\ fired' \subseteq fired
        /\ \/ UNCHANGED <<group, panicked, client, joined>>
           \/ /\ group.State # "none"
              /\ IF Closes(g) /\ g.pendingJoins = <<>>
                 THEN panicked' = TRUE /\ UNCHANGED <<group, client, joined>>
                 ELSE MaybeCloseJoinBarrier(g, client) /\ UNCHANGED panicked
    BY DEF OnRebalanceTimeout
  <1>3. CASE UNCHANGED <<group, client, joined>> /\ panicked' \in BOOLEAN
    BY <1>0, <1>2, <1>3
       DEF Inv, TypeOK, JoinInv, SyncInv, BlockedInv, OneLeader, OnePlan
  <1>4. CASE /\ group.State # "none" /\ ~(Closes(g) /\ g.pendingJoins = <<>>)
             /\ MaybeCloseJoinBarrier(g, client) /\ panicked' = panicked
    <2>1. Stays(g, life')
      BY <1>1, <1>2, <1>4 DEF Stays
    <2> HIDE DEF g
    <2> QED
      BY <1>0, <1>1, <1>2, <1>4, <2>1, CloseInv
  <1> HIDE DEF g
  <1> QED
    BY <1>0, <1>2, <1>3, <1>4

\* LeaveGroup and evictMember.
LEMMA RemoveMemberInv ==
    ASSUME Inv, NEW m \in Members, RemoveMember(m),
           client' = client \/ client' = [client EXCEPT ![m] = "idle"],
           UNCHANGED <<life, expired, fired, panicked, joined, synced>>
    PROVE  Inv'
  <1> DEFINE g == [group EXCEPT !.members = group.members \ {m}]
             dead == [g EXCEPT !.State = "Dead"]
  <1>0. /\ group \in Groups /\ group.members \subseteq Members
        /\ group.GenerationId \in 0 .. MaxGen /\ MaxGen \in Nat
        /\ Len(group.pendingJoins) <= MaxPending /\ MaxPending \in Nat
        /\ client \in Clients /\ life \in 0 .. MaxLives
        /\ joined \in [Members -> Joins]
    BY ConstantsAssumption DEF Inv, TypeOK, Groups, Clients, Joins
  <1>1. /\ g \in Groups
        /\ g.GenerationId = group.GenerationId /\ g.LeaderId = group.LeaderId
        /\ g.leaderAssignment = group.leaderAssignment
        /\ g.pendingSyncs = group.pendingSyncs
        /\ g.pendingJoins = group.pendingJoins /\ g.State = group.State
    BY <1>0, EditMembers
  <1>2. group' = dead \/ (group.GenerationId < MaxGen /\ group' = Transition(g))
    BY DEF RemoveMember
  <1>3. group.State # "none"
    BY DEF RemoveMember, Inv, BlockedInv
  <1> HIDE DEF g
  <1>4. /\ group' \in Groups /\ Len(group'.pendingJoins) <= MaxPending
        /\ Prepares(group', life) \/ Stays(group', life)
    <2>1. CASE group' = dead
      <3>1. /\ dead \in Groups
            /\ dead.GenerationId = g.GenerationId /\ dead.LeaderId = g.LeaderId
            /\ dead.leaderAssignment = g.leaderAssignment
            /\ dead.pendingSyncs = g.pendingSyncs
            /\ dead.pendingJoins = g.pendingJoins /\ dead.State = "Dead"
        BY <1>1 DEF Groups, States
      <3> QED
        BY <1>0, <1>1, <1>3, <2>1, <3>1 DEF Stays
    <2>2. CASE group.GenerationId < MaxGen /\ group' = Transition(g)
      <3>1. /\ group' \in Groups /\ group'.State = "Preparing"
            /\ group'.GenerationId = group.GenerationId + 1
            /\ group'.pendingJoins = <<>> /\ group'.pendingSyncs = {}
        BY <1>1, <2>2, TransitionFields
      <3>2. group'.GenerationId > group.GenerationId /\ Len(group'.pendingJoins) = 0
        BY <1>0, <3>1
      <3> QED
        BY <1>0, <1>3, <3>1, <3>2 DEF Prepares
    <2> QED
      BY <1>2, <2>1, <2>2
  <1>5. client' \in Clients /\ \A n \in Members : client'[n] = "syncing" => client[n] = "syncing"
    BY <1>0 DEF Clients
  <1>6. TypeOK'
    BY <1>0, <1>4, <1>5, TypeParts DEF Inv, TypeOK
  <1>7. JoinInv' /\ SyncInv'
    <2>1. OneLeader' /\ OnePlan'
      BY DEF Inv, JoinInv, SyncInv, OneLeader, OnePlan
    <2> QED
      BY <1>0, <1>4, <2>1, Carried DEF JoinInv, SyncInv
  <1>8. BlockedInv'
    <2>1. group'.pendingSyncs \subseteq Members
      BY <1>4 DEF Groups
    <2> QED
      BY <1>0, <1>4, <1>5, <2>1, Carried DEF BlockedInv
  <1> QED
    BY <1>6, <1>7, <1>8 DEF Inv

LEMMA SyncGroupLeaderInv ==
    ASSUME Inv, NEW m \in Members, NEW p \in Plans, SyncGroupLeader(m, p)
    PROVE  Inv'
  <1> DEFINE ms == {m} \cup {f \in group.pendingSyncs : client[f] = "syncing"}
             answer == [life |-> life, gen |-> group.GenerationId, plan |-> p]
  <1>0. /\ group \in Groups /\ group.pendingSyncs \subseteq Members
        /\ group.GenerationId \in 0 .. MaxGen /\ life \in 0 .. MaxLives
        /\ Len(group.pendingJoins) <= MaxPending
        /\ client \in Clients /\ joined \in [Members -> Joins]
        /\ MaxGen \in Nat /\ MaxLives \in Nat
        /\ \A n \in Members : synced[n].gen \in 0 .. MaxGen
                              /\ synced[n].life \in 0 .. MaxLives
    BY ConstantsAssumption DEF Inv, TypeOK, Groups, Clients, Joins
  <1>1. /\ group' = [group EXCEPT !.leaderAssignment = p, !.pendingSyncs = {},
                                  !.State = "Stable"]
        /\ client' = [n \in Members |-> IF n \in ms THEN "idle" ELSE client[n]]
        /\ synced' = [n \in Members |-> IF n \in ms THEN answer ELSE synced[n]]
        /\ UNCHANGED <<life, expired, fired, panicked, joined>>
        /\ group.State = "Completing"
    BY DEF SyncGroupLeader, AnswerSyncs, SyncAccepted
  <1>2. /\ group' \in Groups
        /\ group'.GenerationId = group.GenerationId
        /\ group'.LeaderId = group.LeaderId /\ group'.leaderAssignment = p
        /\ group'.pendingJoins = group.pendingJoins /\ group'.pendingSyncs = {}
        /\ group'.State = "Stable"
    BY <1>0, <1>1 DEF Groups, States
  <1> HIDE DEF ms
  <1>3. TypeOK'
    <2>1. client' \in Clients
      BY <1>0, <1>1 DEF Clients
    <2>2. synced' \in [Members -> [life : 0 .. MaxLives, gen : 0 .. MaxGen,
                                   plan : Plans \cup {NoPlan}]]
      BY <1>0, <1>1 DEF Inv, TypeOK
    <2> QED
      BY <1>0, <1>1, <1>2, <2>1, <2>2, TypeParts DEF Inv, TypeOK
  <1>4. JoinInv'
    BY <1>1, <1>2 DEF Inv, JoinInv, JoinKnown, OneLeader
  <1>5. SyncInv'
    <2> DEFINE Old(n) == /\ synced'[n] = synced[n]
                         /\ synced[n].life <= life
                         /\ synced[n].life = life =>
                               synced[n].gen < group.GenerationId
    <2>1. \A n \in Members : synced'[n].gen > 0 => synced'[n] = answer \/ Old(n)
      BY <1>0, <1>1 DEF Inv, SyncInv, SyncKnown
    <2>2. ASSUME NEW n \in Members, synced'[n].gen > 0
          PROVE  SyncKnown(synced'[n], life', group')
      <3>1. CASE synced'[n] = answer
        BY <1>0, <1>1, <1>2, <3>1 DEF SyncKnown
      <3>2. CASE Old(n)
        BY <1>0, <1>1, <1>2, <3>2 DEF SyncKnown
      <3> QED
        BY <2>1, <2>2, <3>1, <3>2
    <2>3. ASSUME NEW n \in Members, NEW k \in Members, synced'[n].gen > 0,
                 synced'[n].gen = synced'[k].gen, synced'[n].life = synced'[k].life
          PROVE  synced'[n].plan = synced'[k].plan
      <3>1. (synced'[n] = answer \/ Old(n)) /\ (synced'[k] = answer \/ Old(k))
        BY <2>1, <2>3
      <3>2. CASE Old(n) /\ Old(k)
        BY <2>3, <3>2 DEF Inv, SyncInv, OnePlan
      <3>3. CASE synced'[n] = answer /\ synced'[k] = answer
        BY <3>3
      <3>4. /\ ~(synced'[n] = answer /\ Old(k))
            /\ ~(synced'[k] = answer /\ Old(n))
        BY <1>0, <2>3
      <3> QED
        BY <3>1, <3>2, <3>3, <3>4
    <2> QED
      BY <2>2, <2>3 DEF SyncInv, OnePlan
  <1>6. BlockedInv'
    BY <1>2 DEF BlockedInv
  <1> QED
    BY <1>3, <1>4, <1>5, <1>6 DEF Inv

LEMMA SyncGroupFollowerInv ==
    ASSUME Inv, NEW m \in Members, SyncGroupFollower(m)
    PROVE  Inv'
  <1>0. /\ group \in Groups /\ group.pendingSyncs \subseteq Members
        /\ Len(group.pendingJoins) <= MaxPending
        /\ client \in Clients /\ joined \in [Members -> Joins]
    BY DEF Inv, TypeOK, Groups, Clients, Joins
  <1>1. /\ group' = [group EXCEPT !.pendingSyncs = group.pendingSyncs \cup {m}]
        /\ client' = [client EXCEPT ![m] = "syncing"]
        /\ UNCHANGED <<life, expired, fired, panicked, joined, synced>>
        /\ group.State = "Completing" /\ joined[m].gen = group.GenerationId
    BY DEF SyncGroupFollower, SyncAccepted
  <1>2. /\ group' \in Groups
        /\ group'.GenerationId = group.GenerationId
        /\ group'.LeaderId = group.LeaderId
        /\ group'.leaderAssignment = group.leaderAssignment
        /\ group'.pendingJoins = group.pendingJoins
        /\ group'.pendingSyncs = group.pendingSyncs \cup {m}
        /\ group'.State = group.State
    BY <1>0, <1>1 DEF Groups
  <1>3. TypeOK'
    <2>1. client' \in Clients
      BY <1>0, <1>1 DEF Clients
    <2> QED
      BY <1>0, <1>1, <1>2, <2>1, TypeParts DEF Inv, TypeOK
  <1>4. JoinInv' /\ SyncInv'
    BY <1>1, <1>2
       DEF Inv, JoinInv, JoinKnown, OneLeader, SyncInv, SyncKnown, OnePlan
  <1>5. BlockedInv'
    BY <1>0, <1>1, <1>2 DEF Inv, BlockedInv, Clients
  <1> QED
    BY <1>3, <1>4, <1>5 DEF Inv

\* A timer ends, or its closure reads the generation.
LEMMA TimerInv ==
    ASSUME Inv, TimerFires \/ TimerReads
    PROVE  Inv'
  <1>0. /\ group \in Groups /\ group.GenerationId \in 0 .. MaxGen
        /\ Len(group.pendingJoins) <= MaxPending
        /\ client \in Clients /\ joined \in [Members -> Joins]
    BY DEF Inv, TypeOK, Groups, Clients, Joins
  <1>1. /\ UNCHANGED <<life, panicked, client, joined, synced>>
        /\ expired' \in BOOLEAN
        /\ fired' = fired \/ fired' = fired \cup {group.GenerationId}
        /\ group' = group \/ group' = [group EXCEPT !.rebalanceTimer = FALSE]
    BY DEF TimerFires, TimerReads
  <1>2. /\ group' \in Groups
        /\ group'.GenerationId = group.GenerationId
        /\ group'.LeaderId = group.LeaderId
        /\ group'.leaderAssignment = group.leaderAssignment
        /\ group'.pendingJoins = group.pendingJoins
        /\ group'.pendingSyncs = group.pendingSyncs
        /\ group'.State = group.State /\ group'.members = group.members
    BY <1>0, <1>1 DEF Groups
  <1>3. fired' \subseteq 0 .. MaxGen
    BY <1>0, <1>1 DEF Inv, TypeOK
  <1>4. TypeOK'
    BY <1>0, <1>1, <1>2, <1>3, TypeParts DEF Inv, TypeOK
  <1>5. JoinInv' /\ SyncInv'
    BY <1>1, <1>2
       DEF Inv, JoinInv, JoinKnown, OneLeader, SyncInv, SyncKnown, OnePlan
  <1>6. BlockedInv'
    BY <1>1, <1>2 DEF Inv, BlockedInv
  <1> QED
    BY <1>4, <1>5, <1>6 DEF Inv

LEMMA CleanupGroupInv ==
    ASSUME Inv, CleanupGroup
    PROVE  Inv'
  <1>0. /\ group.GenerationId \in 0 .. MaxGen
        /\ client \in Clients /\ joined \in [Members -> Joins]
        /\ MaxPending \in Nat /\ MaxGen \in Nat
    BY ConstantsAssumption DEF Inv, TypeOK, Groups, Clients, Joins
  <1>1. /\ UNCHANGED <<life, panicked, client, joined, synced>>
        /\ expired' = FALSE /\ group' = NoGroup
        /\ fired' = fired \/ fired' = fired \cup {group.GenerationId}
    BY DEF CleanupGroup
  <1>2. /\ group' \in Groups /\ group'.State = "none"
        /\ group'.members = {} /\ group'.pendingSyncs = {}
        /\ Len(group'.pendingJoins) <= MaxPending
    BY <1>1, NoGroupFields
  <1>3. fired' \subseteq 0 .. MaxGen
    BY <1>0, <1>1 DEF Inv, TypeOK
  <1>4. TypeOK'
    BY <1>0, <1>1, <1>2, <1>3, TypeParts DEF Inv, TypeOK
  <1>5. JoinInv' /\ SyncInv'
    BY <1>1, <1>2
       DEF Inv, JoinInv, JoinKnown, OneLeader, SyncInv, SyncKnown, OnePlan
  <1>6. BlockedInv'
    BY <1>2 DEF BlockedInv
  <1> QED
    BY <1>4, <1>5, <1>6 DEF Inv

LEMMA NextInv == Inv /\ [Next]_vars => Inv'
  <1> SUFFICES ASSUME Inv, [Next]_vars PROVE Inv'
    OBVIOUS
  <1>1. CASE UNCHANGED vars
    BY <1>1 DEF vars, Inv, TypeOK, JoinInv, OneLeader, SyncInv, OnePlan, BlockedInv
  <1>2. ASSUME NEW m \in Members, LeaveGroup(m) \/ EvictMember(m)
        PROVE  Inv'
    BY <1>2, RemoveMemberInv DEF LeaveGroup, EvictMember
  <1> QED
    BY <1>1, <1>2, JoinGroupInv, SyncGroupFollowerInv, SyncGroupLeaderInv, TimerInv,
       OnRebalanceTimeoutInv, CleanupGroupInv DEF Next, TimerStep

(***************************************************************************)
(* The theorems.                                                           *)
(***************************************************************************)

\* The invariant of the group, in every reachable state.
THEOREM Invariance == Spec => []Inv
  BY InitInv, NextInv, PTL DEF Spec

\* The group, its clients and its timers keep their types: in particular nobody
\* is made leader of a generation that no member joined.
THEOREM TypeCorrect == Spec => []TypeOK
  BY Invariance, PTL DEF Inv

\* maybeCloseJoinBarrier names one leader to all it answers in a generation, for
\* every number of members, with retries, evictions and late timers.
THEOREM LeadersAgree == Spec => []OneLeader
  BY Invariance, PTL DEF Inv, JoinInv

\* SyncGroup answers all members of a generation from one assignment.
THEOREM PlansAgree == Spec => []OnePlan
  BY Invariance, PTL DEF Inv, SyncInv

\* A SyncGroup that blocked is answered for the generation it was sent in.
THEOREM SyncsAreAsAsked == Spec => SyncedAsAsked
  <1>1. Inv /\ [Next]_vars =>
           [\A m \in Members :
               synced'[m] # synced[m] => synced'[m].gen = joined[m].gen]_vars
    <2> SUFFICES ASSUME Inv, Next, NEW m \in Members, synced'[m] # synced[m]
                 PROVE  synced'[m].gen = joined[m].gen
      OBVIOUS
    <2>1. PICK n \in Members, p \in Plans : SyncGroupLeader(n, p)
      BY DEF Next, TimerStep, JoinGroup, LeaveGroup, EvictMember, SyncGroupFollower,
             TimerFires, TimerReads, OnRebalanceTimeout, CleanupGroup
    <2>2. /\ m = n \/ (m \in group.pendingSyncs /\ client[m] = "syncing")
          /\ synced'[m] = [life |-> life, gen |-> group.GenerationId, plan |-> p]
          /\ joined[n].gen = group.GenerationId
      BY <2>1 DEF SyncGroupLeader, SyncAccepted, AnswerSyncs
    <2> QED
      BY <2>2 DEF Inv, BlockedInv
  <1> QED
    BY <1>1, Invariance, PTL DEF Spec, SyncedAsAsked

(***************************************************************************)
(* The leader of a generation.                                             *)
(***************************************************************************)

\* Whoever waits for the barrier of g is a member.
JoinersIn(g) == \A i \in 1 .. Len(g.pendingJoins) : g.pendingJoins[i] \in g.members

\* Members that are removed take all the blocked joins with them, except that the
\* last one leaves them behind in a dead group.
JoinersInv == group.State # "Dead" => JoinersIn(group)

\* The barrier of a group that waits closes with a member for leader.
LeaderChosen ==
    group.State # "Completing" /\ group'.State = "Completing" =>
        group'.LeaderId \in group'.members

LEMMA CloseJoiners ==
    ASSUME NEW g \in Groups, NEW blocked, MaybeCloseJoinBarrier(g, blocked),
           Closes(g) => g.pendingJoins # <<>>, JoinersIn(g)
    PROVE  /\ JoinersIn(group')
           /\ \/ group' = g
              \/ g.State = "Preparing" /\ group'.LeaderId \in group'.members
  <1>1. CASE Closes(g)
    <2>1. group' = [g EXCEPT !.State = "Completing", !.LeaderId = Head(g.pendingJoins),
                             !.pendingJoins = <<>>, !.rebalanceTimer = FALSE]
      BY <1>1 DEF MaybeCloseJoinBarrier
    <2>2. /\ group'.pendingJoins = <<>> /\ group'.members = g.members
          /\ group'.LeaderId = Head(g.pendingJoins)
      BY <2>1 DEF Groups
    <2>3. g.pendingJoins \in Seq(Members) /\ g.pendingJoins # <<>>
      BY <1>1 DEF Groups
    <2>4. Head(g.pendingJoins) \in g.members
      BY <2>3 DEF JoinersIn
    <2> QED
      BY <1>1, <2>2, <2>4 DEF JoinersIn, Closes
  <1>2. CASE ~Closes(g)
    BY <1>2 DEF MaybeCloseJoinBarrier
  <1> QED
    BY <1>1, <1>2

LEMMA AppendIn ==
    ASSUME NEW S, NEW s \in Seq(S), NEW m \in S, NEW T, m \in T,
           \A i \in 1 .. Len(s) : s[i] \in T
    PROVE  /\ Append(s, m) # <<>>
           /\ \A i \in 1 .. Len(Append(s, m)) : Append(s, m)[i] \in T
  <1>1. /\ Append(s, m) # <<>> /\ Len(Append(s, m)) = Len(s) + 1 /\ Len(s) \in Nat
        /\ \A i \in 1 .. Len(s) : Append(s, m)[i] = s[i]
        /\ Append(s, m)[Len(s) + 1] = m
    OBVIOUS
  <1> DEFINE t == Append(s, m)
  <1> HIDE DEF t
  <1>2. ASSUME NEW i \in 1 .. Len(t) PROVE t[i] \in T
    <2>1. i \in 1 .. Len(s) \/ i = Len(s) + 1
      BY <1>1 DEF t
    <2> QED
      BY <1>1, <2>1 DEF t
  <1> QED
    BY <1>1, <1>2 DEF t

LEMMA JoinGroupJoiners ==
    ASSUME Inv, JoinersInv, NEW m \in Members, JoinGroup(m)
    PROVE  JoinersInv' /\ LeaderChosen
  <1> DEFINE added == [group EXCEPT !.members = group.members \cup {m}]
             rebalances == group.State \in {"none", "Stable", "Dead"}
             g == IF rebalances THEN Transition(added) ELSE added
             js == Append(g.pendingJoins, m)
             h == [g EXCEPT !.pendingJoins = js]
             blocked == [client EXCEPT ![m] = "joining"]
  <1>0. group \in Groups /\ group.members \subseteq Members
    BY DEF Inv, TypeOK, Groups
  <1>1. /\ added \in Groups /\ added.members = group.members \cup {m}
        /\ added.GenerationId = group.GenerationId
        /\ added.pendingJoins = group.pendingJoins /\ added.State = group.State
    BY <1>0, EditMembers DEF Groups
  <1>2. /\ rebalances => group.GenerationId < MaxGen
        /\ MaybeCloseJoinBarrier(h, blocked)
    BY DEF JoinGroup
  <1> HIDE DEF added, blocked
  <1>3. /\ g \in Groups /\ JoinersIn(g) /\ m \in g.members
        /\ g.State = "Preparing" \/ g.State = group.State
    <2>1. CASE rebalances
      <3>1. Transition(added) \in Groups /\ Transition(added).pendingJoins = <<>>
            /\ Transition(added).State = "Preparing"
        BY <1>1, <1>2, <2>1, TransitionFields
      <3>2. Transition(added).members = added.members
        BY <1>1 DEF Transition, Groups
      <3> QED
        BY <1>1, <2>1, <3>1, <3>2 DEF JoinersIn
    <2>2. CASE ~rebalances
      BY <1>1, <2>2 DEF JoinersInv, JoinersIn
    <2> QED
      BY <2>1, <2>2
  <1> HIDE DEF g
  <1>4. g.pendingJoins \in Seq(Members)
    BY <1>3 DEF Groups
  <1>5. /\ h \in Groups /\ h.State = g.State /\ h.members = g.members
        /\ h.pendingJoins = js
    <2>1. js \in Seq(Members)
      BY <1>4
    <2>2. h.members = g.members
      BY <1>3 DEF Groups
    <2> HIDE DEF js
    <2> QED
      BY <1>3, <2>1, <2>2, EditJoins
  <1> HIDE DEF h
  <1>6. JoinersIn(h) /\ h.pendingJoins # <<>>
    <2>1. js # <<>> /\ \A i \in 1 .. Len(js) : js[i] \in g.members
      BY <1>3, <1>4, AppendIn DEF JoinersIn
    <2> HIDE DEF js
    <2> QED
      BY <1>5, <2>1 DEF JoinersIn
  <1>7. /\ JoinersIn(group')
        /\ group' = h \/ group'.LeaderId \in group'.members
    BY <1>2, <1>5, <1>6, CloseJoiners
  <1> QED
    BY <1>3, <1>5, <1>7 DEF JoinersInv, LeaderChosen

LEMMA OnRebalanceTimeoutJoiners ==
    ASSUME Inv, JoinersInv, NEW e \in fired, OnRebalanceTimeout(e)
    PROVE  JoinersInv' /\ LeaderChosen
  <1> DEFINE g == [group EXCEPT !.members = group.members \cap ToSet(group.pendingJoins)]
  <1>0. group \in Groups /\ group.members \subseteq Members
        /\ group.pendingJoins \in Seq(Members)
    BY DEF Inv, TypeOK, Groups
  <1>1. /\ g \in Groups /\ g.members = group.members \cap ToSet(group.pendingJoins)
        /\ g.pendingJoins = group.pendingJoins /\ g.State = group.State
    BY <1>0, EditMembers DEF Groups
  <1>2. \/ group' = group
        \/ ~(Closes(g) /\ g.pendingJoins = <<>>) /\ MaybeCloseJoinBarrier(g, client)
    BY DEF OnRebalanceTimeout
  <1> HIDE DEF g
  <1>3. CASE group' = group
    BY <1>3 DEF JoinersInv, LeaderChosen
  <1>4. CASE group.State = "Dead" /\ MaybeCloseJoinBarrier(g, client)
    BY <1>1, <1>4 DEF MaybeCloseJoinBarrier, Closes, JoinersInv, LeaderChosen
  <1>5. CASE /\ group.State # "Dead" /\ MaybeCloseJoinBarrier(g, client)
             /\ ~(Closes(g) /\ g.pendingJoins = <<>>)
    <2>1. \A i \in 1 .. Len(group.pendingJoins) :
             group.pendingJoins[i] \in ToSet(group.pendingJoins)
      BY <1>0 DEF ToSet
    <2>2. JoinersIn(g)
      BY <1>1, <1>5, <2>1 DEF JoinersInv, JoinersIn
    <2>3. JoinersIn(group') /\ (group' = g \/ group'.LeaderId \in group'.members)
      BY <1>1, <1>5, <2>2, CloseJoiners
    <2> QED
      BY <1>1, <2>3 DEF JoinersInv, LeaderChosen
  <1> QED
    BY <1>2, <1>3, <1>4, <1>5

LEMMA RemoveMemberJoiners ==
    ASSUME Inv, NEW m \in Members, RemoveMember(m)
    PROVE  JoinersInv' /\ LeaderChosen
  <1> DEFINE g == [group EXCEPT !.members = group.members \ {m}]
  <1>0. group \in Groups /\ group.members \subseteq Members
    BY DEF Inv, TypeOK, Groups
  <1>1. g \in Groups /\ g.GenerationId = group.GenerationId
    BY <1>0, EditMembers
  <1>2. \/ group' = [g EXCEPT !.State = "Dead"]
        \/ group.GenerationId < MaxGen /\ group' = Transition(g)
    BY DEF RemoveMember
  <1> HIDE DEF g
  <1>3. CASE group' = [g EXCEPT !.State = "Dead"]
    BY <1>1, <1>3 DEF Groups, JoinersInv, LeaderChosen
  <1>4. CASE group.GenerationId < MaxGen /\ group' = Transition(g)
    <2>1. group'.State = "Preparing" /\ group'.pendingJoins = <<>>
      BY <1>1, <1>4, TransitionFields
    <2> QED
      BY <2>1 DEF JoinersInv, JoinersIn, LeaderChosen
  <1> QED
    BY <1>2, <1>3, <1>4

\* The steps that leave members and blocked joins alone, and the end of a group.
LEMMA OtherJoiners ==
    ASSUME Inv, JoinersInv,
           \/ \E m \in Members, p \in Plans : SyncGroupLeader(m, p)
           \/ \E m \in Members : SyncGroupFollower(m)
           \/ TimerFires \/ TimerReads \/ CleanupGroup
    PROVE  JoinersInv' /\ LeaderChosen
  <1>0. group \in Groups
    BY DEF Inv, TypeOK
  <1>1. CASE group' = NoGroup
    BY <1>1 DEF NoGroup, JoinersInv, JoinersIn, LeaderChosen
  <1>2. CASE /\ group'.members = group.members /\ group'.pendingJoins = group.pendingJoins
             /\ \/ group'.State = group.State
                \/ group'.State = "Stable" /\ group.State = "Completing"
    BY <1>2 DEF JoinersInv, JoinersIn, LeaderChosen
  <1> QED
    BY <1>0, <1>1, <1>2, Zenon
       DEF SyncGroupLeader, SyncGroupFollower, SyncAccepted, TimerFires, TimerReads,
           CleanupGroup, Groups

LEMMA NextJoiners == Inv /\ JoinersInv /\ [Next]_vars => JoinersInv' /\ LeaderChosen
  <1> SUFFICES ASSUME Inv, JoinersInv, [Next]_vars PROVE JoinersInv' /\ LeaderChosen
    OBVIOUS
  <1>1. CASE UNCHANGED vars
    BY <1>1 DEF vars, JoinersInv, LeaderChosen
  <1>2. ASSUME NEW m \in Members, LeaveGroup(m) \/ EvictMember(m)
        PROVE  JoinersInv' /\ LeaderChosen
    BY <1>2, RemoveMemberJoiners DEF LeaveGroup, EvictMember
  <1> QED
    BY <1>1, <1>2, JoinGroupJoiners, OnRebalanceTimeoutJoiners, OtherJoiners
       DEF Next, TimerStep

\* A barrier, whether a join or the timer closes it, makes a member of the group
\* leader: with retries, evictions and late timers too, for every number of members.
THEOREM LeadersAreMembers == Spec => LeaderIsMember
  <1>1. Init => JoinersInv
    BY DEF Init, NoGroup, JoinersInv, JoinersIn
  <1>2. LeaderChosen =>
           [group.State # "Completing" /\ group'.State = "Completing" =>
               group'.LeaderId \in group'.members]_vars
    BY DEF LeaderChosen
  <1> QED
    BY <1>1, <1>2, Invariance, NextJoiners, PTL DEF Spec, LeaderIsMember
=============================================================================
