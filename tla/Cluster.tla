------------------------------- MODULE Cluster -------------------------------
(***************************************************************************)
(* A cluster: the controller's metadata log, its fetchers and what brokers *)
(* make of its records, topic creation, and the replication of partitions  *)
(* by replica fetchers that the records start.                             *)
(*                                                                         *)
(* The metadata log and the partitions' logs are LogFile logs. A record of *)
(* the metadata log is far smaller than the index interval and a produced  *)
(* batch may be larger, so the limits are parameters of each.              *)
(***************************************************************************)
EXTENDS Membership, PartitionStates

CONSTANTS
    Topics,             \* topics that may be created
    NumPartitions,      \* of each topic
    ReplicationFactor,  \* of each topic
    MetaSegment,        \* SegmentMaxBytes and IndexInterval of CommitLogConfig,
    MetaInterval,       \*   measured in cells of the metadata log
    DataSegment,        \* the same, measured in cells of a partition's log
    DataInterval,
    MaxMeta,            \* bound: records in the metadata log
    MaxBatches,         \* bound: batches in a leader's log
    MaxRestarts,        \* bound: restarts of brokers
    MaxBreaks           \* bound: connections that fail, dials that fail

ASSUME ClusterAssumption ==
    /\ NumPartitions \in Nat \ {0}
    /\ ReplicationFactor \in 1 .. Cardinality(Brokers)
    /\ MaxMeta \in Nat /\ MaxBatches \in Nat
    /\ MaxRestarts \in Nat /\ MaxBreaks \in Nat

Meta == INSTANCE LogFile WITH SegmentMaxBytes <- MetaSegment,
                              IndexInterval <- MetaInterval
Data == INSTANCE LogFile WITH SegmentMaxBytes <- DataSegment,
                              IndexInterval <- DataInterval

Partitions == Topics \X (0 .. NumPartitions - 1)

VARIABLES
    metaLog,   \* the controller's log of __cluster_metadata
    metaLEO,   \* LEO in the PartitionState of __cluster_metadata
    creating,  \* records the CreateTopics handler has still to append
    metaNext,  \* per broker, MetadataFetcher.fetchOffset
    topics,    \* per broker, the topics of its TopicStore, and its meta.json files
    states,    \* per broker, its PartitionStateStore
    logs,      \* per broker, the partition logs in its directory
    fetchers,  \* per broker, its ReplicaFetchers
    orphans,   \* did a broker meet a PartitionRecord of an unknown topic?
    restarts,  \* restarts so far
    rebooted,  \* the brokers that were restarted
    breaks     \* connections and dials that failed so far

metaVars == <<metaLog, metaLEO, creating, metaNext>>
brokerVars == <<topics, states, logs, fetchers>>
faultVars == <<restarts, rebooted, breaks>>
vars == <<memberVars, metaVars, brokerVars, orphans, faultVars>>

None == [x \in {} |-> 0]    \* a map without entries
With(f, x, v) == [y \in DOMAIN f \cup {x} |-> IF y = x THEN v ELSE f[y]]

Batches(log) == Data!WalkBatchHeadersFrom(log, 0)

TypeOK ==
    /\ MemberTypeOK
    /\ metaLog.nextOffset \in 0 .. MaxMeta /\ metaLEO \in 0 .. MaxMeta
    /\ metaNext \in [Others -> Nat]
    /\ topics \in [Brokers -> SUBSET Topics]
    /\ \A b \in Brokers :
          /\ DOMAIN states[b] \subseteq Partitions
          /\ DOMAIN logs[b] \subseteq Partitions
          /\ \A tp \in DOMAIN states[b] :
                LET ps == states[b][tp] IN
                /\ ps.leader \in Brokers /\ ps.isr \subseteq Brokers
                /\ ps.LEO \in Nat /\ ps.HWM \in Nat
          /\ \A tp \in DOMAIN fetchers[b] :
                LET f == fetchers[b][tp] IN
                /\ f.leader \in Brokers \ {b} /\ f.offset \in Nat
                /\ f.up \in BOOLEAN
    /\ orphans \in BOOLEAN
    /\ restarts \in 0 .. MaxRestarts /\ rebooted \subseteq Brokers
    /\ breaks \in 0 .. MaxBreaks

Init ==
    /\ MemberInit
    /\ metaLog = Meta!EmptyLog
    /\ metaLEO = 0
    /\ creating = <<>>
    /\ metaNext = [b \in Others |-> 0]
    /\ topics = [b \in Brokers |-> {}]
    /\ states = [b \in Brokers |-> None]
    /\ logs = [b \in Brokers |-> None]
    /\ fetchers = [b \in Brokers |-> None]
    /\ orphans = FALSE
    /\ restarts = 0
    /\ rebooted = {}
    /\ breaks = 0

(***************************************************************************)
(* The metadata log.                                                       *)
(***************************************************************************)

BrokerRecord(b, e) == [type |-> "broker", broker |-> b, epoch |-> e]
TopicRecord(t) == [type |-> "topic", topic |-> t]
PartitionRecord(tp, ps) ==
    [type |-> "partition", tp |-> tp, leader |-> ps.leader,
     replicas |-> ps.replicas, isr |-> ps.isr]

\* MetadataLog.Append on the controller: AppendRaw, then OnLeaderAppend. The
\* error of a full disk is ignored by its callers and not modelled.
MetaAppend(rec) ==
    LET base == metaLog.nextOffset IN
    /\ base < MaxMeta
    /\ metaLog' = Meta!AppendRaw(metaLog,
                      Meta!Cells([base |-> 0, n |-> 1, rec |-> rec]), 1)
    /\ metaLEO' = IF base + 1 > metaLEO THEN base + 1 ELSE metaLEO

\* HandleBrokerRegistrationApi: the record goes to the log before the answer.
RegisterBrokerApi(b) ==
    /\ Register(b)
    /\ MetaAppend(BrokerRecord(b, registry'[b].epoch))
    /\ UNCHANGED <<creating, metaNext, brokerVars, orphans, faultVars>>

HeartbeatApi(b) ==
    /\ Heartbeat(b, metaNext[b])
    /\ UNCHANGED <<metaVars, brokerVars, orphans, faultVars>>

RegistrarBreaks(b) ==
    /\ SessionBreaks(b)
    /\ breaks < MaxBreaks
    /\ breaks' = breaks + 1
    /\ UNCHANGED <<metaVars, brokerVars, orphans, restarts, rebooted>>

(***************************************************************************)
(* Replica fetchers and CreateTopics.                                      *)
(***************************************************************************)

\* A new ReplicaFetcher: it starts at 0 whatever is in the directory.
NewReplicaFetcher(leader) ==
    [leader |-> leader, offset |-> 0, up |-> TRUE, answer |-> <<>>]

\* Mutant of AddFetcher: a fetcher that runs is replaced.
AddFetcherTwice(w, tp, leader, dialled) ==
    IF ~dialled THEN w
    ELSE [w EXCEPT
        !.logs = With(@, tp, IF tp \in DOMAIN @ THEN Data!NewCommitLog(@[tp])
                                                ELSE Data!EmptyLog),
        !.fetchers = With(@, tp, NewReplicaFetcher(leader))]

\* AddFetcher on w, a broker's [topics, states, logs, fetchers]: nothing if
\* there is one, or if the leader cannot be dialled.
AddFetcher(w, tp, leader, dialled) ==
    IF tp \in DOMAIN w.fetchers \/ ~dialled THEN w
    ELSE [w EXCEPT
        !.logs = With(@, tp, IF tp \in DOMAIN @ THEN Data!NewCommitLog(@[tp])
                                                ELSE Data!EmptyLog),
        !.fetchers = With(@, tp, NewReplicaFetcher(leader))]

View(b) == [topics |-> topics[b], states |-> states[b], logs |-> logs[b],
            fetchers |-> fetchers[b], orphan |-> FALSE]

SetView(b, w) ==
    /\ topics' = [topics EXCEPT ![b] = w.topics]
    /\ states' = [states EXCEPT ![b] = w.states]
    /\ logs' = [logs EXCEPT ![b] = w.logs]
    /\ fetchers' = [fetchers EXCEPT ![b] = w.fetchers]

Ids == SetToSortSeq(Brokers, LAMBDA x, y : x < y)

\* May the dials of this step fail?
Dialling(dialled) ==
    /\ ~dialled => breaks < MaxBreaks
    /\ breaks' = IF dialled THEN breaks ELSE breaks + 1

\* AddTopic and createTopicStorage on w: an empty log for each partition, those
\* led by other brokers too.
CreateTopicStorage(w, t) ==
    LET mine == {t} \X (0 .. NumPartitions - 1)
    IN [w EXCEPT !.topics = @ \cup {t},
                 !.logs = [tp \in DOMAIN @ \cup mine |->
                              IF tp \in mine THEN Data!EmptyLog ELSE @[tp]]]

\* HandleCreateTopics for a valid request with a new name, up to the records:
\* AssignReplicas, AddTopic, createTopicStorage, StartFollowerFetch.
CreateTopics(t, dialled) ==
    LET c == Controller
        mine == {t} \X (0 .. NumPartitions - 1)
        ps(tp) == AssignReplicas(tp[2], ReplicationFactor, Ids)
        w == [View(c) EXCEPT
                !.states = [tp \in DOMAIN @ \cup mine |->
                               IF tp \in mine THEN ps(tp) ELSE @[tp]]]
        follow(v, p) == IF ps(<<t, p>>).leader = c THEN v
                        ELSE AddFetcher(v, <<t, p>>, ps(<<t, p>>).leader, dialled)
    IN
    /\ t \notin topics[c]
    /\ creating = <<>>
    /\ Dialling(dialled)
    /\ SetView(c, FoldLeft(follow, CreateTopicStorage(w, t),
                           [i \in 1 .. NumPartitions |-> i - 1]))
    /\ creating' = <<TopicRecord(t)>> \o
                   [i \in 1 .. NumPartitions |->
                       [type |-> "partition", tp |-> <<t, i - 1>>]]
    /\ UNCHANGED <<memberVars, metaLog, metaLEO, metaNext, orphans, restarts,
                   rebooted>>

\* HandleCreateTopics appends its next record, from the partition's state by now.
AppendTopicRecords ==
    LET r == Head(creating) IN
    /\ creating # <<>>
    /\ MetaAppend(IF r.type = "topic" THEN r
                  ELSE PartitionRecord(r.tp, states[Controller][r.tp]))
    /\ creating' = Tail(creating)
    /\ UNCHANGED <<memberVars, metaNext, brokerVars, orphans, faultVars>>

(***************************************************************************)
(* MetadataFetcher.                                                        *)
(***************************************************************************)

\* ApplyMetadataRecord on broker b with view w. (A BrokerRecord changes b's own
\* registry, which only tells addresses here.)
ApplyMetadataRecord(b, w, rec, dialled) ==
    CASE rec.type = "broker" -> w
      [] rec.type = "topic" -> [w EXCEPT !.topics = @ \cup {rec.topic}]
      [] rec.type = "partition" ->
           IF rec.tp[1] \notin w.topics THEN [w EXCEPT !.orphan = TRUE]
           ELSE LET v == [w EXCEPT !.states =
                            With(@, rec.tp,
                                 NewState(rec.leader, rec.replicas, rec.isr))]
                IN IF rec.leader # b
                   THEN AddFetcher(v, rec.tp, rec.leader, dialled)
                   ELSE [v EXCEPT !.logs =
                            With(@, rec.tp,
                                 IF rec.tp \in DOMAIN @
                                 THEN Data!NewCommitLog(@[rec.tp])
                                 ELSE Data!EmptyLog)]

\* What the controller answers to a fetch of its metadata from offset on.
MetaFetched(offset) ==
    LET reg == Meta!FindRecords(metaLog, offset, 0)
    IN Meta!RegionBatches(metaLog, Meta!ClipRegionToOffset(metaLog, reg, metaLEO))

\* One round of fetchLoop that brings records: all of them are applied, then
\* fetchOffset grows by their number. A fetch that fails or brings nothing
\* changes nothing; the next one asks again.
MetaFetch(b, dialled) ==
    LET got == MetaFetched(metaNext[b])
        w == FoldLeft(LAMBDA v, batch : ApplyMetadataRecord(b, v, batch.rec, dialled),
                      View(b), got)
    IN
    /\ got # <<>>
    /\ Dialling(dialled)
    /\ SetView(b, w)
    /\ metaNext' = [metaNext EXCEPT ![b] = @ + Len(got)]
    /\ orphans' = (orphans \/ w.orphan)
    /\ UNCHANGED <<memberVars, metaLog, metaLEO, creating, restarts, rebooted>>

(***************************************************************************)
(* Partitions.                                                             *)
(***************************************************************************)

Leads(b, tp) == tp \in DOMAIN states[b] /\ states[b][tp].leader = b

\* HandleProduceApiKeys on broker b, of a batch with one record: the leader
\* check, AppendRaw, OnLeaderAppend.
Produce(b, tp) ==
    /\ Leads(b, tp)
    /\ logs[b][tp].nextOffset < MaxBatches
    /\ logs' = [logs EXCEPT ![b][tp] = Data!AppendRaw(@,
                   Data!Cells([base |-> 0, n |-> 1, at |-> b]), 1)]
    /\ states' = [states EXCEPT ![b][tp] =
                     OnLeaderAppend(@, logs[b][tp].nextOffset)]
    /\ UNCHANGED <<memberVars, metaVars, topics, fetchers, orphans, faultVars>>

\* HandleFetchApiKeys on the leader, for broker b's ReplicaFetcher of tp: the
\* leader learns what b has, and answers with whole batches below its LEO.
ReplicaFetchServed(b, tp) ==
    LET f == fetchers[b][tp]
        log == logs[f.leader][tp]
        ps == UpdateReplicaLEO(states[f.leader][tp], b, f.offset)
        reg == Data!FindRecords(log, f.offset, 0)
        got == Data!RegionBatches(log, Data!ClipRegionToOffset(log, reg, ps.LEO))
    IN
    /\ f.up /\ f.answer = <<>>
    /\ Leads(f.leader, tp)
    /\ states' = [states EXCEPT ![f.leader][tp] = ps]
    /\ fetchers' = [fetchers EXCEPT ![b][tp].answer = got]
    /\ UNCHANGED <<memberVars, metaVars, topics, logs, orphans, faultVars>>

\* Mutant of ReplicaFetchApplied: the fetcher goes on one offset too far.
ReplicaFetchAppliedPast(b, tp) ==
    LET f == fetchers[b][tp]
        log == logs[b][tp]
    IN
    /\ f.answer # <<>>
    /\ logs' = [logs EXCEPT ![b][tp] =
                   Data!AppendRaw(@, Data!Blob(f.answer), Len(f.answer))]
    /\ fetchers' = [fetchers EXCEPT ![b][tp].answer = <<>>,
                       ![b][tp].offset = log.nextOffset + Len(f.answer) + 1]
    /\ UNCHANGED <<memberVars, metaVars, topics, states, orphans, faultVars>>

\* ReplicaFetcher.Run with an answer that has records: AppendRaw of the bytes.
ReplicaFetchApplied(b, tp) ==
    LET f == fetchers[b][tp]
        log == logs[b][tp]
    IN
    /\ f.answer # <<>>
    /\ logs' = [logs EXCEPT ![b][tp] =
                   Data!AppendRaw(@, Data!Blob(f.answer), Len(f.answer))]
    /\ fetchers' = [fetchers EXCEPT ![b][tp].answer = <<>>,
                       ![b][tp].offset = log.nextOffset + Len(f.answer)]
    /\ UNCHANGED <<memberVars, metaVars, topics, states, orphans, faultVars>>

\* The fetcher's connection fails, perhaps with an answer under way. Run goes on
\* calling Fetch on the dead connection.
FetcherBreaks(b, tp) ==
    /\ fetchers[b][tp].up
    /\ breaks < MaxBreaks
    /\ breaks' = breaks + 1
    /\ fetchers' = [fetchers EXCEPT ![b][tp].up = FALSE, ![b][tp].answer = <<>>]
    /\ UNCHANGED <<memberVars, metaVars, topics, states, logs, orphans, restarts,
                   rebooted>>

\* ISRManager.tick for one partition that b leads, when it changes the ISR. The
\* record goes to b's own metadata log: only the controller's is ever read.
IsrTick(b, tp, expired) ==
    LET ps == states[b][tp] IN
    /\ Leads(b, tp)
    /\ Laggards(ps, expired) # {} \/ Returning(ps) # {}
    /\ states' = [states EXCEPT ![b][tp] = Ticked(ps, expired)]
    /\ IF b = Controller THEN MetaAppend(PartitionRecord(tp, Ticked(ps, expired)))
                         ELSE UNCHANGED <<metaLog, metaLEO>>
    /\ UNCHANGED <<memberVars, creating, metaNext, topics, logs, fetchers, orphans,
                   faultVars>>

(***************************************************************************)
(* Restarts.                                                               *)
(***************************************************************************)

\* The process of broker b ends and starts again: recoverTopic makes b the
\* leader of all it has on disk, initMetadataLog opens the metadata log with a
\* PartitionState that has LEO 0, and connections to b are gone for good.
Restart(b) ==
    /\ restarts < MaxRestarts
    /\ restarts' = restarts + 1
    /\ rebooted' = rebooted \cup {b}
    /\ MemberRestart(b)
    /\ states' = [states EXCEPT ![b] = [tp \in DOMAIN logs[b] |-> SetLeader(b)]]
    /\ logs' = [logs EXCEPT ![b] =
                   [tp \in DOMAIN @ |-> Data!NewCommitLog(@[tp])]]
    /\ fetchers' = [o \in Brokers |->
          IF o = b THEN None
          ELSE [tp \in DOMAIN fetchers[o] |->
                  LET f == fetchers[o][tp] IN
                  IF f.leader = b THEN [f EXCEPT !.up = FALSE, !.answer = <<>>]
                                  ELSE f]]
    /\ IF b = Controller
       THEN /\ metaLog' = Meta!NewCommitLog(metaLog)
            /\ metaLEO' = 0
            /\ creating' = <<>>
            /\ UNCHANGED metaNext
       ELSE /\ metaNext' = [metaNext EXCEPT ![b] = 0]
            /\ UNCHANGED <<metaLog, metaLEO, creating>>
    /\ UNCHANGED <<topics, orphans, breaks>>

Next ==
    \/ \E b \in Others :
          \/ RegisterBrokerApi(b)
          \/ HeartbeatApi(b)
          \/ RegistrarBreaks(b)
          \/ \E dialled \in BOOLEAN : MetaFetch(b, dialled)
    \/ \E t \in Topics, dialled \in BOOLEAN : CreateTopics(t, dialled)
    \/ AppendTopicRecords
    \/ \E b \in Brokers :
          \/ \E tp \in DOMAIN states[b] :
                \/ Produce(b, tp)
                \/ \E expired \in SUBSET Brokers : IsrTick(b, tp, expired)
          \/ \E tp \in DOMAIN fetchers[b] :
                \/ ReplicaFetchServed(b, tp)
                \/ ReplicaFetchApplied(b, tp)
                \/ FetcherBreaks(b, tp)
          \/ Restart(b)

Spec == Init /\ [][Next]_vars

(***************************************************************************)
(* Properties.                                                             *)
(***************************************************************************)

\* full_flow.md: "When `ApplyMetadataRecord` processes a `PartitionRecord`, the
\* `TopicRecord` has already been applied, so `topicStore.GetTopic(topicId)`
\* always succeeds." Not so once a fetch of metadata was answered from an earlier
\* offset than it asked for: later records are skipped.
TopicBeforePartition == ~orphans

BatchesOf(b, tp) == IF tp \in DOMAIN logs[b] THEN Batches(logs[b][tp]) ELSE <<>>

\* The log of a follower that has not been restarted is a prefix of its leader's,
\* batch for batch and at the same offsets.
FollowerIsPrefix ==
    \A b \in Brokers \ rebooted : \A tp \in DOMAIN fetchers[b] :
        IsPrefix(BatchesOf(b, tp), BatchesOf(fetchers[b][tp].leader, tp))

\* full_flow.md, acks=-1: answered when "every replica in current ISR has fetched
\* past `lastOffset`": what lies below the high-watermark of a leader is in the
\* log of every follower in its ISR.
CommittedOnIsr ==
    \A b \in Brokers : \A tp \in DOMAIN states[b] :
        LET ps == states[b][tp] IN
        Leads(b, tp) => \A f \in ps.isr \ ({b} \cup rebooted) :
            ps.HWM <= Len(BatchesOf(f, tp))
            /\ SubSeq(BatchesOf(f, tp), 1, ps.HWM) = SubSeq(BatchesOf(b, tp), 1, ps.HWM)

\* A follower that is behind is served: its next fetch brings a batch that it does
\* not have, so that fetching over and over it catches up.
FetchMakesProgress ==
    \A b \in Brokers \ rebooted : \A tp \in DOMAIN fetchers[b] :
        LET f == fetchers[b][tp]
            log == logs[f.leader][tp]
            end == states[f.leader][tp].LEO
            next == Len(BatchesOf(b, tp)) IN
        f.up /\ f.answer = <<>> /\ Leads(f.leader, tp) /\ next < end =>
            LET got == Data!RegionBatches(log, Data!ClipRegionToOffset(log,
                           Data!FindRecords(log, f.offset, 0), end))
            IN got # <<>> /\ got[1].base = next

=============================================================================
