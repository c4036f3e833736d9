# A TLA+ verification of kaf-go

kaf-go is a Kafka-compatible broker. This directory models its concurrent,
replicated and recoverable parts in TLA+, checks the models with TLC on small
instances and proves the properties that can be proved with TLAPS for every
instance. `PROJECT.json` records, for every definition, the source lines it
models, and for every run, theorem and hazard what it is about.

## 1. The system

| Part | State | Operations | Source |
|---|---|---|---|
| Partition state | LEO, HWM, ISR, ReplicaLEO, LastCaughtUp | OnLeaderAppend, UpdateReplicaLEO, AdvanceHWM, AddToISR, RemoveFromISR, AssignReplicas, SetPartitionState | `coordinator/partition_state.go` |
| Purgatory | parked acks=-1 waiters | Add, CompleteUpTo, FailAll | `coordinator/partition_purgatory.go` |
| Produce, Fetch | per request | handlers, one goroutine per connection | `api/produce_api.go`, `api/fetch_api.go` |
| ISR manager | none of its own | tick: shrink, expand, publish, advance, check | `server/isr_manager.go` |
| Producer ids | nextBase, blockEnd | AllocateOne, leaseNextBlockLocked, SeedFromLog | `coordinator/pid_manager.go` |
| Idempotent producers | ring of batches per producer | Validate, Record, Snapshot, Restore | `coordinator/idempotence_state.go` |
| Producer snapshots | snapshot files | OnSegmentRoll, Recover, prune | `coordinator/producer_state_manager.go`, `producer_snapshot.go` |
| Commit log | segments, index, nextOffset | AppendRaw, FindRecords, roll, load | `storage/commitlog/` |
| Metadata log | commit log of records | Append, Replay | `coordinator/metadata_log.go` |
| Metadata propagation | offset in the controller's log | fetchLoop, ApplyMetadataRecord, CreateTopics, recoverTopic | `server/metadata_fetcher.go`, `server/server.go` |
| Replica fetchers | fetchOffset, local log | Run, AddFetcher | `server/replica_fetcher*.go` |
| Broker registry | epochs, addresses | RegisterBroker, ValidateAndUpdate, heartbeats | `server/broker_regist*.go` |
| Connections | bytes under way | BrokerClient.Fetch, sendRequest, Conn.handle | `server/broker_client.go`, `server/conn.go` |
| Codecs | none | Encode, Decode of messages, records and batches | `protocol/` |
| Consumer groups | members, generation, blocked joins and syncs, timers | Join, Sync, Leave, Heartbeat, eviction, rebalance timeout, cleanup | `coordinator/group_store.go` |

How they interact. A Produce handler asks the idempotence state, appends to the
commit log, raises LEO, may raise HWM and, with acks=-1, parks a waiter.
Followers and the ISR manager's tick raise HWM too, and whoever raises it
completes the waiters below. The controller, the broker with the lowest id,
keeps the metadata log: topics, partitions, brokers and producer-id leases are
records in it, which the other brokers fetch and apply. A PartitionRecord makes
a broker leader or starts its replica fetcher, which fetches from the leader as
any consumer does and reports its offset by doing so. Consumer groups are
independent of all that.

What is hard about it: locks that are released between two halves of an
operation, answers given by several goroutines, timers that race the event they
guard, retries of requests that are still blocked or already done, state that is
rebuilt from files after a crash, and offsets that two brokers count
separately. `PROJECT.json` lists these hazards at the lines where they bite.

## 2. Modules

| Module | Models | Kind |
|---|---|---|
| `PartitionLeader` | partition state, purgatory, Produce and Fetch handlers, ISR tick | component, threads composed |
| `AckedLog` | what a partition promises its clients | abstract specification |
| `PidManager` | producer ids, the log they are leased in, controller restart | component |
| `GroupStore` | one consumer group, its clients and timers | component |
| `LogFile` | segments, index, scans, regions | operators |
| `CommitLog` | one commit log, failures and restarts | component |
| `RecordLog` | what a log promises until a write fails | abstract specification |
| `ProducerState` | idempotence gate, snapshots, recovery, clients that resend | composition with `LogFile` |
| `PartitionStates` | the partition state's operations, each in one step | operators |
| `Membership` | registration, epochs, heartbeats | component |
| `Cluster` | metadata log and its fetchers, topic creation, replica fetchers, restarts | composition of `Membership`, `PartitionStates`, `LogFile` |
| `Wire`, `Messages`, `RecordBatches` | primitive types, messages, metadata records and batches as bytes | operators |
| `Codec` | decoders against encoders over small sets of values | properties of the operators |
| `Connection` | calls over one connection between brokers, byte by byte | component, with `Messages` |
| `PartitionLeaderProofs`, `PidManagerProofs`, `GroupStoreProofs`, `ClusterProofs` | | theorems about these components |
| `SegmentProofs`, `LogFileProofs` | | lemmas about `LogFile`: one segment, a log of segments |
| `CommitLogProofs`, `FetchProofs` | | theorems about `CommitLog`: its state, what its fetches are served |
| `MC...` | symmetry sets, constraints, values for TLC | instances |

### PartitionLeader

Threads are the Produce handlers (`Producers`), the connections of followers
(`Followers`) and the ISR manager (`Tick`), each with a `pc`. A step is what the
code does under one acquisition of `ps.mu`, of the purgatory's mutex or of the
commit log's mutex, or one unlocked read. `AdvanceHWM` is therefore two steps:
the section under `ps.mu`, and `CompleteWaiters`, with the hwm it read in
between in `hwm[t]`. The end of an acks=-1 request is `ProducePark`,
`ProduceGetHWM`, `ProduceDrain` and then the select: `ProduceAnswered` or
`ProduceTimeout`.

Abstractions: a record is its offset; a waiter is its `RequiredOffset` (offsets
are not shared, which `LeaderInv` states and the proofs show); the clock is
`caughtUp`, which is stamped by a fetch that reaches LEO and grows old in
`LagPasses`; a follower reports any offset, because its fetcher restarts at 0 and
may run ahead; acks=0 is acks=1 without a response.

### PidManager

`AllocateOne` under `m.mu` is up to three steps, since the lease goes to disk in
the middle: take the mutex, `LeaseAppend` (or `LeaseFails`), `LeaseTake`.
`LeaseFails` may leave the record in the log, as `Segment.AppendRaw` does when
the file was written and the index was not. `Crash` can happen between any two
steps and loses memory only. `Restart` is `recoverPidManager`. `MaxSeen` is
what Replay yields: the records of the first segment, or nothing after an error.
The log survives a crash of the process; a power failure that loses unsynced
pages is not modelled.

### GroupStore

Every handler holds `gs.mu` to its end, so it is one action, with the
`maybeCloseJoinBarrier` or `transitionToPrepareRebalance` it ends in. `client`
is the request the current connection of a member is blocked on; with `Retries`
a client may give up and send again, which leaves its old entry behind. The
rebalance timer is three steps: it ends (`TimerFires`), its closure reads the
generation without the lock (`TimerReads`), and `OnRebalanceTimeout` gets the
lock. A session timer may expire at any time (`EvictMember`), so heartbeats need
no action: they only postpone it. `life` tells a group from one created later
with the same name, whose generations start again at 1. `panicked` stands for
the end of the process when a goroutine indexes an empty slice.

### LogFile, CommitLog, RecordLog

A segment file is a sequence of cells, one for a batch header and one for each
record, so that a file can end within a batch and positions, sizes and the two
configured limits (`SegmentMaxBytes`, `IndexInterval`) keep their meaning. The
loops of the code (index search, region search, clip, header scans) are
recursive functions with the code's conditions. `CommitLog` calls them in one
step each, as `commitLog.mu` is held throughout, and lets an append fail before,
within and after its write and the process stop within one. `intact` says that
no bytes were left behind by such a write. Until then the files implement
`RecordLog`: batches without gap or overlap, to which appends add at the end and
which nothing else changes.

### ProducerState

Each producer has one connection. Its handler is `Validate`, `HandlerAppend`
and `HandlerRecord`, three critical sections between which handlers of other
producers, snapshot goroutines (`SnapshotTake`, `SnapshotWrite`) and crashes
come. Clients lose answers, resend anything in their window, bump their epoch
or fall silent for an hour. Sequence numbers have the width `MaxSeq` and wrap as
int32 does in the code and as clients number batches. `lossy` records that
recovery will miss, or a snapshot missed, batches of a sealed segment.
`HourPasses` leaves out the hour just before the numbers start again at 0,
where a pipelined batch 0 would pass for a new producer's.


### Cluster, Membership, PartitionStates

Each broker has a view: `topics`, `states` (its PartitionStateStore), `logs` and
`fetchers`. The controller's `metaLog` and the partitions' logs are `LogFile`
logs with limits of their own. A round of a fetcher is two steps, the leader's
(`ReplicaFetchServed`) and the follower's (`ReplicaFetchApplied`), between which
connections break and brokers restart; a round of the metadata fetcher that
brings records is one. `CreateTopics` appends its records one by one
(`AppendTopicRecords`) while others append theirs. `Restart` is the end of a
process and its start: `recoverTopic`, empty registries, a metadata state with
LEO 0. Connections to a restarted broker are never dialled again, as in the
code. Left out: requests that CreateTopics refuses (and duplicate names, which
it accepts), min.insync.replicas and parked requests (`PartitionLeader` has
them), a registration left on an abandoned connection and handled after the
next one.

### Wire, Messages, RecordBatches, Codec, Connection

Here the data is the point, so values are bytes. A format is an operator that
writes a value and one that reads it at a position and gives the value and the
next position, or `Fail`; `Messages` and `RecordBatches` put them together in the
order of the code. `Connection` sends these bytes: a request goes out in two
writes, answers come back in pieces, the connection breaks and cuts what is
under way, and a handler may fail half-way through a fetch answer
(`ServeCut`). Nothing compares correlation ids, so that a call gets its own
answer rests on the mutex and on every length being right.

What the modules have that a reader of the code may not expect: an empty
NullableString is refused by its reader; null CompactNullableBytes come back as
an error; the bytes of an unknown tag are not skipped;
`ApiVersionResponse.Decode` reads no tags; a TopicRecord that is cut off is
accepted with a default; `DecodeRecordBatch` reads only the first batch;
`CountRecords` counts a last batch whose end is missing; gzip, lz4 and zstd
panic. The sets of values in `Codec` stay clear of the first four, which have
no message between brokers that carries them.

## 3. Runs

Passing runs:

| Run | Checks | Shows |
|---|---|---|
| `leader_commit` | `TypeOK`, `AckedIsCommitted`, `NoLostWakeup`, `LeaderInv`, `AnswerIsFinal`, `CommitNeedsISR`, `ImplementsAckedLog` | acknowledgements, commits, wake-ups and reads of two concurrent producers, a follower, a consumer and the tick |
| `leader_live` | `ParkedIsAnswered` | parked requests are answered without their timer |
| `pid_crash` | `TypeOK`, `UniquePids`, `LeasedBeforeUse` | crashes at every point of an allocation |
| `group_agree` | `TypeOK`, `OneLeader`, `OnePlan`, `SyncedAsAsked` | agreement within a generation, with retries, expiry and a group that dies and returns |
| `group_live` | `LeaderIsMember`, `BarrierResolves` | rebalances end, with a leader that is a member |
| `log_store` | `TypeOK`, `FetchServes`, `FetchReaches`, `RestartKeepsEnd`, `ImplementsRecordLog` | what fetches find over segments, index and restarts; what a restart continues with |
| `producer_retry` | `TypeOK`, `OnceInOrder`, `StateMatchesLog`, `RetryIsRecognised`, `AnswerIsRight` | each batch is in the log once and in order, retries are recognised |
| `cluster` | `TypeOK`, `HeartbeatsAccepted`, `FollowerIsPrefix`, `CommittedOnIsr`, `FetchMakesProgress` | replication from topic creation on, with broken connections and a restart, for batches that are all indexed |
| `wire_calls` | `TypeOK`, `OwnAnswer`, `HandledAsSent`, `NoCallHangs`, `MessagesUnderstood`, `MetadataUnderstood`, `WholeBatchesTaken` | calls that share a connection; decoders against encoders; readers of batches that are cut |

Runs that refute a statement of the repository (the findings quote it):

| Run | Statement | What the code does |
|---|---|---|
| `group_panic` | the timeout ends the preparation | nobody joined: index out of range |
| `producer_crash` | a crash between roll and snapshot loses nothing | recovery skips the sealed segment: a resent batch is appended twice |
| `cluster_acked` | acknowledged means fetched by every in-sync replica | a fetch is answered from one batch too early, the follower's offset runs ahead of what it has |

Statements that TLC refutes and that have no run in `PROJECT.json`; the
configuration named is in this directory, or the change to one of a run:

| Statement | Property, configuration | What the code does |
|---|---|---|
| a shrink fails parked waiters (`README.md:15`) | `ShrinkFailsParked`, `LeaderShrink.cfg` | `AdvanceHWM` acknowledges them before `checkMinISR` |
| only caught-up followers are re-added (`docs/full_flow.md:1426`) | `ExpandOnlyCaughtUp`, `LeaderExpand.cfg` | the snapshot is stale when `AddToISR` runs |
| a crash cannot re-issue a PID (`docs/full_flow.md:782`) | `UniquePids`, `PidSegments.cfg`; also `PidCrash.cfg` with `ReadErrors = TRUE` | Replay reads the first segment only; an error is only logged |
| the barrier waits for every member (`README.md:152`) | `BarrierWaitsForAll`, `GroupBarrier.cfg` | a doubled join counts for a missing member |
| JoinGroup is answered at the latest after the timeout (`docs/full_flow.md:970`) | `JoinIsAnswered`, `GroupJoin.cfg` | joins during CompletingRebalance, and joins a new transition drops, are not |
| a stable group loses members through a rebalance (`docs/full_flow.md:966`) | `LossRebalances`, `GroupLateTimer.cfg` | a late timer callback deletes them |
| rebalances end, for clients that retry | `BarrierResolves`, `GroupLive.cfg` with `Retries = TRUE` | after a timeout doubled joins outnumber the members |
| a fetch starts at the batch of its offset (`docs/full_flow.md:1026`) | `FetchStartsExactly`, `LogStore.cfg` | one batch earlier when the offset begins a batch that is not in the index |
| torn bytes are ignored (`docs/full_flow.md:902`) | `AckedSurvives`, `LogStore.cfg` | batches written behind them are acknowledged and not found after a restart |
| a PartitionRecord comes after its TopicRecord (`docs/full_flow.md:475`) | `TopicBeforePartition`, `ClusterSafe.cfg` with `MetaInterval = 6` | a metadata fetch answered from too early an offset puts the fetcher ahead of the log; a later answer that begins exactly, at an indexed record, leaves out the ones in between |

`docs/full_flow.md:965` says a group is Stable when all SyncGroups were received;
the code, and so `GroupStore`, makes it Stable on the leader's alone, and refuses
followers that come later.

Bounds, and why they are enough. In `leader_commit`, two producers are needed
for appends and OnLeaderAppends in different orders and for waiters that other
handlers complete, `MaxOffset` 2 for one waiter below and one above the
high-watermark, `MinISR` 2 of two replicas for both outcomes of the tick; the
theorems cover every number of followers. `pid_crash` has blocks of two ids, so
four requests exhaust a block, and five records leave room for failed leases.
`group_agree` has three generations, so that a request can be two behind, two
lives, two plans, and one more pending join than members; `group_live` has three
members so that one can leave while one joined and one did not. In `log_store`
two or three batches fill a segment and every second one is due for an index
entry, so six appends give three segments with indexed and other batches; byte
limits are none, less than a batch and one to two batches. In `producer_retry`
the ring, the window and the number of snapshots kept are 2, which four batches
overwrite, sequence numbers wrap after 3, and a segment holds two batches. It
stops following a behaviour when a restart has lost state, since from there
only `producer_crash` has something to say. In `cluster` two brokers are
controller and follower, and either may lead a partition after its restart;
three batches roll the data segment. `DataInterval` 1 makes every batch an
indexed one, as batches of 4 KB are; smaller batches are the subject of
`cluster_acked`. In `wire_calls` two fetchers share a connection, offsets and
sizes need one and two bytes as variable-length integers, and three calls leave
room for two after one that failed. Larger instances that also pass:
`producer_retry` with `MaxBatches` 5 and `SegmentMaxBytes` 6; `cluster` with
`MaxMeta` 5, and with two partitions and one batch. Liveness runs use no
symmetry.

Deadlock is checked for `PartitionLeader`. The other systems may stop: requests
are answered, bounds are reached, or nobody sends anything.

Fairness. `PartitionLeader!FairSpec` has weak fairness for each goroutine and
for the passing of time; no client has to send and no request has to time out.
Goroutines are scheduled and none of the modelled sections waits for anything but
a mutex that is held for a bounded time. `GroupStore!FairSpec` has weak fairness
for timers and their callbacks only. That a follower catches up and that a call
ends are stated as invariants instead (`FetchMakesProgress`, `NoCallHangs`): the
next step brings something new, or all that is waited for is under way. In the
code both depend on a connection that stands, which nothing guarantees.

What the passing runs leave out. `group_live` has `Retries = FALSE`, and counts
the panic of `group_panic` as an end of the preparation. `pid_crash` has
`ReadErrors = FALSE` and one segment. `log_store` says nothing after a write
that failed half way, `producer_retry` nothing after a restart that lost state,
and its `RetryIsRecognised` nothing just after the wrap of sequence numbers,
where a resent batch is refused as out of order. `FollowerIsPrefix` and
`CommittedOnIsr` are about followers that have not been restarted: a restarted
one fetches from 0 into a log that is not empty. `NoCallHangs` excepts a handler
that failed half-way through an answer, whose caller does hang.

Mutants. Each property of a passing run has a mutated definition beside the
original (`...Past`, `...Keeps`, `...Swapped` and so on) that imitates a plausible
slip, and the run finds the property violated when the mutant takes the
original's place.

## 4. Proofs

`PartitionLeaderProofs`: for every set of replicas, producers and consumers and
all bounds. The inductive invariant is

    Inv == TypeOK /\ LeaderInv /\ NoLostWakeup /\ AckedIsCommitted

`AckedIsCommitted` is not inductive by itself: `CompleteUpTo(hwm[t])` uses a
value read earlier, so one needs that no thread holds an hwm above HWM
(`LeaderInv`), which in turn needs that HWM never falls. `NoLostWakeup` needs
that a handler that has yet to park owns an offset nobody else has, otherwise
another handler's park would stand for it. One lemma per group of actions shows
that the invariant is kept; theorems then give `TypeCorrect`,
`AcksAreCommitted`, `NoWakeupIsLost`, `BookkeepingHolds`, the action properties
`AnswersAreFinal` and `CommitsNeedISR`, and `Refinement`: the initial states and
every step map to `AckedLog`. Assumption: `ConstantsAssumption` (the leader is
a replica, threads are distinct, bounds are naturals, replicas are finite).

`PidManagerProofs`: for all requests, block sizes and crashes, `TypeCorrect`,
`LeasesPrecedeUse` (whatever Replay reads) and `PidsAreUnique`, the last under
`ReplayComplete == MaxRecords <= SegmentRecords /\ ~ReadErrors`, that is, when
Replay reads the whole log. The inductive invariant says that the block in
memory is covered by a lease in the log, that at most one request holds the
mutex and a lease in progress starts where the block ends, and, if
`ReplayComplete`, that ids given out are below `nextBase` while the controller
runs. Only the step `Restart` uses `ReplayComplete`.

`GroupStoreProofs`: for every set of members and plans, with or without retries,
`TypeCorrect`, `LeadersAgree`, `PlansAgree` and the action properties
`SyncsAreAsAsked` and `LeadersAreMembers`. `OneLeader` is inductive only with what relates old answers to
the group as it is: an answer is of an earlier life, of an earlier generation,
or of this one, and then the group is past its preparation and the answer names
its leader (`JoinKnown`; `SyncKnown` is the same of plans). Every handler either
prepares a new generation or leaves the fields these speak of alone (`Prepares`,
`Stays`), and the close of the barrier is treated once, in `CloseInv`. For
`SyncsAreAsAsked` one needs that blocked SyncGroups are of this generation and
exist only until the next transition (`BlockedInv`); for `LeadersAreMembers`,
that whoever waits for the barrier is a member, except in a dead group
(`JoinersInv`).

`SegmentProofs`, `LogFileProofs`, `CommitLogProofs` and `FetchProofs`: for logs of
any length, batches of any size, every segment size, index interval, byte limit
and high-watermark, and all failures and restarts, `TypeCorrect`,
`RestartsKeepEnd`, `Refinement` (the files implement `RecordLog`), `FetchesServe`
and `FetchesReach`. The inductive invariant of `CommitLog` is

    LogInv == types /\ (intact => GoodLog(log) /\ InLog(log.segments) = acked
                                                /\ AckedEnd = log.nextOffset)

`RestartKeepsEnd` is not inductive: what a restart continues with is computed
from the files, so one needs what the files hold. A `GoodLog` is a chain of
segments, each of which begins where the one before it ends, and each of which
is good: its file is whole batches, their offsets follow each other from the
segment's base, and an index entry gives the position of a batch with that
offset. After a write that failed half way nothing but the types is claimed,
as in the properties. Then

- `SegmentProofs` shows what a scan of a file finds (`ScanHeaders`,
  `ScanContiguous`, `ScanLast`), what an appended batch adds to it
  (`AppendScan`, `AppendOrdered`) and that `Segment.AppendRaw` keeps a segment
  good (`SegmentAppendGood`);
- `LogFileProofs` shows the same of a chain: what a roll and an append do to the
  batches in the log (`RolledGood`, `AppendRawGood`), and that a log reopened
  from its file names is the log as it was (`Reopened`, `NewCommitLogGood`);
- `CommitLogProofs` goes through the actions. The failures are the interesting
  ones: the bytes a torn write leaves behind are never taken for a batch
  (`TornNotScanned`), so a restart ends where the log ended (`TornRestart`);
- `FetchProofs` follows a fetch: the binary searches for the segment
  (`SegmentFound`) and in its index (`IndexFound`), the scan for the batch to
  begin with (`StartFound`), the byte limit (`EndFound`), the high-watermark
  (`ClipFound`), and what the bytes served hold (`PartScan`).

The loops are recursive functions over files of any length. What they compute is
proved without an induction rule: among the inputs for which a claim fails, one
with the fewest rounds left would contradict one round of the loop
(`LeastNumber`, `LoopInduction`); that the function exists at all is shown in the
same way (`LoopExists`). Assumptions: `LogFileAssumption` and `CommitLogAssumption`
(limits and bounds are naturals, batches have at least one record).

`ClusterProofs`: `HeartbeatsAreAccepted` for clusters of any size, all bounds and
faults. The invariant says that a broker with a standing session has the epoch
the controller registered for it last; each step of `Membership` keeps it, and
the other steps of `Cluster` leave its variables alone.

Only model-checked:

- liveness (`ParkedIsAnswered`, `BarrierResolves`), which needs fairness and
  ENABLED;
- the properties of `producer_retry`. They relate the rings of all producers,
  the snapshots and the log across recovery; the part of it that speaks of the
  log is what `LogFileProofs` shows, the rest is left to TLC;
- the replication properties of `cluster`, which are about two logs with
  limits of their own; `Cluster` has them as instances of `LogFile`, to which
  the lemmas above do not apply as they stand;
- everything about bytes (`wire_calls`), as `Wire` has a recursive operator, on
  which the prover's arithmetic cannot be used.

## 5. Not modelled

Committed offsets: a map under one lock with two operations, which check and
persist nothing. Messages of which the repository has only one end (those of
clients): there is nothing in it to compare the other end with. The time index
and retention of the commit log, `Append`, `Read` and `ReadAt`: nothing calls
them but tests. Compressed batches. The bytes of a snapshot file: it is
complete or absent, as it appears by rename. Metrics, the command-line tools and
the read-only APIs change no state. Transactions and leader failover are not
implemented in the code. A power failure that loses unsynced pages. Two
connections that use the same producer id. Weak memory effects of unlocked
reads are modelled as reads of a current or an older value, never of a torn one.
