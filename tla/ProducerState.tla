---------------------------- MODULE ProducerState ----------------------------
(***************************************************************************)
(* Idempotent producers of one partition: clients that send batches with   *)
(* sequence numbers, lose answers and retry; the Produce handler's steps   *)
(* Validate, AppendRaw and Record; the snapshots of IdempotenceState that  *)
(* a goroutine writes after a segment roll; and the recovery of the state  *)
(* from snapshot and log. Each producer has one connection, whose requests *)
(* are handled one after the other; handlers of different producers, the   *)
(* snapshot goroutines and crashes interleave at every step.               *)
(*                                                                         *)
(* A batch has one record. Sequence numbers are int32 in the code and      *)
(* integers in -MaxSeq-1 .. MaxSeq here, with the same wrap-around.        *)
(***************************************************************************)
EXTENDS LogFile, SequencesExt

CONSTANTS
    Pids,        \* producer ids
    RingSize,    \* IdempotenceRingSize
    Retain,      \* defaultRetainSnapshots
    MaxSeq,      \* math.MaxInt32
    Window,      \* max.in.flight.requests.per.connection of the clients
    MaxBatches,  \* bound: batches of all producers together
    MaxEpoch,    \* bound: epochs of a producer
    MaxCrashes,  \* bound: crashes of the broker
    MaxEvents    \* bound: failed writes, epoch bumps and hours of silence

ASSUME ProducerStateAssumption ==
    /\ RingSize \in Nat \ {0} /\ Retain \in Nat \ {0}
    /\ MaxSeq \in Nat /\ Window \in Nat \ {0}
    /\ Window <= RingSize /\ RingSize + Window <= MaxSeq + 1
    /\ MaxBatches \in Nat /\ MaxEpoch \in Nat
    /\ MaxCrashes \in Nat /\ MaxEvents \in Nat

VARIABLES
    log,        \* the partition's commit log
    producers,  \* IdempotenceState.Producers
    idle,       \* per pid, has an hour passed since its LastTimestamp?
    snaps,      \* the snapshot files: base offset -> entries
    hooks,      \* goroutines of onSegmentRoll
    conn,       \* per pid, the Produce handler of its connection
    client,     \* per pid, the client's epoch, next batch and unacknowledged ones
    crashes,    \* crashes so far
    events,     \* failed writes, epoch bumps and hours of silence so far
    lossy       \* did a snapshot miss a batch of a sealed segment?

brokerVars == <<producers, idle, hooks, conn>>
vars == <<log, brokerVars, snaps, client, crashes, events, lossy>>

NoBase == -1

\* int32 addition.
Plus(x, d) == IF x + d > MaxSeq THEN x + d - 2 * (MaxSeq + 1) ELSE x + d

\* The sequence number the client gives its i-th batch of an epoch; clients
\* start again at 0 after MaxSeq.
SeqNo(i) == i % (MaxSeq + 1)

Slots == [first : 0 .. MaxSeq, last : 0 .. MaxSeq, base : Nat]
Logs == [epoch : 0 .. MaxEpoch, last : 0 .. MaxSeq,
         ring : Seq(Slots), head : 0 .. RingSize - 1]

TypeOK ==
    /\ log.nextOffset \in 0 .. MaxBatches
    /\ DOMAIN producers \subseteq Pids
    /\ \A p \in DOMAIN producers : producers[p] \in Logs
    /\ idle \in [Pids -> BOOLEAN]
    /\ \A b \in DOMAIN snaps : \A p \in DOMAIN snaps[b] : snaps[b][p] \in Logs
    /\ \A h \in hooks : h.base \in Nat /\ h.taken \in BOOLEAN
    /\ conn \in [Pids -> [pc : {"idle", "append", "record", "answer"},
                          i : 0 .. MaxBatches, epoch : 0 .. MaxEpoch,
                          base : Nat \cup {NoBase}, error : STRING]]
    /\ client \in [Pids -> [epoch : 0 .. MaxEpoch, next : 0 .. MaxBatches,
                            unacked : SUBSET (0 .. MaxBatches)]]
    /\ crashes \in 0 .. MaxCrashes /\ events \in 0 .. MaxEvents
    /\ lossy \in BOOLEAN

NoRequest == [pc |-> "idle", i |-> 0, epoch |-> 0, base |-> NoBase, error |-> ""]

Empty == [p \in {} |-> 0]    \* a map without entries

Init ==
    /\ log = EmptyLog
    /\ producers = Empty
    /\ idle = [p \in Pids |-> FALSE]
    /\ snaps = Empty
    /\ hooks = {}
    /\ conn = [p \in Pids |-> NoRequest]
    /\ client = [p \in Pids |-> [epoch |-> 0, next |-> 0, unacked |-> {}]]
    /\ crashes = 0 /\ events = 0
    /\ lossy = FALSE

(***************************************************************************)
(* IdempotenceState.                                                       *)
(***************************************************************************)

\* Mutant of LookupRing: any slot that is not older than the batch will do.
LookupRingFirst(prod, first, last) ==
    LET hits == {k \in DOMAIN prod.ring : prod.ring[k].last >= last}
    IN IF hits = {} THEN NoBase
       ELSE prod.ring[CHOOSE k \in hits : \A j \in hits : k <= j].base

\* lookupRing(prod, firstSeq, lastSeq), NoBase if there is no such slot. Slots
\* are compared in their order in the array.
LookupRing(prod, first, last) ==
    LET hits == {k \in DOMAIN prod.ring :
                    prod.ring[k].first = first /\ prod.ring[k].last = last}
    IN IF hits = {} THEN NoBase
       ELSE prod.ring[CHOOSE k \in hits : \A j \in hits : k <= j].base

Accept == [error |-> "", base |-> NoBase, drop |-> FALSE]
Reject(e) == [Accept EXCEPT !.error = e]

\* What Validate decides about a batch of a producer it knows: an error, the
\* base offset of a duplicate, or neither, when the batch is to be appended;
\* drop: the producer's entry is deleted.
Judge(prod, epoch, first, last) ==
    IF epoch < prod.epoch THEN Reject("INVALID_PRODUCER_EPOCH")
    ELSE IF epoch > prod.epoch
         THEN IF first # 0 THEN Reject("OUT_OF_ORDER_SEQUENCE_NUMBER")
                           ELSE [Accept EXCEPT !.drop = TRUE]
    ELSE IF first = Plus(prod.last, 1) \/ (first = 0 /\ prod.last = MaxSeq)
         THEN Accept
    ELSE IF first > Plus(prod.last, 1)
         THEN Reject("OUT_OF_ORDER_SEQUENCE_NUMBER")
    ELSE LET base == LookupRing(prod, first, last) IN
         IF base = NoBase THEN Reject("DUPLICATE_SEQUENCE_NUMBER")
                          ELSE [Accept EXCEPT !.base = base]

\* Validate, for producer p: an entry older than an hour is as good as none,
\* and deleted.
Verdict(p, epoch, first, last) ==
    IF p \in DOMAIN producers /\ ~idle[p]
    THEN Judge(producers[p], epoch, first, last)
    ELSE [(IF first = 0 THEN Accept ELSE Reject("UNKNOWN_PRODUCER_ID"))
             EXCEPT !.drop = TRUE]

\* Mutant of Recorded: the ring slot is not advanced.
RecordedSameSlot(ps, p, epoch, first, last, base) ==
    LET slot == [first |-> first, last |-> last, base |-> base]
    IN [q \in DOMAIN ps \cup {p} |->
          IF q = p THEN [epoch |-> epoch, last |-> last, ring |-> <<slot>>,
                         head |-> 0]
                   ELSE ps[q]]

\* Mutant of Recorded: RingHead is not taken modulo the size of the ring.
RecordedNoWrap(ps, p, epoch, first, last, base) ==
    LET old == IF p \in DOMAIN ps THEN ps[p]
               ELSE [epoch |-> epoch, last |-> 0, ring |-> <<>>, head |-> 0]
        slot == [first |-> first, last |-> last, base |-> base]
    IN [q \in DOMAIN ps \cup {p} |->
          IF q # p THEN ps[q]
          ELSE [epoch |-> epoch, last |-> last, ring |-> Append(old.ring, slot),
                head |-> old.head + 1]]

\* The producers ps after Record(p, epoch, first, last, base).
Recorded(ps, p, epoch, first, last, base) ==
    LET old == IF p \in DOMAIN ps THEN ps[p]
               ELSE [epoch |-> epoch, last |-> 0, ring |-> <<>>, head |-> 0]
        slot == [first |-> first, last |-> last, base |-> base]
    IN [q \in DOMAIN ps \cup {p} |->
          IF q # p THEN ps[q]
          ELSE [epoch |-> epoch, last |-> last,
                ring |-> IF old.head < Len(old.ring)
                         THEN [old.ring EXCEPT ![old.head + 1] = slot]
                         ELSE Append(old.ring, slot),
                head |-> (old.head + 1) % RingSize]]

Without(ps, p) == [q \in DOMAIN ps \ {p} |-> ps[q]]

(***************************************************************************)
(* HandleProduceApiKeys, for one batch of an idempotent producer.          *)
(***************************************************************************)

\* The log's batch for request r of producer p.
BatchOf(p, r) == [base |-> 0, n |-> 1, pid |-> p, epoch |-> r.epoch, i |-> r.i]

\* The client sends its next batch, or again one that was not acknowledged;
\* the handler calls Validate.
Validate(p, i) ==
    LET c == client[p]
        v == Verdict(p, c.epoch, SeqNo(i), SeqNo(i)) IN
    /\ conn[p].pc = "idle"
    /\ \/ i \in c.unacked
       \/ /\ i = c.next
          /\ \A j \in c.unacked : i < j + Window
          /\ i < MaxBatches /\ log.nextOffset < MaxBatches
    /\ client' = [client EXCEPT ![p].unacked = @ \cup {i},
                                ![p].next = IF i = c.next THEN i + 1 ELSE @]
    /\ producers' = IF v.drop THEN Without(producers, p) ELSE producers
    /\ conn' = [conn EXCEPT ![p] =
                  [pc |-> IF v = Accept \/ v = [Accept EXCEPT !.drop = TRUE]
                          THEN "append" ELSE "answer",
                   i |-> i, epoch |-> c.epoch, base |-> v.base,
                   error |-> v.error]]
    /\ UNCHANGED <<log, idle, hooks, snaps, crashes, events, lossy>>

\* AppendRaw. After a roll the hook runs in a goroutine of its own.
HandlerAppend(p) ==
    /\ conn[p].pc = "append"
    /\ log.nextOffset < MaxBatches
    /\ log' = AppendRaw(log, Cells(BatchOf(p, conn[p])), 1)
    /\ hooks' = IF IsFull(ActiveSegment(log))
                THEN hooks \cup {[base |-> ActiveSegment(log').base,
                                  taken |-> FALSE, entries |-> Empty]}
                ELSE hooks
    /\ conn' = [conn EXCEPT ![p].pc = "record", ![p].base = log.nextOffset]
    /\ UNCHANGED <<producers, idle, snaps, client, crashes, events, lossy>>

\* AppendRaw fails before it wrote the batch: KAFKA_STORAGE_ERROR. A segment it
\* has rolled to stays, and its hook is not called.
HandlerAppendFails(p) ==
    /\ conn[p].pc = "append"
    /\ events < MaxEvents
    /\ events' = events + 1
    /\ log' = Rolled(log)
    /\ conn' = [conn EXCEPT ![p].pc = "answer", ![p].error = "STORAGE_ERROR"]
    /\ UNCHANGED <<producers, idle, hooks, snaps, client, crashes, lossy>>

\* Mutant of HandlerRecord: only a producer's first batch is recorded.
HandlerRecordFirst(p) ==
    LET r == conn[p]
        s == SeqNo(r.i) IN
    /\ r.pc = "record"
    /\ producers' = IF p \in DOMAIN producers THEN producers
                    ELSE Recorded(producers, p, r.epoch, s, s, r.base)
    /\ idle' = [idle EXCEPT ![p] = FALSE]
    /\ conn' = [conn EXCEPT ![p].pc = "answer"]
    /\ UNCHANGED <<log, hooks, snaps, client, crashes, events, lossy>>

HandlerRecord(p) ==
    LET r == conn[p]
        s == SeqNo(r.i) IN
    /\ r.pc = "record"
    /\ producers' = Recorded(producers, p, r.epoch, s, s, r.base)
    /\ idle' = [idle EXCEPT ![p] = FALSE]
    /\ conn' = [conn EXCEPT ![p].pc = "answer"]
    /\ UNCHANGED <<log, hooks, snaps, client, crashes, events, lossy>>

\* The answer reaches the client, which takes DUPLICATE_SEQUENCE_NUMBER for
\* success too, or it is lost.
Answer(p) ==
    /\ conn[p].pc = "answer"
    /\ conn' = [conn EXCEPT ![p] = NoRequest]
    /\ \/ /\ conn[p].error \in {"", "DUPLICATE_SEQUENCE_NUMBER"}
          /\ client' = [client EXCEPT ![p].unacked = @ \ {conn[p].i}]
       \/ UNCHANGED client
    /\ UNCHANGED <<log, producers, idle, hooks, snaps, crashes, events, lossy>>

\* The client gives up what is not acknowledged and goes on with a new epoch.
BumpEpoch(p) ==
    /\ conn[p].pc = "idle"
    /\ client[p].epoch < MaxEpoch
    /\ client[p].unacked # {}
    /\ events < MaxEvents
    /\ events' = events + 1
    /\ client' = [client EXCEPT ![p] = [epoch |-> @.epoch + 1, next |-> 0,
                                        unacked |-> {}]]
    /\ UNCHANGED <<log, brokerVars, snaps, crashes, lossy>>

\* A client that waits for nothing sends nothing for producerIdExpirationMs. (Not
\* just before the sequence numbers start again: a pipelined batch with number 0
\* would be taken for a new producer's although the one before it is refused.)
HourPasses(p) ==
    /\ conn[p].pc = "idle"
    /\ client[p].unacked = {}
    /\ p \in DOMAIN producers
    /\ ~idle[p]
    /\ SeqNo(client[p].next) + Window <= MaxSeq + 1
    /\ events < MaxEvents
    /\ events' = events + 1
    /\ idle' = [idle EXCEPT ![p] = TRUE]
    /\ UNCHANGED <<log, producers, hooks, snaps, conn, client, crashes, lossy>>

(***************************************************************************)
(* ProducerStateManager.                                                   *)
(***************************************************************************)

\* OnSegmentRoll copies the state. A batch below the roll that is appended but
\* not yet recorded is not in the copy.
SnapshotTake(h) ==
    /\ ~h.taken
    /\ hooks' = (hooks \ {h}) \cup {[h EXCEPT !.taken = TRUE,
                                              !.entries = producers]}
    /\ lossy' = (lossy \/ \E p \in Pids : conn[p].pc = "record"
                                            /\ conn[p].base < h.base)
    /\ UNCHANGED <<log, producers, idle, conn, snaps, client, crashes, events>>

\* pruneOldSnapshots(currentBase) on the files bs: all but the newest Retain go.
Pruned(bs, currentBase) ==
    {b \in bs : ~(b < currentBase /\ Cardinality({c \in bs : c > b}) >= Retain)}

\* WriteProducerSnapshot: the file appears under its name, complete, with the
\* rename; a crash before leaves a .tmp file nobody reads. Then pruning.
SnapshotWrite(h) ==
    /\ h.taken
    /\ hooks' = hooks \ {h}
    /\ snaps' = LET bs == DOMAIN snaps \cup {h.base}
                IN [b \in Pruned(bs, h.base) |->
                       IF b = h.base THEN h.entries ELSE snaps[b]]
    /\ UNCHANGED <<log, producers, idle, conn, client, crashes, events, lossy>>

SnapshotFails(h) ==
    /\ h.taken
    /\ events < MaxEvents
    /\ events' = events + 1
    /\ hooks' = hooks \ {h}
    /\ UNCHANGED <<log, producers, idle, conn, snaps, client, crashes, lossy>>

\* decodeProducerStateEntry: RingHead is not stored; it is the number of slots.
Decoded(prod) == [prod EXCEPT !.head = Len(prod.ring) % RingSize]

\* LoadLatestProducerSnapshot's base, 0 if there is no file.
SnapBase(activeBase) ==
    LET bs == {0} \cup {b \in DOMAIN snaps : b <= activeBase}
    IN CHOOSE b \in bs : \A c \in bs : c <= b

\* Mutant of ScanFromBase: the batches of the active segment are not replayed.
ScanFromEnd(activeBase) == log.nextOffset

\* Recover's scanFrom, never below the active segment.
ScanFromBase(activeBase) ==
    IF activeBase > SnapBase(activeBase) THEN activeBase ELSE SnapBase(activeBase)

\* The batches Recover replays.
Replay == WalkBatchHeadersFrom(log, ScanFromBase(ActiveSegment(log).base))

\* The Producers that Recover builds.
Recovered ==
    LET base == SnapBase(ActiveSegment(log).base)
        restored == IF base \in DOMAIN snaps
                    THEN [p \in DOMAIN snaps[base] |-> Decoded(snaps[base][p])]
                    ELSE Empty
    IN FoldLeft(LAMBDA ps, b : Recorded(ps, b.pid, b.epoch, SeqNo(b.i),
                                        SeqNo(b.i), b.base),
                restored, Replay)

\* The process ends, with its goroutines, and starts again: NewCommitLog and
\* Recover. Batches between the snapshot and the active segment are not read.
Restart ==
    LET active == ActiveSegment(log).base IN
    /\ crashes < MaxCrashes
    /\ crashes' = crashes + 1
    /\ log' = NewCommitLog(log)
    /\ producers' = Recovered
    /\ idle' = [p \in Pids |-> idle[p] /\ \A k \in DOMAIN Replay : Replay[k].pid # p]
    /\ hooks' = {}
    /\ conn' = [p \in Pids |-> NoRequest]
    /\ lossy' = (lossy \/ SnapBase(active) < active)
    /\ UNCHANGED <<snaps, client, events>>

Next ==
    \/ \E p \in Pids :
          \/ \E i \in 0 .. MaxBatches : Validate(p, i)
          \/ HandlerAppend(p)
          \/ HandlerAppendFails(p)
          \/ HandlerRecord(p)
          \/ Answer(p)
          \/ BumpEpoch(p)
          \/ HourPasses(p)
    \/ \E h \in hooks : SnapshotTake(h) \/ SnapshotWrite(h) \/ SnapshotFails(h)
    \/ Restart

Spec == Init /\ [][Next]_vars

(***************************************************************************)
(* Properties.                                                             *)
(***************************************************************************)

Entries == WalkBatchHeadersFrom(log, 0)

\* However answers are lost, batches resent, appends fail, state expires and the
\* broker restarts, the log holds each batch of a producer's epoch at most once
\* and in the order of sending, unless a snapshot missed batches of a segment
\* that recovery does not read.
OnceInOrder ==
    ~lossy => LET all == Entries IN
        \A p \in Pids, e \in 0 .. MaxEpoch :
            LET mine == SelectSeq(all, LAMBDA b : b.pid = p /\ b.epoch = e)
            IN \A k \in DOMAIN mine : mine[k].i = k - 1

\* Under the same condition what the broker remembers of a producer between
\* requests is its last batch in the log.
StateMatchesLog ==
    ~lossy => LET all == Entries IN \A p \in DOMAIN producers :
        LET mine == SelectSeq(all, LAMBDA b : b.pid = p) IN
        conn[p].pc # "record" =>
            /\ mine # <<>>
            /\ producers[p].epoch = Last(mine).epoch
            /\ producers[p].last = SeqNo(Last(mine).i)

\* While the broker is up, a resent batch that is in the log is recognised, and
\* answered with its offset, as long as the client keeps to its window; not so
\* around the wrap-around of sequence numbers.
RetryIsRecognised ==
    crashes = 0 => \A b \in ToSet(Entries), p \in DOMAIN producers :
        /\ conn[p].pc = "idle"
        /\ b.pid = p /\ b.epoch = client[p].epoch /\ b.i \in client[p].unacked
        /\ SeqNo(b.i) <= producers[p].last /\ producers[p].last < MaxSeq
        => Verdict(p, b.epoch, SeqNo(b.i), SeqNo(b.i)).base = b.base

\* An answer without error names the offset of that very batch in the log, for
\* duplicates as well, in a broker that has not restarted.
AnswerIsRight ==
    crashes = 0 => \A p \in Pids :
        conn[p].pc = "answer" /\ conn[p].error = "" =>
            [BatchOf(p, conn[p]) EXCEPT !.base = conn[p].base] \in ToSet(Entries)

\* full_flow.md, on a crash between segment roll and snapshot write: "Recover
\* loads previous snapshot, tail-replay covers the gap. No data loss": no batch
\* is appended twice.
NoDuplicates ==
    LET all == Entries IN \A j, k \in DOMAIN all :
        j # k => [all[j] EXCEPT !.base = 0] # [all[k] EXCEPT !.base = 0]
=============================================================================
