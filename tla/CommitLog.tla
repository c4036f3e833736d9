------------------------------ MODULE CommitLog ------------------------------
(***************************************************************************)
(* One commit log: appends that roll segments and index batches, appends   *)
(* that fail at each of their steps, and restarts that rebuild everything  *)
(* from the segment files, a half-written batch among them. Every          *)
(* operation holds commitLog.mu, so it is one step. Reads change nothing:  *)
(* the properties quantify over them.                                      *)
(***************************************************************************)
EXTENDS LogFile, Functions

CONSTANTS
    MaxAppends,  \* bound: calls of AppendRaw
    MaxBatch,    \* bound: records in a batch
    Limits       \* the maxBytes of fetches, 0 for none

ASSUME CommitLogAssumption ==
    MaxAppends \in Nat /\ MaxBatch \in Nat \ {0} /\ Limits \subseteq Nat

VARIABLES
    log,       \* the commitLog and its files
    appends,   \* calls of AppendRaw so far
    acked,     \* the batches AppendRaw returned a BaseOffset for
    intact     \* no bytes were left by an append that returned no offset

vars == <<log, appends, acked, intact>>

Batches == [base : Nat, n : 1 .. MaxBatch, id : 1 .. MaxAppends]

TypeOK ==
    /\ log.nextOffset \in Nat
    /\ \A i \in DOMAIN log.segments :
          LET s == log.segments[i] IN
          /\ s.base \in Nat
          /\ s.currentSize \in 0 .. Len(s.file)
          /\ \A c \in Range(s.file) : c = Body \/ c \in Batches
          /\ \A e \in Range(s.index) : e.pos \in 0 .. Len(s.file)
    /\ appends \in 0 .. MaxAppends
    /\ acked \in Seq(Batches)
    /\ intact \in BOOLEAN

Init ==
    /\ log = EmptyLog
    /\ appends = 0
    /\ acked = <<>>
    /\ intact = TRUE

\* The batch of the next call; the producer's BaseOffset is 0.
NewBatch(n) == [base |-> 0, n |-> n, id |-> appends + 1]

Attempt == appends < MaxAppends /\ appends' = appends + 1

\* Bound: one append fails half way.
Breaks == intact /\ intact' = FALSE

Produce(n) ==
    /\ Attempt
    /\ log' = AppendRaw(log, Cells(NewBatch(n)), n)
    /\ acked' = Append(acked, [NewBatch(n) EXCEPT !.base = log.nextOffset])
    /\ UNCHANGED intact

\* The write of the batch fails before it wrote anything. The new segment
\* stays, and the roll hook is not called for it.
AppendFails ==
    /\ Attempt
    /\ IsFull(ActiveSegment(log))
    /\ log' = Rolled(log)
    /\ UNCHANGED <<acked, intact>>

\* What a write that stops half way leaves of batch b: part of the header, or
\* the header and part of the records.
Torn(b) == {<<Body>>} \cup {SubSeq(Cells(b), 1, k) : k \in 1 .. b.n}

\* The file after the write of batch NewBatch(n) stopped at left.
LeftBy(l, left) ==
    LET cells == IF left[1].n > 0 THEN Patched(left, l.nextOffset) ELSE left
    IN WithActive(l, [ActiveSegment(l) EXCEPT !.file = @ \o cells])

\* The write returns an error: currentSize and nextOffset stay as they are.
WriteFails(n) ==
    /\ Attempt
    /\ \E left \in Torn(NewBatch(n)) : log' = LeftBy(Rolled(log), left)
    /\ Breaks
    /\ UNCHANGED acked

\* The index cannot grow: the error is returned with the batch in the file.
IndexFails(n) ==
    /\ Attempt
    /\ LET l == Rolled(log)
           seg == ActiveSegment(l) IN
       /\ IndexDue(seg, Len(seg.file))
       /\ log' = WithActive(l, Written(seg, Patched(Cells(NewBatch(n)),
                                                    l.nextOffset)))
    /\ Breaks
    /\ UNCHANGED acked

\* The broker stops between two operations and starts again.
Restart ==
    /\ log' = NewCommitLog(log)
    /\ UNCHANGED <<appends, acked, intact>>

\* The broker stops within a write and starts again.
RestartInWrite(n) ==
    /\ Attempt
    /\ \E left \in Torn(NewBatch(n)) :
          log' = NewCommitLog(LeftBy(Rolled(log), left))
    /\ Breaks
    /\ UNCHANGED acked

Next ==
    \/ \E n \in 1 .. MaxBatch :
          \/ Produce(n)
          \/ WriteFails(n)
          \/ IndexFails(n)
          \/ RestartInWrite(n)
    \/ AppendFails
    \/ Restart

Spec == Init /\ [][Next]_vars

(***************************************************************************)
(* Properties.                                                             *)
(***************************************************************************)

\* All the batches a scan of the files finds.
Entries == WalkBatchHeadersFrom(log, 0)

\* Until a write fails half way, the segments together are the log RecordLog
\* describes: rolls, index entries and restarts neither lose, repeat nor move
\* a batch, and every batch gets the offset after the last one.
Abs == INSTANCE RecordLog WITH entries <- Entries

ImplementsRecordLog == Abs!Spec

\* What HandleFetchApiKeys serves to a fetch from offset o.
Served(o, maxBytes, maxVisible) ==
    RegionBatches(log, ClipRegionToOffset(log, FindRecords(log, o, maxBytes),
                                          maxVisible))

Consecutive(s) ==
    \A i \in 1 .. Len(s) - 1 : s[i + 1].base = LastOffset(s[i]) + 1

\* A fetch from any offset below nextOffset, with any byte limit and any
\* high-watermark, finds its way over index, segments and restarts to whole,
\* consecutive, acknowledged batches below the high-watermark, which start with
\* the batch that holds the offset or the one before it.
FetchServes ==
    intact =>
        \A o \in 0 .. log.nextOffset - 1, m \in Limits,
           v \in 0 .. log.nextOffset :
            LET s == Served(o, m, v) IN
            /\ Range(s) \subseteq Range(acked)
            /\ Consecutive(s)
            /\ \A b \in Range(s) : LastOffset(b) < v
            /\ s # <<>> => s[1].base <= o /\ LastOffset(s[1]) >= o - 1

\* Without a byte limit the batch that holds the offset is among those served
\* as soon as all of it is below the high-watermark.
FetchReaches ==
    intact =>
        \A b \in Range(acked) : \A o \in b.base .. LastOffset(b) :
            \A v \in LastOffset(b) + 1 .. log.nextOffset :
                b \in Range(Served(o, 0, v))

\* A restart gives the next batch the offset it would have had, even when the
\* broker stopped within a write: acknowledged batches keep their offsets and
\* no new batch gets one of theirs.
RestartKeepsEnd ==
    [][intact /\ acked' = acked => log'.nextOffset = log.nextOffset]_vars

\* full_flow.md: "scan forward from the indexed position to find the exact
\* batch boundary for `offset`": a fetch is served from the batch that holds
\* its offset.
FetchStartsExactly ==
    intact =>
        \A o \in 0 .. log.nextOffset - 1 :
            LET s == Served(o, 0, log.nextOffset) IN
            s # <<>> => LastOffset(s[1]) >= o

\* full_flow.md, on a torn last batch: scans ignore the trailing bytes. A batch
\* that was acknowledged is found again after every later restart.
AckedSurvives == Range(acked) \subseteq Range(Entries)
=============================================================================
