------------------------------- MODULE LogFile -------------------------------
(***************************************************************************)
(* A partition's log on disk and what package commitlog computes from it:  *)
(* segment files of record batches, the sparse offset index of each, and   *)
(* the scans that find offsets in them. Only operators: the modules that   *)
(* use them say when they run.                                             *)
(*                                                                         *)
(* A segment file is a sequence of cells. A batch of n records is a header *)
(* cell and n body cells, so a half-written batch is a prefix of them.     *)
(* Positions, sizes and limits count cells.                                *)
(***************************************************************************)
EXTENDS Integers, Sequences

CONSTANTS
    SegmentMaxBytes,  \* CommitLogConfig.SegmentMaxBytes
    IndexInterval     \* CommitLogConfig.IndexInterval

ASSUME LogFileAssumption ==
    /\ SegmentMaxBytes \in Nat \ {0}
    /\ IndexInterval \in Nat

(***************************************************************************)
(* Batches. A header is a record with the fields base (BaseOffset), n      *)
(* (NumRecords, LastOffsetDelta + 1) and whatever its users add.           *)
(***************************************************************************)

Body == [n |-> 0]

Total(b) == 1 + b.n
LastOffset(b) == b.base + b.n - 1

Cells(b) == <<b>> \o [i \in 1 .. b.n |-> Body]

\* The elements of a sequence of sequences, in order.
Concatenation(ss) ==
    LET upTo[i \in 1 .. Len(ss)] == IF i = 1 THEN ss[1] ELSE upTo[i - 1] \o ss[i]
    IN IF ss = <<>> THEN <<>> ELSE upTo[Len(ss)]

\* The cells of a sequence of batches, as a fetch response carries them.
Blob(batches) == Concatenation([i \in DOMAIN batches |-> Cells(batches[i])])

\* The cell at position p of file f; positions count from 0.
Cell(f, p) == f[p + 1]

\* Is there a header at position p of file f, and all of its batch after it?
\* (Record bytes read as a header stand for no batch: scans end there.)
HeaderAt(f, p) == p < Len(f) /\ Cell(f, p).n > 0
BatchAt(f, p) == HeaderAt(f, p) /\ p + Total(Cell(f, p)) <= Len(f)

\* Mutant of ScanFrom: a batch whose end is cut off counts as well.
ScanFromTorn(f, p) ==
    LET scan[q \in Nat] ==
            IF HeaderAt(f, q) THEN <<Cell(f, q)>> \o scan[q + Total(Cell(f, q))]
                              ELSE <<>>
    IN scan[p]

\* The batches that a scan of f from position p passes before it reaches the
\* end of the file or a batch that is not all there.
ScanFrom(f, p) ==
    LET scan[q \in Nat] ==
            IF BatchAt(f, q) THEN <<Cell(f, q)>> \o scan[q + Total(Cell(f, q))]
                             ELSE <<>>
    IN scan[p]

(***************************************************************************)
(* Segment.                                                                *)
(***************************************************************************)

\* NewSegment: the file may exist. The index starts with no entries although
\* its own file may hold some.
NewSegment(base, file) ==
    [base |-> base, file |-> file, currentSize |-> Len(file),
     index |-> <<>>, lastIndexedPosition |-> 0]

\* Mutant of SegmentNextOffset: the last batch's first offset is returned.
SegmentNextOffsetBase(seg) ==
    LET bs == ScanFrom(seg.file, 0)
    IN IF bs = <<>> THEN seg.base ELSE bs[Len(bs)].base + 1

SegmentNextOffset(seg) ==
    LET bs == ScanFrom(seg.file, 0)
    IN IF bs = <<>> THEN seg.base ELSE LastOffset(bs[Len(bs)]) + 1

IsFull(seg) == seg.currentSize >= SegmentMaxBytes

\* Segment.AppendRaw up to the write: only the first BaseOffset is patched.
Patched(blob, base) == [blob EXCEPT ![1].base = base]

\* The bytes are in the file, the index is still to be written.
Written(seg, blob) ==
    [seg EXCEPT !.file = @ \o blob, !.currentSize = @ + Len(blob)]

\* Is the batch that starts at position due for an index entry?
IndexDue(seg, position) ==
    \/ seg.index = <<>>
    \/ position - seg.lastIndexedPosition >= IndexInterval

\* OffsetIndex stores the offset relative to the segment's base as an int32 and
\* reads it back as a uint32: below the base it comes back above every offset.
Relative(seg, base) == IF base >= seg.base THEN base - seg.base ELSE 2^30

\* OffsetIndex.Append.
Indexed(seg, base, position) ==
    [seg EXCEPT !.index = Append(@, [rel |-> Relative(seg, base),
                                     pos |-> position]),
                !.lastIndexedPosition = position]

\* Mutant of SegmentAppend: the entry points behind the batch.
SegmentAppendPast(seg, base, blob) ==
    LET position == Len(seg.file)
        s == Written(seg, Patched(blob, base))
    IN IF IndexDue(seg, position) THEN Indexed(s, base, Len(s.file)) ELSE s

SegmentAppend(seg, base, blob) ==
    LET position == Len(seg.file)
        s == Written(seg, Patched(blob, base))
    IN IF IndexDue(seg, position) THEN Indexed(s, base, position) ELSE s

\* OffsetIndex.Lookup: a binary search for the position to scan from. A loop is a
\* function of its variables here.
Lookup(seg, offset) ==
    LET rel == offset - seg.base
        search[v \in [left : Nat \ {0}, right : Nat, result : Nat]] ==
            IF v.left > v.right THEN v.result
            ELSE LET mid == v.left + (v.right - v.left) \div 2
                     entry == seg.index[mid].rel
                 IN IF entry = rel THEN mid
                    ELSE search[IF entry < rel
                                THEN [v EXCEPT !.left = mid + 1, !.result = mid]
                                ELSE [v EXCEPT !.right = mid - 1]]
        i == search[[left |-> 1, right |-> Len(seg.index), result |-> 0]]
    IN IF i = 0 THEN 0 ELSE seg.index[i].pos

\* The first loop of Segment.FindRawRegion: the position to serve a fetch
\* from, -1 if there is none. When the search passes from batch pre to one that
\* starts at or above fetchOffset, pre is returned although it ends below.
RegionStart(seg, fetchOffset) ==
    LET f == seg.file
        seek[v \in [pos : Nat, pre : Nat \cup {-1}]] ==
            IF ~HeaderAt(f, v.pos) THEN v.pre
            ELSE LET curr == Cell(f, v.pos) IN
                 IF curr.base >= fetchOffset
                 THEN IF v.pre >= 0 THEN v.pre ELSE v.pos
                 ELSE IF LastOffset(curr) >= fetchOffset THEN v.pos
                 ELSE seek[[pos |-> v.pos + Total(curr), pre |-> v.pos]]
    IN seek[[pos |-> Lookup(seg, fetchOffset), pre |-> -1]]

\* Its second loop: batches from start on, the first one whatever its size,
\* until maxBytes (0: no limit) would be exceeded. Ends may be cut off.
RegionEnd(f, start, maxBytes) ==
    LET fill[p \in Nat] ==
            IF ~HeaderAt(f, p) THEN p
            ELSE LET next == p + Total(Cell(f, p))
                     over == maxBytes > 0 /\ next - start > maxBytes
                 IN IF over THEN (IF p > start THEN p ELSE next)
                            ELSE fill[next]
    IN fill[start]

(***************************************************************************)
(* commitLog: [segments : Seq(segment), nextOffset : Nat]. The last one is *)
(* the active segment.                                                     *)
(***************************************************************************)

EmptyLog == [segments |-> <<NewSegment(0, <<>>)>>, nextOffset |-> 0]

ActiveSegment(log) == log.segments[Len(log.segments)]

WithActive(log, seg) == [log EXCEPT !.segments[Len(log.segments)] = seg]

\* The segment files of log by their names: the base offsets, in order, and what
\* is in a file; nothing, if there is none yet. (After a failed write a segment may
\* be rolled to a name that exists: the last one in memory has the file's end.)
Names(log) ==
    LET bases == {log.segments[i].base : i \in DOMAIN log.segments}
    IN CHOOSE s \in UNION {[1 .. n -> bases] : n \in DOMAIN log.segments} :
          /\ \A i, j \in DOMAIN s : i < j => s[i] < s[j]
          /\ \A x \in bases : \E i \in DOMAIN s : s[i] = x

FileNamed(log, base) ==
    LET named == {i \in DOMAIN log.segments : log.segments[i].base = base}
    IN IF named = {} THEN <<>>
       ELSE log.segments[CHOOSE i \in named : \A j \in named : j <= i].file

\* Mutant of Rolled: the new segment is named after the last offset used.
RolledBefore(log) ==
    LET base == SegmentNextOffset(ActiveSegment(log)) - 1
    IN IF IsFull(ActiveSegment(log))
       THEN [log EXCEPT !.segments = Append(@, NewSegment(base, FileNamed(log, base)))]
       ELSE log

\* AppendRaw's roll: the base of the new segment is what a scan of the full
\* one gives, not nextOffset.
Rolled(log) ==
    LET base == SegmentNextOffset(ActiveSegment(log))
    IN IF IsFull(ActiveSegment(log))
       THEN [log EXCEPT !.segments = Append(@, NewSegment(base, FileNamed(log, base)))]
       ELSE log

\* AppendRaw(data, recordCount).
AppendRaw(log, blob, recordCount) ==
    LET l == Rolled(log)
    IN [WithActive(l, SegmentAppend(ActiveSegment(l), l.nextOffset, blob))
           EXCEPT !.nextOffset = @ + recordCount]

\* NewCommitLog on the segment files of log, sorted by their names.
NewCommitLog(log) ==
    LET names == Names(log)
        opened == [i \in DOMAIN names |-> NewSegment(names[i], FileNamed(log, names[i]))]
    IN [segments |-> opened, nextOffset |-> SegmentNextOffset(opened[Len(opened)])]

\* findSegmentByOffset: a binary search, 0 if there is no such segment.
FindSegmentByOffset(log, offset) ==
    LET search[v \in [left : Nat \ {0}, right : Nat, result : Nat]] ==
            IF v.left > v.right THEN v.result
            ELSE LET mid == (v.left + v.right) \div 2 IN
                 search[IF log.segments[mid].base <= offset
                        THEN [v EXCEPT !.left = mid + 1, !.result = mid]
                        ELSE [v EXCEPT !.right = mid - 1]]
    IN search[[left |-> 1, right |-> Len(log.segments), result |-> 0]]

NoRegion == [seg |-> 0, pos |-> 0, size |-> 0]

\* FindRecords(fetchOffset, maxBytes).
FindRecords(log, fetchOffset, maxBytes) ==
    LET i == FindSegmentByOffset(log, fetchOffset)
        start == RegionStart(log.segments[i], fetchOffset)
    IN IF fetchOffset >= log.nextOffset \/ i = 0 THEN NoRegion
       ELSE IF start < 0 THEN NoRegion
       ELSE [seg |-> i, pos |-> start,
             size |-> RegionEnd(log.segments[i].file, start, maxBytes) - start]

\* Mutant of ClipRegionToOffset: the comparison with maxVisible is not strict.
ClipRegionIncluding(log, reg, maxVisible) ==
    LET f == log.segments[reg.seg].file
        end == reg.pos + reg.size
        clip[p \in Nat] ==
            IF ~HeaderAt(f, p) THEN p
            ELSE LET next == p + Total(Cell(f, p)) IN
                 IF LastOffset(Cell(f, p)) > maxVisible \/ next > end THEN p
                 ELSE clip[next]
    IN IF reg.size = 0 THEN reg
       ELSE [reg EXCEPT !.size = clip[reg.pos] - reg.pos]

\* ClipRegionToOffset: the whole batches of reg that end below maxVisible.
ClipRegionToOffset(log, reg, maxVisible) ==
    LET f == log.segments[reg.seg].file
        end == reg.pos + reg.size
        clip[p \in Nat] ==
            IF p >= end \/ ~HeaderAt(f, p) THEN p
            ELSE LET next == p + Total(Cell(f, p)) IN
                 IF LastOffset(Cell(f, p)) >= maxVisible \/ next > end THEN p
                 ELSE clip[next]
    IN IF reg.size = 0 THEN reg
       ELSE [reg EXCEPT !.size = clip[reg.pos] - reg.pos]

\* The batches in a region, as whoever receives it reads them.
RegionBatches(log, reg) ==
    IF reg.size = 0 THEN <<>>
    ELSE ScanFrom(SubSeq(log.segments[reg.seg].file, reg.pos + 1,
                         reg.pos + reg.size), 0)

\* Segment.walkBatchHeaders: the batches of file f from fromOffset on.
WalkBatchHeaders(f, fromOffset) ==
    LET walk[p \in Nat] ==
            IF BatchAt(f, p)
            THEN (IF Cell(f, p).base >= fromOffset THEN <<Cell(f, p)>> ELSE <<>>)
                     \o walk[p + Total(Cell(f, p))]
            ELSE <<>>
    IN walk[0]

\* WalkBatchHeadersFrom(fromOffset), in the order of its callbacks.
WalkBatchHeadersFrom(log, fromOffset) ==
    LET below == {i \in DOMAIN log.segments : log.segments[i].base <= fromOffset}
        first == IF below = {} THEN 1
                 ELSE CHOOSE i \in below : \A j \in below : j <= i
    IN Concatenation([i \in 1 .. Len(log.segments) - first + 1 |->
          WalkBatchHeaders(log.segments[first + i - 1].file, fromOffset)])

OldestOffset(log) == log.segments[1].base
NewestOffset(log) == log.nextOffset - 1
=============================================================================
