-------------------------- MODULE CommitLogProofs --------------------------
(***************************************************************************)
(* What CommitLog promises, for logs of any length, batches of any size    *)
(* and any segment size and index interval: type correctness, that a       *)
(* restart goes on at the offset the log ended with, and that the files    *)
(* implement RecordLog.                                                    *)
(*                                                                         *)
(* The inductive invariant says nothing more about a log that a failed     *)
(* write left bytes in than its types; before that the log is good (see    *)
(* LogFileProofs) and a scan of it finds what was acknowledged.            *)
(***************************************************************************)
EXTENDS CommitLog, LogFileProofs

AckedEnd == IF acked = <<>> THEN 0 ELSE acked[Len(acked)].base + acked[Len(acked)].n

LogInv ==
    /\ TypedLog(log, Batches)
    /\ appends \in 0 .. MaxAppends
    /\ acked \in Seq(Batches)
    /\ intact \in BOOLEAN
    /\ intact => /\ GoodLog(log, Batches)
                 /\ InLog(log.segments) = acked
                 /\ AckedEnd = log.nextOffset

(***************************************************************************)
(* The names of a log that failed writes have left bytes in can be sorted, *)
(* too, and it keeps its types.                                            *)
(***************************************************************************)

\* One more number is sorted in.
LEMMA SortIn ==
    ASSUME NEW K \in Nat, NEW b \in [1 .. K + 1 -> Nat], NEW n \in 1 .. K,
           NEW s, Sorts(s, n, b, K)
    PROVE  \E m \in 1 .. K + 1 : \E t : Sorts(t, m, b, K + 1)
  <1> USE DEF At
  <1> DEFINE x == b[K + 1]
  <1>0. /\ s \in [1 .. n -> Nat] /\ Increasing(s) /\ Covers(s, n, b, K) /\ x \in Nat
        /\ n \in Nat /\ n + 1 \in 1 .. K + 1 /\ n \in 1 .. K + 1 /\ K + 1 \in 1 .. K + 1
        /\ \A j \in 1 .. K + 1 : j \in 1 .. K \/ j = K + 1
        /\ \A j \in 1 .. K : j \in 1 .. K + 1
    BY DEF Sorts
  <1>1. CASE \E i \in 1 .. n : s[i] = x
    <2>1. Covers(s, n, b, K + 1)
      BY <1>0, <1>1, Zenon DEF Covers
    <2> QED
      BY <1>0, <2>1, Zenon DEF Sorts
  <1>2. CASE ~\E i \in 1 .. n : s[i] = x
    <2>1. \A i \in 1 .. n : s[i] \in Nat /\ (s[i] < x \/ x < s[i])
      BY <1>0, <1>2
    <2>2. \A i, j \in 1 .. n : i < j => s[i] < s[j]
      BY <1>0 DEF Increasing
    <2>3. PICK c \in 0 .. n : /\ \A i \in 1 .. n : i <= c => s[i] < x
                             /\ \A i \in 1 .. n : c < i => x < s[i]
      <3> DEFINE Above == {i \in 1 .. n : x < s[i]}
      <3>1. CASE Above = {}
        <4>1. \A i \in 1 .. n : s[i] < x
          BY <2>1, <3>1
        <4>2. n \in 0 .. n /\ \A i \in 1 .. n : ~(n < i)
          BY <1>0
        <4> QED
          BY <4>1, <4>2, Zenon
      <3>2. CASE Above # {}
        <4>1. PICK a \in Above : \A j \in Above : a <= j
          <5>1. Above \subseteq Nat
            OBVIOUS
          <5> HIDE DEF Above
          <5> QED
            BY <3>2, <5>1, LeastNumber, Zenon
        <4>2. a \in 1 .. n /\ x < s[a]
          BY <4>1
        <4>3. a - 1 \in 0 .. n /\ \A i \in 1 .. n : i <= a - 1 <=> ~(a <= i)
          BY <1>0, <4>2
        <4>4. \A i \in 1 .. n : i <= a - 1 => s[i] < x
          BY <2>1, <4>1, <4>3
        <4>5. \A i \in 1 .. n : a - 1 < i => i = a \/ a < i
          BY <1>0, <4>2
        <4>6. \A i \in 1 .. n : a - 1 < i => x < s[i]
          <5> SUFFICES ASSUME NEW i \in 1 .. n, a < i PROVE x < s[i]
            BY <4>2, <4>5, Zenon
          <5>1. s[a] < s[i] /\ s[a] \in Nat /\ s[i] \in Nat
            BY <2>1, <2>2, <4>2
          <5> QED
            BY <1>0, <4>2, <5>1
        <4> QED
          BY <4>3, <4>4, <4>6, Zenon
      <3> QED
        BY <3>1, <3>2
    <2> DEFINE t == [i \in 1 .. n + 1 |-> IF i <= c THEN s[i]
                                         ELSE IF i = c + 1 THEN x ELSE s[i - 1]]
    <2>4. /\ c \in Nat /\ c + 1 \in 1 .. n + 1 /\ t[c + 1] = x
          /\ \A i \in 1 .. n : i <= c => i \in 1 .. n + 1 /\ t[i] = s[i]
          /\ \A i \in 1 .. n : c < i => i + 1 \in 1 .. n + 1 /\ t[i + 1] = s[i]
          /\ \A i \in 1 .. n + 1 : \/ i = c + 1
                                   \/ i <= c /\ i \in 1 .. n /\ t[i] = s[i]
                                   \/ c + 1 < i /\ i - 1 \in 1 .. n /\ t[i] = s[i - 1]
          /\ \A i \in 1 .. n : i <= c \/ c < i
      BY <1>0
    <2>5. t \in [1 .. n + 1 -> Nat]
      BY <1>0, <2>1, <2>4
    <2>6. ASSUME NEW i \in 1 .. n + 1, NEW j \in 1 .. n + 1, i < j
          PROVE  t[i] < t[j]
      <3>1. CASE j <= c
        <4>1. t[i] = s[i] /\ t[j] = s[j] /\ i \in 1 .. n /\ j \in 1 .. n
          BY <1>0, <2>4, <2>6, <3>1
        <4> QED
          BY <2>2, <2>6, <4>1
      <3>2. CASE j = c + 1
        <4>1. t[i] = s[i] /\ i <= c /\ i \in 1 .. n
          BY <1>0, <2>4, <2>6, <3>2
        <4> QED
          BY <2>3, <2>4, <3>2, <4>1
      <3>3. CASE c + 1 < j
        <4>1. t[j] = s[j - 1] /\ j - 1 \in 1 .. n /\ c < j - 1
          BY <1>0, <2>4, <3>3
        <4>2. CASE i <= c
          <5>1. t[i] = s[i] /\ i \in 1 .. n /\ i < j - 1
            BY <1>0, <2>4, <3>3, <4>2
          <5> QED
            BY <2>2, <4>1, <5>1
        <4>3. CASE i = c + 1
          BY <2>3, <2>4, <4>1, <4>3
        <4>4. CASE c + 1 < i
          <5>1. t[i] = s[i - 1] /\ i - 1 \in 1 .. n /\ i - 1 < j - 1
            BY <1>0, <2>4, <2>6, <4>4
          <5> QED
            BY <2>2, <4>1, <5>1
        <4> QED
          BY <2>4, <4>2, <4>3, <4>4
      <3> QED
        BY <2>4, <3>1, <3>2, <3>3
    <2> HIDE DEF t
    <2>7. Covers(t, n + 1, b, K + 1)
      <3>1. ASSUME NEW i \in 1 .. n + 1
            PROVE  \E j \in 1 .. K + 1 : t[i] = b[j]
        <4>1. CASE i = c + 1
          BY <1>0, <2>4, <4>1, Zenon
        <4>2. CASE i # c + 1
          <5>1. \E k \in 1 .. n : t[i] = s[k]
            BY <2>4, <4>2, Zenon
          <5> QED
            BY <1>0, <5>1, Zenon DEF Covers
        <4> QED
          BY <4>1, <4>2
      <3>2. ASSUME NEW j \in 1 .. K
            PROVE  \E i \in 1 .. n + 1 : t[i] = b[j]
        <4>1. PICK i \in 1 .. n : s[i] = b[j]
          BY <1>0, Zenon DEF Covers
        <4>2. CASE i <= c
          BY <2>4, <4>1, <4>2
        <4>3. CASE c < i
          BY <2>4, <4>1, <4>3
        <4> QED
          BY <2>4, <4>2, <4>3
      <3>3. \A j \in 1 .. K + 1 : \E i \in 1 .. n + 1 : t[i] = b[j]
        BY <1>0, <2>4, <3>2, Zenon
      <3> QED
        BY <3>1, <3>3, Zenon DEF Covers
    <2>8. Increasing(t)
      BY <2>5, <2>6 DEF Increasing
    <2> QED
      BY <1>0, <2>5, <2>7, <2>8, Zenon DEF Sorts
  <1> QED
    BY <1>1, <1>2

\* Numbers can be sorted.
LEMMA SortExists ==
    ASSUME NEW K \in Nat \ {0}, NEW b \in [1 .. K -> Nat]
    PROVE  \E n \in 1 .. K : \E s : Sorts(s, n, b, K)
  <1> DEFINE Fine(k) == \E n \in 1 .. k : \E s : Sorts(s, n, b, k)
             Bad == {k \in 1 .. K : ~Fine(k)}
  <1> SUFFICES ASSUME Bad # {} PROVE FALSE
    <2>1. K \in 1 .. K
      OBVIOUS
    <2> HIDE DEF Fine
    <2>2. Fine(K)
      BY <2>1
    <2> QED
      BY <2>2 DEF Fine
  <1> HIDE DEF Fine
  <1>1. PICK k \in Bad : \A j \in Bad : k <= j
    <2>1. Bad \subseteq Nat
      OBVIOUS
    <2> HIDE DEF Bad
    <2> QED
      BY <2>1, LeastNumber, Zenon
  <1>2. k \in 1 .. K /\ ~Fine(k)
    BY <1>1
  <1>3. CASE k = 1
    <2> DEFINE s == [i \in 1 .. 1 |-> b[1]]
    <2>1. 1 \in 1 .. 1 /\ \A i \in 1 .. 1 : i = 1
      OBVIOUS
    <2>2. s \in [1 .. 1 -> Nat] /\ s[1] = b[1] /\ Increasing(s)
      BY DEF Increasing
    <2> HIDE DEF s
    <2>3. Covers(s, 1, b, 1)
      BY <2>1, <2>2, Zenon DEF Covers, At
    <2> QED
      BY <1>2, <1>3, <2>1, <2>2, <2>3, Zenon DEF Fine, Sorts
  <1>4. CASE k # 1
    <2> DEFINE j == k - 1
               c == [i \in 1 .. j + 1 |-> b[i]]
    <2>1. j \in 1 .. K /\ j \in Nat /\ j + 1 = k /\ ~(k <= j)
      BY <1>2, <1>4
    <2>2. Fine(j)
      BY <1>1, <2>1
    <2>3. \A i \in 1 .. j + 1 : i \in 1 .. K
      BY <1>2, <2>1
    <2>4. /\ c \in [1 .. j + 1 -> Nat]
          /\ \A i \in 1 .. j + 1 : c[i] = b[i]
          /\ \A i \in 1 .. j : c[i] = b[i]
      BY <2>1, <2>3
    <2> HIDE DEF j, c
    <2>5. PICK n, s : n \in 1 .. j /\ Sorts(s, n, b, j)
      BY <2>2 DEF Fine
    <2>6. Sorts(s, n, c, j)
      BY <2>4, <2>5, Zenon DEF Sorts, Covers, At
    <2>7. PICK m, t : m \in 1 .. j + 1 /\ Sorts(t, m, c, j + 1)
      BY <2>1, <2>4, <2>5, <2>6, SortIn, Zenon
    <2>8. Sorts(t, m, b, j + 1)
      BY <2>4, <2>7, Zenon DEF Sorts, Covers, At
    <2> QED
      BY <1>2, <2>1, <2>7, <2>8, Zenon DEF Fine
  <1> QED
    BY <1>3, <1>4

LEMMA NewCommitLogTyped ==
    ASSUME NEW H, Headers(H), NEW lg, TypedLog(lg, H), NEW l, l = NewCommitLog(lg)
    PROVE  TypedLog(l, H)
  <1> DEFINE names == Names(lg)
             opened == [i \in DOMAIN names |->
                           NewSegment(names[i], FileNamed(lg, names[i]))]
  <1>1. l = [segments |-> opened, nextOffset |-> SegmentNextOffset(Last(opened))]
    BY DEF NewCommitLog, Last
  <1>2. PICK C \in Nat \ {0} : names \in [1 .. C -> Nat]
    <2> DEFINE K == Len(lg.segments)
               f == [i \in 1 .. K |-> At(lg.segments, i).base]
    <2>1. lg.segments \in Seq(TypedSegments(H)) /\ lg.segments # <<>>
      BY LogFields
    <2>2. K \in Nat \ {0} /\ \A i \in 1 .. K : At(lg.segments, i) \in TypedSegments(H)
      BY <2>1, SequenceAt
    <2>3. f \in [1 .. K -> Nat] /\ \A i \in 1 .. K : f[i] = At(lg.segments, i).base
      BY <2>2, TypedFields
    <2> HIDE DEF f
    <2>4. PICK n, s : n \in 1 .. K /\ Sorts(s, n, f, K)
      BY <2>2, <2>3, SortExists, Zenon
    <2>5. PICK C \in 1 .. K : Sorts(names, C, f, K)
      BY <2>3, <2>4, NamesAre
    <2> QED
      BY <2>2, <2>5 DEF Sorts
  <1> HIDE DEF names
  <1>3. \A i \in 1 .. C : names[i] \in Nat /\ FileNamed(lg, names[i]) \in Files(H)
    BY <1>2, FileNamedIs
  <1>4. \A i \in 1 .. C : NewSegment(names[i], FileNamed(lg, names[i])) \in TypedSegments(H)
    BY <1>3, NewSegmentTyped
  <1>5. opened \in [1 .. C -> TypedSegments(H)]
    BY <1>2, <1>4
  <1> HIDE DEF opened
  <1>6. opened \in Seq(TypedSegments(H)) /\ Len(opened) = C
    BY <1>5
  <1>7. opened # <<>>
    BY <1>6, SeqEmpty
  <1>8. SegmentNextOffset(Last(opened)) \in Nat
    BY <1>6, <1>7, SequenceAt, NextOffsetType, SMTT(20)
  <1> QED
    BY <1>1, <1>6, <1>7, <1>8, MakeLog

LEMMA AppendRawTyped ==
    ASSUME NEW H, Headers(H), NEW lg, TypedLog(lg, H), NEW blob,
           \A o \in Nat : Patched(blob, o) \in Files(H), NEW n \in Nat,
           NEW l, l = AppendRaw(lg, blob, n)
    PROVE  TypedLog(l, H) /\ l.nextOffset = lg.nextOffset + n
  <1> DEFINE r == Rolled(lg)
             seg == SegmentAppend(ActiveSegment(r), r.nextOffset, blob)
             w == WithActive(r, seg)
  <1>1. l = [w EXCEPT !.nextOffset = @ + n]
    BY DEF AppendRaw
  <1>2. TypedLog(r, H) /\ r.nextOffset = lg.nextOffset
    BY RolledTyped
  <1> HIDE DEF r
  <1>3. r.nextOffset \in Nat /\ ActiveSegment(r) \in TypedSegments(H)
    BY <1>2, LogFields
  <1>4. seg \in TypedSegments(H)
    BY <1>3, SegmentAppendTyped
  <1> HIDE DEF seg
  <1>5. TypedLog(w, H) /\ w.nextOffset = r.nextOffset
    BY <1>2, <1>4, WithActiveFields
  <1> HIDE DEF w
  <1>6. l.segments = w.segments /\ l.nextOffset = w.nextOffset + n
    BY <1>1, <1>5 DEF TypedLog
  <1> QED
    BY <1>1, <1>2, <1>3, <1>5, <1>6, SMTT(20) DEF TypedLog

\* What a write that stopped within a batch leaves does not count.
LEMMA TornEnd ==
    ASSUME NEW H, Headers(H), NEW f \in Files(H), Whole(f), NEW t \in Files(H),
           ~BatchAt(f \o t, Len(f))
    PROVE  ScanFrom(f \o t, 0) = ScanFrom(f, 0)
  <1>1. f \o t \in Files(H) /\ Len(f) \in Nat
    BY SeqConcat DEF Files
  <1>2. ScanFrom(f \o t, Len(f)) = <<>>
    BY <1>1, ScanRound, Zenon
  <1>3. ScanFrom(f, 0) \in Seq(H)
    BY ScanType
  <1> QED
    BY <1>2, <1>3, ScanThrough, SeqNothing, SMTT(20)

(***************************************************************************)
(* The batches of the calls, whole and torn.                               *)
(***************************************************************************)

LEMMA BatchHeaders == Headers(Batches)
  BY CommitLogAssumption DEF Headers, Batches

LEMMA NewBatchIs ==
    ASSUME NEW n \in 1 .. MaxBatch, appends \in Nat, appends < MaxAppends, NEW o \in Nat
    PROVE  /\ NewBatch(n) \in Batches /\ NewBatch(n).n = n
           /\ [NewBatch(n) EXCEPT !.base = o] \in Batches
           /\ [NewBatch(n) EXCEPT !.base = o].base = o
           /\ [NewBatch(n) EXCEPT !.base = o].n = n
  BY CommitLogAssumption DEF NewBatch, Batches

LEMMA NewBatchCells ==
    ASSUME NEW n \in 1 .. MaxBatch, appends \in Nat, appends < MaxAppends, NEW o \in Nat
    PROVE  /\ Patched(Cells(NewBatch(n)), o) \in Files(Batches)
           /\ IsBatch(Patched(Cells(NewBatch(n)), o), [NewBatch(n) EXCEPT !.base = o])
  <1> DEFINE b == NewBatch(n)
             t == Cells(b)
  <1>1. b \in Batches /\ [b EXCEPT !.base = o] \in Batches
    BY NewBatchIs
  <1>2. t \in Files(Batches) /\ IsBatch(t, b)
    BY <1>1, BatchHeaders, CellsOfBatch
  <1> HIDE DEF b, t
  <1>3. Patched(t, o) \in Files(Batches) /\ IsBatch(Patched(t, o), [b EXCEPT !.base = o])
    BY <1>1, <1>2, BatchHeaders, PatchedCells
  <1> QED
    BY <1>3 DEF b, t

\* What LeftBy adds to the file.
LeftCells(left, o) == IF left[1].n > 0 THEN Patched(left, o) ELSE left

LEMMA TornCells ==
    ASSUME NEW n \in 1 .. MaxBatch, appends \in Nat, appends < MaxAppends, NEW o \in Nat,
           NEW left \in Torn(NewBatch(n)), NEW t, t = LeftCells(left, o)
    PROVE  /\ t \in Files(Batches) /\ Len(t) \in Nat \ {0}
           /\ t[1].n = 0 \/ (t[1].n = n /\ Len(t) <= n)
  <1> DEFINE b == NewBatch(n)
             c == Cells(b)
  <1>1. b \in Batches /\ b.n = n /\ [b EXCEPT !.base = o] \in Batches
        /\ [b EXCEPT !.base = o].n = n
    BY NewBatchIs
  <1>2. c \in Files(Batches) /\ Len(c) = 1 + n /\ c[1] = b
    BY <1>1, BatchHeaders, CellsOfBatch DEF IsBatch, Total
  <1>3. n \in Nat /\ n > 0
    BY CommitLogAssumption
  <1>4. left \in {<<Body>>} \cup {SubSeq(c, 1, k) : k \in 1 .. n}
    BY <1>1 DEF Torn
  <1> HIDE DEF b, c
  <1>5. CASE left = <<Body>>
    <2>1. left[1].n = 0 /\ left \in Files(Batches) /\ Len(left) = 1
      BY <1>5 DEF Body, Files
    <2>2. t = left
      BY <2>1 DEF LeftCells
    <2>3. t \in Files(Batches) /\ Len(t) = 1 /\ t[1].n = 0
      BY <2>1, <2>2, Zenon
    <2> QED
      BY <2>3
  <1>6. CASE left # <<Body>>
    <2>1. PICK k \in 1 .. n : left = SubSeq(c, 1, k)
      BY <1>4, <1>6
    <2>2. /\ left \in Seq(Batches \cup {Body}) /\ Len(left) = k
          /\ left[1] = b
      <3>1. c \in Seq(Batches \cup {Body}) /\ k \in Nat /\ 1 <= k /\ k <= Len(c)
        BY <1>2, <1>3 DEF Files
      <3> QED
        BY <1>2, <2>1, <3>1
    <2>3. left[1].n > 0
      BY <1>1, <1>3, <2>2
    <2>4. t = [left EXCEPT ![1].base = o]
      BY <2>3 DEF LeftCells, Patched
    <2> DEFINE e == [b EXCEPT !.base = o]
    <2>5. t = [left EXCEPT ![1] = e] /\ e \in Batches \cup {Body} /\ e.n = n
      BY <1>1, <2>2, <2>4
    <2> HIDE DEF e
    <2>6. t \in Seq(Batches \cup {Body}) /\ Len(t) = k /\ t[1] = e
      BY <2>2, <2>5, SeqExcept
    <2> QED
      BY <2>5, <2>6 DEF Files
  <1> QED
    BY <1>5, <1>6

\* A scan of the file does not pass a torn batch.
LEMMA TornNotScanned ==
    ASSUME NEW H, NEW f \in Files(H), NEW t \in Files(H), Len(t) \in Nat \ {0},
           NEW n \in Nat \ {0}, t[1].n = 0 \/ (t[1].n = n /\ Len(t) <= n)
    PROVE  ~BatchAt(f \o t, Len(f))
  <1> DEFINE g == f \o t
  <1>1. Joined(g, f, t)
    BY DEF Joined
  <1>2. /\ Len(f) \in Nat /\ Len(g) = Len(f) + Len(t)
        /\ \A i \in 1 .. Len(g) : g[i] = IF i <= Len(f) THEN f[i] ELSE t[i - Len(f)]
    BY <1>1, JoinedCells
  <1> HIDE DEF g
  <1>3. g[Len(f) + 1] = t[1]
    <2>1. Len(f) + 1 \in 1 .. Len(g) /\ ~(Len(f) + 1 <= Len(f)) /\ (Len(f) + 1) - Len(f) = 1
      BY <1>2
    <2> QED
      BY <1>2, <2>1
  <1>4. CASE t[1].n = 0
    <2>1. ~(Cell(g, Len(f)).n > 0)
      BY <1>3, <1>4 DEF Cell
    <2> QED
      BY <2>1 DEF BatchAt, HeaderAt, g
  <1>5. CASE t[1].n = n /\ Len(t) <= n
    <2>1. Total(Cell(g, Len(f))) = 1 + n
      BY <1>3, <1>5 DEF Cell, Total
    <2>2. ~(Len(f) + Total(Cell(g, Len(f))) <= Len(g))
      BY <1>2, <1>5, <2>1
    <2> QED
      BY <2>2 DEF BatchAt, g
  <1> QED
    BY <1>4, <1>5

\* LeftBy changes only the file of the active segment.
LEMMA LeftByFields ==
    ASSUME NEW H, NEW l, TypedLog(l, H), NEW left,
           LeftCells(left, l.nextOffset) \in Files(H),
           NEW w, w = LeftBy(l, left)
    PROVE  /\ TypedLog(w, H) /\ w.nextOffset = l.nextOffset
           /\ Len(w.segments) = Len(l.segments)
           /\ \A i \in 1 .. Len(l.segments) : At(w.segments, i).base = At(l.segments, i).base
           /\ Last(w.segments).base = Last(l.segments).base
           /\ Joined(Last(w.segments).file, Last(l.segments).file,
                     LeftCells(left, l.nextOffset))
  <1> DEFINE seg == ActiveSegment(l)
             t == LeftCells(left, l.nextOffset)
             new == [seg EXCEPT !.file = @ \o t]
  <1>1. w = WithActive(l, new)
    BY DEF LeftBy, LeftCells
  <1>2. /\ seg \in TypedSegments(H) /\ seg = Last(l.segments)
        /\ l.segments \in Seq(TypedSegments(H)) /\ l.segments # <<>>
    BY LogFields
  <1>3. /\ seg \in SegmentRecords(H) /\ seg.file \in Files(H) /\ Len(seg.file) \in Nat
        /\ seg.currentSize \in Nat /\ seg.currentSize <= Len(seg.file)
        /\ \A i \in DOMAIN seg.index : seg.index[i].pos \in 0 .. Len(seg.file)
    BY <1>2, TypedFields, SMTT(20)
  <1> DEFINE g == seg.file \o t
  <1>4. new = [seg EXCEPT !.file = g] /\ Joined(g, seg.file, t)
    BY <1>3 DEF SegmentRecords, Joined
  <1> HIDE DEF t, g, seg, new
  <1>5. g \in Files(H) /\ Len(g) = Len(seg.file) + Len(t) /\ Len(t) \in Nat
    BY <1>3, <1>4, JoinedLength, ZenonT(30) DEF t
  <1>6. /\ new \in SegmentRecords(H) /\ new.base = seg.base /\ new.file = g
        /\ new.currentSize = seg.currentSize /\ new.index = seg.index
    BY <1>3, <1>4, <1>5 DEF SegmentRecords
  <1>7. new \in TypedSegments(H)
    <2>1. new.currentSize <= Len(new.file)
      BY <1>3, <1>5, <1>6
    <2>2. \A i \in DOMAIN new.index : new.index[i].pos <= Len(new.file)
      BY <1>3, <1>5, <1>6
    <2> QED
      BY <1>6, <2>1, <2>2 DEF TypedSegments
  <1>8. /\ TypedLog(w, H) /\ Relaid(w.segments, l.segments, new)
        /\ w.nextOffset = l.nextOffset
    BY <1>1, <1>7, WithActiveFields, SMTT(20)
  <1>9. /\ Len(l.segments) \in Nat \ {0} /\ Len(w.segments) = Len(l.segments)
        /\ \A i \in 1 .. Len(l.segments) - 1 : At(w.segments, i) = At(l.segments, i)
        /\ At(w.segments, Len(l.segments)) = new /\ Last(w.segments) = new
    BY <1>2, <1>7, <1>8, RelaidAt
  <1>10. At(l.segments, Len(l.segments)) = seg
    BY <1>2, SequenceAt
  <1>11. ASSUME NEW i \in 1 .. Len(l.segments)
         PROVE  At(w.segments, i).base = At(l.segments, i).base
    <2>1. CASE i = Len(l.segments)
      BY <1>6, <1>9, <1>10, <2>1
    <2>2. CASE i # Len(l.segments)
      BY <1>9, <2>2
    <2> QED
      BY <2>1, <2>2
  <1> QED
    BY <1>2, <1>4, <1>6, <1>8, <1>9, <1>11, SMTT(20) DEF t

\* After a torn write a restart finds the end of the log where it was.
LEMMA TornRestart ==
    ASSUME NEW H, Headers(H), NEW l, GoodLog(l, H), NEW left,
           NEW t \in Files(H), t = LeftCells(left, l.nextOffset), Len(t) \in Nat \ {0},
           NEW n \in Nat \ {0}, t[1].n = 0 \/ (t[1].n = n /\ Len(t) <= n),
           NEW w, w = LeftBy(l, left), NEW r, r = NewCommitLog(w)
    PROVE  r.nextOffset = l.nextOffset
  <1>1. /\ TypedLog(l, H) /\ Chain(l.segments, H)
        /\ l.nextOffset = SegmentNextOffset(Last(l.segments))
        /\ l.segments \in Seq(GoodSegments(H)) /\ l.segments # <<>>
    BY DEF GoodLog, ActiveSegment, Chain, Last
  <1>2. /\ TypedLog(w, H) /\ w.nextOffset = l.nextOffset
        /\ Len(w.segments) = Len(l.segments)
        /\ \A i \in 1 .. Len(l.segments) : At(w.segments, i).base = At(l.segments, i).base
        /\ Last(w.segments).base = Last(l.segments).base
        /\ Joined(Last(w.segments).file, Last(l.segments).file, t)
    BY <1>1, LeftByFields
  <1>3. Rising(w.segments)
    BY <1>1, <1>2 DEF Rising, Chain
  <1>4. /\ DOMAIN r.segments = 1 .. Len(w.segments)
        /\ \A i \in 1 .. Len(w.segments) :
              At(r.segments, i) = NewSegment(At(w.segments, i).base, At(w.segments, i).file)
        /\ r.nextOffset = SegmentNextOffset(Last(r.segments))
    BY <1>2, <1>3, Reopened, SMTT(20)
  <1>5. /\ TypedLog(r, H) /\ r.segments \in Seq(TypedSegments(H)) /\ r.segments # <<>>
        /\ w.segments \in Seq(TypedSegments(H)) /\ w.segments # <<>>
    BY <1>2, NewCommitLogTyped, LogFields, SMTT(20)
  <1>6. /\ Len(w.segments) \in Nat \ {0} /\ Last(w.segments) = At(w.segments, Len(w.segments))
        /\ Len(r.segments) \in Nat \ {0} /\ Last(r.segments) = At(r.segments, Len(r.segments))
        /\ Last(l.segments) \in GoodSegments(H)
    BY <1>1, <1>5, SequenceAt, SMTT(20)
  <1>7. Len(r.segments) = Len(w.segments)
    <2>1. DOMAIN r.segments = 1 .. Len(r.segments)
      BY <1>5, SeqLen
    <2> QED
      BY <1>4, <1>6, <2>1, SMTT(20)
  <1>8. Last(r.segments) = NewSegment(Last(w.segments).base, Last(w.segments).file)
    <2>1. Len(w.segments) \in 1 .. Len(w.segments)
      BY <1>6
    <2> QED
      BY <1>4, <1>6, <1>7, <2>1, SMTT(20)
  <1>9. /\ Last(r.segments).base = Last(l.segments).base
        /\ Last(r.segments).file = Last(w.segments).file
    BY <1>2, <1>8 DEF NewSegment
  <1> DEFINE f == Last(l.segments).file
  <1>10. f \in Files(H) /\ Whole(f)
    BY <1>6, GoodFields, SMTT(20)
  <1>11. ~BatchAt(f \o t, Len(f))
    BY <1>10, TornNotScanned
  <1>12. ScanFrom(f \o t, 0) = ScanFrom(f, 0)
    BY <1>10, <1>11, TornEnd
  <1>13. Scanned(Last(r.segments)) = Scanned(Last(l.segments))
    BY <1>2, <1>9, <1>12, SMTT(20) DEF Scanned, Joined
  <1>14. SegmentNextOffset(Last(r.segments)) = SegmentNextOffset(Last(l.segments))
    BY <1>9, <1>13, SameEnd
  <1> QED
    BY <1>1, <1>4, <1>14, SMTT(20)

(***************************************************************************)
(* The invariant.                                                          *)
(***************************************************************************)

LEMMA LogInvFields ==
    ASSUME LogInv
    PROVE  /\ TypedLog(log, Batches) /\ log.nextOffset \in Nat
           /\ appends \in Nat /\ acked \in Seq(Batches) /\ intact \in BOOLEAN
           /\ intact => /\ GoodLog(log, Batches) /\ InLog(log.segments) = acked
                        /\ AckedEnd = log.nextOffset
  BY LogFields, CommitLogAssumption DEF LogInv

LEMMA AttemptKeeps ==
    ASSUME LogInv, Attempt
    PROVE  appends < MaxAppends /\ appends' \in 0 .. MaxAppends
  BY CommitLogAssumption DEF LogInv, Attempt

LEMMA InitInv == Init => LogInv
  <1> SUFFICES ASSUME Init PROVE LogInv
    OBVIOUS
  <1>1. /\ GoodLog(EmptyLog, Batches) /\ InLog(EmptyLog.segments) = <<>>
        /\ EmptyLog.nextOffset = 0
    BY BatchHeaders, EmptyLogGood
  <1>2. TypedLog(EmptyLog, Batches)
    BY <1>1 DEF GoodLog
  <1>3. acked \in Seq(Batches) /\ AckedEnd = 0
    BY SeqEmpty DEF Init, AckedEnd
  <1> QED
    BY <1>1, <1>2, <1>3, CommitLogAssumption, SMTT(20) DEF Init, LogInv

LEMMA ProduceKeeps ==
    ASSUME LogInv, NEW n \in 1 .. MaxBatch, Produce(n)
    PROVE  /\ LogInv'
           /\ intact => InLog(log'.segments)
                          = Append(acked, [NewBatch(n) EXCEPT !.base = log.nextOffset])
  <1> DEFINE o == log.nextOffset
             c == [NewBatch(n) EXCEPT !.base = o]
             blob == Cells(NewBatch(n))
  <1>1. /\ TypedLog(log, Batches) /\ o \in Nat /\ appends \in Nat /\ acked \in Seq(Batches)
        /\ intact \in BOOLEAN
        /\ intact => GoodLog(log, Batches) /\ InLog(log.segments) = acked
    BY LogInvFields
  <1>2. appends < MaxAppends /\ appends' \in 0 .. MaxAppends
    BY AttemptKeeps DEF Produce
  <1>3. log' = AppendRaw(log, blob, n) /\ acked' = Append(acked, c) /\ intact' = intact
    BY DEF Produce
  <1>4. c \in Batches /\ c.base = o /\ c.n = n
    BY <1>1, <1>2, NewBatchIs, SMTT(20)
  <1>5. /\ \A p \in Nat : Patched(blob, p) \in Files(Batches)
        /\ IsBatch(Patched(blob, o), c)
    BY <1>1, <1>2, NewBatchCells, Zenon
  <1> HIDE DEF c, blob, o
  <1>6. n \in Nat
    BY CommitLogAssumption
  <1>7. TypedLog(log', Batches) /\ log'.nextOffset = o + n
    BY <1>1, <1>3, <1>5, <1>6, BatchHeaders, AppendRawTyped DEF o
  <1>8. ASSUME intact
        PROVE  /\ GoodLog(log', Batches)
               /\ Joined(InLog(log'.segments), InLog(log.segments), <<c>>)
    <2>1. GoodLog(log, Batches) /\ log' = AppendRaw(log, blob, c.n)
      BY <1>1, <1>3, <1>4, <1>8
    <2>2. /\ Patched(blob, log.nextOffset) \in Files(Batches)
          /\ IsBatch(Patched(blob, log.nextOffset), c) /\ c.base = log.nextOffset
      BY <1>1, <1>4, <1>5 DEF o
    <2> QED
      BY <1>4, <2>1, <2>2, BatchHeaders, AppendRawGood
  <1>9. intact => InLog(log'.segments) = acked'
    <2>1. Append(acked, c) = acked \o <<c>>
      BY <1>1, <1>4, SeqAppendIs
    <2> QED
      BY <1>1, <1>3, <1>8, <2>1 DEF Joined
  <1>10. /\ acked' \in Seq(Batches) /\ acked' # <<>>
         /\ acked'[Len(acked')] = c
    BY <1>1, <1>3, <1>4, SeqAppend
  <1>11. AckedEnd' = log'.nextOffset
    BY <1>4, <1>7, <1>10 DEF AckedEnd
  <1> QED
    BY <1>1, <1>2, <1>3, <1>7, <1>8, <1>9, <1>10, <1>11, SMTT(20) DEF LogInv, c, o

LEMMA AppendFailsKeeps ==
    ASSUME LogInv, AppendFails
    PROVE  /\ LogInv'
           /\ log'.nextOffset = log.nextOffset
           /\ intact => InLog(log'.segments) = acked
  <1>1. /\ TypedLog(log, Batches) /\ acked \in Seq(Batches) /\ intact \in BOOLEAN
        /\ intact => /\ GoodLog(log, Batches) /\ InLog(log.segments) = acked
                     /\ AckedEnd = log.nextOffset
    BY LogInvFields
  <1>2. appends' \in 0 .. MaxAppends /\ log' = Rolled(log) /\ acked' = acked /\ intact' = intact
    BY AttemptKeeps DEF AppendFails
  <1>3. TypedLog(log', Batches) /\ log'.nextOffset = log.nextOffset
    BY <1>1, <1>2, BatchHeaders, RolledTyped, SMTT(20)
  <1>4. intact => GoodLog(log', Batches) /\ InLog(log'.segments) = InLog(log.segments)
    BY <1>1, <1>2, BatchHeaders, RolledGood
  <1>5. AckedEnd' = AckedEnd
    BY <1>2 DEF AckedEnd
  <1> QED
    BY <1>1, <1>2, <1>3, <1>4, <1>5 DEF LogInv

LEMMA RestartKeeps ==
    ASSUME LogInv, Restart
    PROVE  /\ LogInv'
           /\ intact => log'.nextOffset = log.nextOffset /\ InLog(log'.segments) = acked
  <1>1. /\ TypedLog(log, Batches) /\ acked \in Seq(Batches) /\ intact \in BOOLEAN
        /\ intact => /\ GoodLog(log, Batches) /\ InLog(log.segments) = acked
                     /\ AckedEnd = log.nextOffset
    BY LogInvFields
  <1>2. /\ log' = NewCommitLog(log) /\ appends' = appends /\ acked' = acked
        /\ intact' = intact
    BY DEF Restart
  <1>3. TypedLog(log', Batches)
    BY <1>1, <1>2, BatchHeaders, NewCommitLogTyped, SMTT(20)
  <1>4. intact => /\ GoodLog(log', Batches) /\ InLog(log'.segments) = InLog(log.segments)
                  /\ log'.nextOffset = log.nextOffset
    BY <1>1, <1>2, BatchHeaders, NewCommitLogGood
  <1>5. AckedEnd' = AckedEnd
    BY <1>2 DEF AckedEnd
  <1>6. appends' \in 0 .. MaxAppends
    BY <1>2 DEF LogInv
  <1> QED
    BY <1>1, <1>2, <1>3, <1>4, <1>5, <1>6, SMTT(20) DEF LogInv

\* The failures that leave bytes.
LEMMA WriteFailsKeeps ==
    ASSUME LogInv, NEW n \in 1 .. MaxBatch, WriteFails(n)
    PROVE  LogInv' /\ log'.nextOffset = log.nextOffset /\ intact' = FALSE
  <1> DEFINE l == Rolled(log)
  <1>1. TypedLog(log, Batches) /\ acked \in Seq(Batches) /\ appends \in Nat
    BY LogInvFields
  <1>2. /\ appends < MaxAppends /\ appends' \in 0 .. MaxAppends /\ acked' = acked
        /\ intact' = FALSE
    BY AttemptKeeps DEF WriteFails, Breaks
  <1>3. PICK left \in Torn(NewBatch(n)) : log' = LeftBy(l, left)
    BY DEF WriteFails
  <1>4. TypedLog(l, Batches) /\ l.nextOffset = log.nextOffset /\ l.nextOffset \in Nat
    BY <1>1, BatchHeaders, RolledTyped, LogFields, SMTT(20)
  <1> HIDE DEF l
  <1>5. LeftCells(left, l.nextOffset) \in Files(Batches)
    BY <1>1, <1>2, <1>4, TornCells, ZenonT(30)
  <1>6. TypedLog(log', Batches) /\ log'.nextOffset = l.nextOffset
    BY <1>3, <1>4, <1>5, LeftByFields
  <1> QED
    BY <1>1, <1>2, <1>4, <1>6, Zenon DEF LogInv

LEMMA WrittenTyped ==
    ASSUME NEW H, NEW seg \in TypedSegments(H), NEW t \in Files(H)
    PROVE  Written(seg, t) \in TypedSegments(H)
  <1> DEFINE g == seg.file \o t
             new == Written(seg, t)
  <1>1. /\ seg \in SegmentRecords(H) /\ seg.file \in Files(H) /\ Len(seg.file) \in Nat
        /\ seg.currentSize \in Nat /\ seg.currentSize <= Len(seg.file)
        /\ \A i \in DOMAIN seg.index : seg.index[i].pos \in 0 .. Len(seg.file)
    BY TypedFields
  <1>2. /\ new = [seg EXCEPT !.file = g, !.currentSize = seg.currentSize + Len(t)]
        /\ Joined(g, seg.file, t)
    BY <1>1 DEF SegmentRecords, Joined, Written
  <1> HIDE DEF g, new
  <1>3. g \in Files(H) /\ Len(g) = Len(seg.file) + Len(t) /\ Len(t) \in Nat
    BY <1>1, <1>2, JoinedLength, SMTT(20)
  <1> DEFINE size == seg.currentSize + Len(t)
  <1>a. size \in Nat /\ new = [seg EXCEPT !.file = g, !.currentSize = size]
    BY <1>1, <1>2, <1>3, SMTT(20)
  <1> HIDE DEF size
  <1>b. /\ new \in SegmentRecords(H) /\ new.file = g
        /\ new.currentSize = size /\ new.index = seg.index
    BY <1>1, <1>3, <1>a, ZenonT(30) DEF SegmentRecords
  <1>4. /\ new \in SegmentRecords(H) /\ new.file = g
        /\ new.currentSize = seg.currentSize + Len(t) /\ new.index = seg.index
    BY <1>b DEF size
  <1>5. new.currentSize <= Len(new.file)
    BY <1>1, <1>3, <1>4, SMTT(20)
  <1>6. \A i \in DOMAIN new.index : new.index[i].pos <= Len(new.file)
    BY <1>1, <1>3, <1>4
  <1> QED
    BY <1>4, <1>5, <1>6, SMTT(20) DEF TypedSegments, new

LEMMA IndexFailsKeeps ==
    ASSUME LogInv, NEW n \in 1 .. MaxBatch, IndexFails(n)
    PROVE  LogInv' /\ log'.nextOffset = log.nextOffset /\ intact' = FALSE
  <1> DEFINE l == Rolled(log)
             seg == ActiveSegment(l)
             t == Patched(Cells(NewBatch(n)), l.nextOffset)
             new == Written(seg, t)
  <1>1. TypedLog(log, Batches) /\ acked \in Seq(Batches) /\ appends \in Nat
    BY LogInvFields
  <1>2. /\ appends < MaxAppends /\ appends' \in 0 .. MaxAppends /\ acked' = acked
        /\ intact' = FALSE
    BY AttemptKeeps DEF IndexFails, Breaks
  <1>3. log' = WithActive(l, new)
    BY DEF IndexFails
  <1>4. TypedLog(l, Batches) /\ l.nextOffset = log.nextOffset /\ l.nextOffset \in Nat
    BY <1>1, BatchHeaders, RolledTyped, LogFields, SMTT(20)
  <1>5. t \in Files(Batches)
    BY <1>1, <1>2, <1>4, NewBatchCells, ZenonT(30)
  <1>6. seg \in TypedSegments(Batches)
    BY <1>4, LogFields
  <1> HIDE DEF l, seg, t
  <1>7. new \in TypedSegments(Batches)
    BY <1>5, <1>6, WrittenTyped
  <1>8. TypedLog(log', Batches) /\ log'.nextOffset = l.nextOffset
    <2> HIDE DEF new
    <2> QED
      BY <1>3, <1>4, <1>7, WithActiveFields, SMTT(20)
  <1> QED
    BY <1>1, <1>2, <1>4, <1>8, Zenon DEF LogInv

LEMMA RestartInWriteKeeps ==
    ASSUME LogInv, NEW n \in 1 .. MaxBatch, RestartInWrite(n)
    PROVE  LogInv' /\ log'.nextOffset = log.nextOffset /\ intact' = FALSE
  <1> DEFINE l == Rolled(log)
  <1>1. /\ TypedLog(log, Batches) /\ acked \in Seq(Batches) /\ appends \in Nat
        /\ intact => GoodLog(log, Batches)
    BY LogInvFields
  <1>2. /\ appends < MaxAppends /\ appends' \in 0 .. MaxAppends /\ acked' = acked
        /\ intact' = FALSE /\ intact
    BY AttemptKeeps DEF RestartInWrite, Breaks
  <1>3. PICK left \in Torn(NewBatch(n)) : log' = NewCommitLog(LeftBy(l, left))
    BY DEF RestartInWrite
  <1>4. TypedLog(l, Batches) /\ l.nextOffset = log.nextOffset /\ l.nextOffset \in Nat
    BY <1>1, BatchHeaders, RolledTyped, LogFields
  <1>5. GoodLog(l, Batches)
    BY <1>1, <1>2, BatchHeaders, RolledGood, SMTT(20)
  <1> DEFINE t == LeftCells(left, l.nextOffset)
             w == LeftBy(l, left)
  <1>6. /\ t \in Files(Batches) /\ Len(t) \in Nat \ {0}
        /\ t[1].n = 0 \/ (t[1].n = n /\ Len(t) <= n)
    BY <1>1, <1>2, <1>4, TornCells, Zenon
  <1>7. n \in Nat \ {0}
    BY CommitLogAssumption, SMTT(20)
  <1>8. log'.nextOffset = l.nextOffset
    BY <1>3, <1>5, <1>6, <1>7, BatchHeaders, TornRestart, SMTT(20)
  <1>9. TypedLog(w, Batches)
    BY <1>4, <1>6, LeftByFields, SMTT(20)
  <1>10. TypedLog(log', Batches)
    BY <1>3, <1>9, BatchHeaders, NewCommitLogTyped
  <1> QED
    BY <1>1, <1>2, <1>4, <1>8, <1>10, Zenon DEF LogInv

LEMMA NextInv == LogInv /\ [Next]_vars => LogInv'
  <1> SUFFICES ASSUME LogInv, [Next]_vars PROVE LogInv'
    OBVIOUS
  <1>1. CASE \E n \in 1 .. MaxBatch : Produce(n)
    BY <1>1, ProduceKeeps, Zenon
  <1>2. CASE \E n \in 1 .. MaxBatch : WriteFails(n)
    BY <1>2, WriteFailsKeeps, Zenon
  <1>3. CASE \E n \in 1 .. MaxBatch : IndexFails(n)
    BY <1>3, IndexFailsKeeps, ZenonT(30)
  <1>4. CASE \E n \in 1 .. MaxBatch : RestartInWrite(n)
    BY <1>4, RestartInWriteKeeps, Zenon
  <1>5. CASE AppendFails
    BY <1>5, AppendFailsKeeps
  <1>6. CASE Restart
    BY <1>6, RestartKeeps, SMTT(20)
  <1>7. CASE UNCHANGED vars
    BY <1>7 DEF vars, LogInv, AckedEnd
  <1> QED
    BY <1>1, <1>2, <1>3, <1>4, <1>5, <1>6, <1>7 DEF Next

THEOREM LogIsGood == Spec => []LogInv
  BY InitInv, NextInv, PTL DEF Spec

LEMMA InvTypes == LogInv => TypeOK
  <1> SUFFICES ASSUME LogInv PROVE TypeOK
    OBVIOUS
  <1>1. /\ TypedLog(log, Batches) /\ log.nextOffset \in Nat
        /\ log.segments \in Seq(TypedSegments(Batches))
    BY LogInvFields, LogFields, SMTT(20)
  <1>2. ASSUME NEW i \in DOMAIN log.segments
        PROVE  LET s == log.segments[i] IN
               /\ s.base \in Nat
               /\ s.currentSize \in 0 .. Len(s.file)
               /\ \A c \in Range(s.file) : c = Body \/ c \in Batches
               /\ \A e \in Range(s.index) : e.pos \in 0 .. Len(s.file)
    <2> DEFINE s == log.segments[i]
    <2>1. s \in TypedSegments(Batches)
      BY <1>1, SeqLen
    <2> HIDE DEF s
    <2>2. /\ s.base \in Nat /\ s.file \in Files(Batches) /\ Len(s.file) \in Nat
          /\ s.currentSize \in Nat /\ s.currentSize <= Len(s.file)
          /\ \A j \in DOMAIN s.index : s.index[j].pos \in 0 .. Len(s.file)
      BY <2>1, TypedFields
    <2>3. s.currentSize \in 0 .. Len(s.file)
      BY <2>2
    <2>4. \A c \in Range(s.file) : c = Body \/ c \in Batches
      BY <2>2, SeqLen DEF Files, Range
    <2>5. \A e \in Range(s.index) : e.pos \in 0 .. Len(s.file)
      BY <2>2 DEF Range
    <2> QED
      BY <2>2, <2>3, <2>4, <2>5, SMTT(20) DEF s
  <1> QED
    BY <1>1, <1>2 DEF LogInv, TypeOK

\* Every reachable state of the log is well typed, also after failed writes: no
\* index entry points behind its file, every segment's name is an offset, and
\* nextOffset is one.
THEOREM TypeCorrect == Spec => []TypeOK
  BY LogIsGood, InvTypes, PTL

\* Restarts, rolls and failed calls leave the next offset of an intact log as it
\* is (NewCommitLog, scanLastOffset), even when the broker stopped within a write.
THEOREM RestartsKeepEnd == Spec => RestartKeepsEnd
  <1> DEFINE Kept == intact /\ acked' = acked => log'.nextOffset = log.nextOffset
  <1>1. LogInv /\ [Next]_vars => [Kept]_vars
    <2> SUFFICES ASSUME LogInv, Next, intact, acked' = acked
                 PROVE  log'.nextOffset = log.nextOffset
      OBVIOUS
    <2>1. CASE \E n \in 1 .. MaxBatch : Produce(n)
      <3>1. PICK n \in 1 .. MaxBatch : Produce(n)
        BY <2>1
      <3> DEFINE c == [NewBatch(n) EXCEPT !.base = log.nextOffset]
      <3>2. acked' = Append(acked, c) /\ acked \in Seq(Batches)
        BY <3>1, LogInvFields DEF Produce
      <3>3. c \in Batches
        <4>1. appends < MaxAppends /\ appends \in Nat /\ log.nextOffset \in Nat
          BY <3>1, AttemptKeeps, LogInvFields, SMTT(20) DEF Produce
        <4> QED
          BY <4>1, NewBatchIs
      <3> HIDE DEF c
      <3>4. Len(acked') = Len(acked) + 1 /\ Len(acked) \in Nat
        BY <3>2, <3>3, SeqAppend, SMTT(20)
      <3> QED
        BY <3>4
    <2>2. CASE \E n \in 1 .. MaxBatch : WriteFails(n)
      BY <2>2, WriteFailsKeeps, Zenon
    <2>3. CASE \E n \in 1 .. MaxBatch : IndexFails(n)
      BY <2>3, IndexFailsKeeps, Zenon
    <2>4. CASE \E n \in 1 .. MaxBatch : RestartInWrite(n)
      BY <2>4, RestartInWriteKeeps, Zenon
    <2>5. CASE AppendFails
      BY <2>5, AppendFailsKeeps
    <2>6. CASE Restart
      BY <2>6, RestartKeeps, SMTT(20)
    <2> QED
      BY <2>1, <2>2, <2>3, <2>4, <2>5, <2>6, SMTT(20) DEF Next
  <1> QED
    BY <1>1, LogIsGood, PTL DEF Spec, RestartKeepsEnd

(***************************************************************************)
(* The files implement RecordLog.                                          *)
(***************************************************************************)

LEMMA EntriesAre ==
    ASSUME LogInv, intact
    PROVE  Entries = acked
  BY LogInvFields, BatchHeaders, WalkIsInLog DEF Entries

LEMMA EntriesNext ==
    ASSUME LogInv', intact'
    PROVE  Entries' = acked'
  <1>1. GoodLog(log', Batches) /\ InLog(log'.segments) = acked'
    BY DEF LogInv
  <1> QED
    BY <1>1, BatchHeaders, WalkIsInLog, SMTT(20) DEF Entries

LEMMA AbstractStep == LogInv /\ [Next]_vars => [Abs!Next]_(Abs!absVars)
  <1> SUFFICES ASSUME LogInv, [Next]_vars PROVE [Abs!Next]_(Abs!absVars)
    OBVIOUS
  <1>0. LogInv'
    BY NextInv
  <1>1. CASE \E n \in 1 .. MaxBatch : Produce(n)
    <2>1. PICK n \in 1 .. MaxBatch : Produce(n)
      BY <1>1
    <2>2. CASE intact
      <3> DEFINE c == [NewBatch(n) EXCEPT !.base = log.nextOffset]
      <3>1. /\ acked' = Append(acked, c) /\ acked \in Seq(Batches) /\ intact' = intact
            /\ AckedEnd = log.nextOffset /\ intact \in BOOLEAN
        BY <2>1, <2>2, LogInvFields, SMTT(20) DEF Produce
      <3>2. c \in Batches /\ c.base = log.nextOffset
        <4>1. appends < MaxAppends /\ appends \in Nat /\ log.nextOffset \in Nat
          BY <2>1, AttemptKeeps, LogInvFields, SMTT(20) DEF Produce
        <4> QED
          BY <4>1, NewBatchIs
      <3> HIDE DEF c
      <3>3. Entries = acked /\ Entries' = acked'
        BY <1>0, <2>2, <3>1, EntriesAre, EntriesNext
      <3>4. Abs!End = AckedEnd
        BY <3>3 DEF Abs!End, AckedEnd
      <3>5. /\ Len(acked') = Len(acked) + 1 /\ acked'[Len(acked')] = c
            /\ SubSeq(acked', 1, Len(acked)) = acked
        <4>1. /\ acked' \in Seq(Batches) /\ Len(acked') = Len(acked) + 1
              /\ Len(acked) \in Nat
              /\ \A i \in 1 .. Len(acked) : acked'[i] = acked[i]
              /\ acked'[Len(acked) + 1] = c
          BY <3>1, <3>2, SeqAppend, SeqLen
        <4> DEFINE u == SubSeq(acked', 1, Len(acked))
        <4>2. /\ u \in Seq(Batches) /\ Len(u) = Len(acked)
              /\ \A i \in 1 .. Len(acked) : u[i] = acked[i]
          BY <4>1
        <4>3. u = acked
          <5> HIDE DEF u
          <5> QED
            BY <3>1, <4>2, SeqSame, SMTT(20)
        <4> QED
          BY <4>1, <4>3
      <3>6. Abs!Extend
        BY <2>2, <3>1, <3>2, <3>3, <3>4, <3>5 DEF Abs!Extend
      <3> QED
        BY <3>6 DEF Abs!Next
    <2>3. CASE ~intact
      BY <2>1, <2>3, LogInvFields, SMTT(20) DEF Produce, Abs!Next, Abs!Fail
    <2> QED
      BY <2>2, <2>3
  <1>2. CASE \E n \in 1 .. MaxBatch : WriteFails(n)
    BY <1>2, WriteFailsKeeps, Zenon DEF Abs!Next, Abs!Fail
  <1>3. CASE \E n \in 1 .. MaxBatch : IndexFails(n)
    BY <1>3, IndexFailsKeeps, Zenon DEF Abs!Next, Abs!Fail
  <1>4. CASE \E n \in 1 .. MaxBatch : RestartInWrite(n)
    BY <1>4, RestartInWriteKeeps, Zenon DEF Abs!Next, Abs!Fail
  <1>5. CASE AppendFails \/ Restart
    <2>1. acked' = acked /\ intact' = intact /\ intact \in BOOLEAN
      BY <1>5, LogInvFields, SMTT(20) DEF AppendFails, Restart
    <2>2. CASE intact
      <3>1. Entries = acked /\ Entries' = acked'
        BY <1>0, <2>1, <2>2, EntriesAre, EntriesNext, SMTT(20)
      <3> QED
        BY <2>1, <3>1 DEF Abs!absVars
    <2>3. CASE ~intact
      BY <2>1, <2>3 DEF Abs!Next, Abs!Fail
    <2> QED
      BY <2>2, <2>3
  <1>6. CASE UNCHANGED vars
    BY <1>6 DEF vars, Abs!absVars, Entries
  <1> QED
    BY <1>1, <1>2, <1>3, <1>4, <1>5, <1>6, SMTT(20) DEF Next

\* Until a write fails half way the segment files together are the log of
\* RecordLog: rolls, index entries, failed calls and restarts neither lose,
\* repeat nor move a batch, and AppendRaw extends the log at its end.
THEOREM Refinement == Spec => ImplementsRecordLog
  <1>1. Init => Abs!Init
    <2> SUFFICES ASSUME Init PROVE Abs!Init
      OBVIOUS
    <2>1. LogInv /\ intact
      BY InitInv DEF Init
    <2>2. Entries = acked
      BY <2>1, EntriesAre
    <2> QED
      BY <2>2 DEF Init, Abs!Init
  <1> QED
    BY <1>1, AbstractStep, LogIsGood, PTL DEF Spec, ImplementsRecordLog, Abs!Spec

=============================================================================
