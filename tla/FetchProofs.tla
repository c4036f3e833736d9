---------------------------- MODULE FetchProofs -----------------------------
(***************************************************************************)
(* What a fetch is served, for logs of any length, batches of any size,    *)
(* any segment size, index interval and byte limit: the two binary         *)
(* searches, over the segments and over the index of one, the scan for the *)
(* batch to begin with, the byte limit and the high-watermark.             *)
(***************************************************************************)
EXTENDS CommitLogProofs

(***************************************************************************)
(* The searches.                                                           *)
(***************************************************************************)

SearchVars == [left : Nat \ {0}, right : Nat, result : Nat]

\* findSegmentByOffset returns the last segment that begins at or below offset o.
LEMMA SegmentFound ==
    ASSUME NEW H, NEW l, Chain(l.segments, H), NEW o \in Nat
    PROVE  LET K == Len(l.segments)
               i == FindSegmentByOffset(l, o) IN
           /\ K \in Nat /\ i \in 1 .. K
           /\ At(l.segments, i).base <= o
           /\ i < K => o < At(l.segments, i + 1).base
  <1> DEFINE ss == l.segments
             K == Len(ss)
             D == SearchVars
             mid(v) == (v.left + v.right) \div 2
             up(v) == [v EXCEPT !.left = mid(v) + 1, !.result = mid(v)]
             down(v) == [v EXCEPT !.right = mid(v) - 1]
             next(v) == IF At(ss, mid(v)).base <= o THEN up(v) ELSE down(v)
             L == [D |-> D,
                   stop |-> [v \in D |-> v.left > v.right],
                   value |-> [v \in D |-> v.result],
                   step |-> [v \in D |-> next(v)]]
             left == [v \in D |-> IF v.left <= v.right THEN v.right + 1 - v.left ELSE 0]
             F(g) == [v \in D |-> IF v.left > v.right THEN v.result ELSE g[next(v)]]
             search == CHOOSE g : g = F(g)
             first == [left |-> 1, right |-> K, result |-> 0]
  <1>1. /\ K \in Nat \ {0} /\ At(ss, 1).base = 0
        /\ \A i \in 1 .. K : At(ss, i).base \in Nat
    <2>1. ss \in Seq(GoodSegments(H)) /\ ss # <<>> /\ At(ss, 1).base = 0
      BY DEF Chain
    <2> QED
      BY <2>1, SequenceAt, GoodFields
  <1>2. ASSUME NEW v \in D, v.left <= v.right
        PROVE  /\ mid(v) \in v.left .. v.right
               /\ up(v) \in D /\ up(v).left = mid(v) + 1 /\ up(v).right = v.right
               /\ up(v).result = mid(v)
               /\ down(v) \in D /\ down(v).left = v.left /\ down(v).right = mid(v) - 1
               /\ down(v).result = v.result
               /\ next(v) = up(v) \/ next(v) = down(v)
    <2>1. v.left \in Nat \ {0} /\ v.right \in Nat /\ v.result \in Nat
      BY DEF SearchVars
    <2>2. mid(v) \in v.left .. v.right
      BY <1>2, <2>1
    <2> DEFINE m == mid(v)
    <2>3. m \in Nat \ {0} /\ m - 1 \in Nat /\ m + 1 \in Nat \ {0}
      BY <2>1, <2>2
    <2> HIDE DEF m
    <2>4. /\ [v EXCEPT !.left = m + 1, !.result = m] \in D
          /\ [v EXCEPT !.left = m + 1, !.result = m].left = m + 1
          /\ [v EXCEPT !.left = m + 1, !.result = m].right = v.right
          /\ [v EXCEPT !.left = m + 1, !.result = m].result = m
      BY <2>3, Zenon DEF SearchVars
    <2>5. /\ [v EXCEPT !.right = m - 1] \in D
          /\ [v EXCEPT !.right = m - 1].left = v.left
          /\ [v EXCEPT !.right = m - 1].right = m - 1
          /\ [v EXCEPT !.right = m - 1].result = v.result
      BY <2>3 DEF SearchVars
    <2> QED
      BY <2>2, <2>4, <2>5 DEF m
  <1>3. \A v \in D : v.left \in Nat \ {0} /\ v.right \in Nat /\ v.result \in Nat
    BY DEF SearchVars
  <1> HIDE DEF up, down, mid
  <1>4. Loop(L, left)
    <2>1. left \in [L.D -> Nat]
      BY <1>3
    <2> SUFFICES ASSUME NEW v \in D, ~(v.left > v.right)
                 PROVE  L.step[v] \in L.D /\ left[L.step[v]] < left[v]
      BY <2>1, Zenon DEF Loop
    <2>2. v.left <= v.right
      BY <1>3
    <2>3. CASE next(v) = up(v)
      BY <1>2, <1>3, <2>2, <2>3
    <2>4. CASE next(v) = down(v)
      BY <1>2, <1>3, <2>2, <2>4
    <2> QED
      BY <1>2, <2>2, <2>3, <2>4
  <1>5. PICK g : Searches(g, L)
    <2> HIDE DEF L, left
    <2> QED
      BY <1>4, SearchExists
  <1>6. g = F(g)
    BY <1>5, Zenon DEF Searches
  <1>7. search = F(search)
    <2> HIDE DEF F
    <2> QED
      BY <1>6
  <1>8. FindSegmentByOffset(l, o) = search[first]
    BY DEF FindSegmentByOffset, search, F, next, up, down, mid, At, SearchVars
  <1> HIDE DEF search
  <1>9. Searches(search, L)
    BY <1>7, Zenon DEF Searches
  <1> DEFINE I == {v \in D : /\ v.result = v.left - 1
                             /\ v.left <= v.right + 1
                             /\ v.right <= K
                             /\ v.result >= 1 => At(ss, v.result).base <= o
                             /\ v.right < K => o < At(ss, v.right + 1).base}
  <1>10. first \in I
    BY <1>1 DEF SearchVars
  <1>11. ASSUME NEW v \in I, ~(v.left > v.right)
         PROVE  next(v) \in I
    <2>1. v \in D /\ v.left <= v.right /\ mid(v) \in v.left .. v.right /\ v.right <= K
      BY <1>2, <1>3, <1>11
    <2>2. mid(v) \in 1 .. K /\ mid(v) \in Nat
      BY <1>1, <1>3, <2>1
    <2>3. CASE At(ss, mid(v)).base <= o
      <3>1. next(v) = up(v)
        BY <2>3
      <3> HIDE DEF next
      <3> QED
        BY <1>1, <1>2, <1>3, <1>11, <2>1, <2>2, <2>3, <3>1
    <2>4. CASE ~(At(ss, mid(v)).base <= o)
      <3>1. next(v) = down(v) /\ o < At(ss, mid(v)).base
        BY <1>1, <2>2, <2>4
      <3> HIDE DEF next
      <3>2. /\ down(v) \in D /\ down(v).left = v.left /\ down(v).right = mid(v) - 1
            /\ down(v).result = v.result
        BY <1>2, <2>1
      <3>3. /\ v.result = v.left - 1 /\ (v.result >= 1 => At(ss, v.result).base <= o)
            /\ v.left \in Nat \ {0} /\ v.right \in Nat /\ v.result \in Nat
        BY <1>3, <1>11
      <3>4. mid(v) - 1 + 1 = mid(v) /\ v.left <= mid(v) - 1 + 1 /\ mid(v) - 1 <= K
        BY <1>1, <2>1, <2>2, <3>3
      <3> QED
        BY <3>1, <3>2, <3>3, <3>4
    <2> QED
      BY <2>3, <2>4
  <1>12. PICK v \in I : v.left > v.right /\ search[first] = v.result
    <2>1. I \subseteq L.D /\ \A v \in I : ~L.stop[v] => L.step[v] \in I
      BY <1>11, Zenon
    <2>2. \E v \in I : L.stop[v] /\ search[first] = L.value[v]
      <3> HIDE DEF L, left, I, first
      <3> QED
        BY <1>4, <1>9, <1>10, <2>1, SearchEnds
    <2> QED
      BY <2>2, Zenon
  <1>13. v.result \in 1 .. K /\ At(ss, v.result).base <= o
         /\ (v.result < K => o < At(ss, v.result + 1).base)
    <2>1. v.result = v.right /\ v.right \in Nat /\ v.right <= K
      BY <1>3, <1>12
    <2>2. v.right # 0
      BY <1>1, <1>12, <2>1
    <2> QED
      BY <1>1, <1>12, <2>1, <2>2
  <1> QED
    BY <1>1, <1>8, <1>12, <1>13

\* The offsets of a header.
LEMMA HeaderBases ==
    ASSUME NEW H, Headers(H), NEW f \in Files(H), NEW p \in Starts(f)
    PROVE  /\ p \in Nat /\ p < Len(f) /\ Cell(f, p) \in H
           /\ Cell(f, p).base \in Nat /\ Cell(f, p).n \in Nat \ {0}
           /\ LastOffset(Cell(f, p)) \in Nat /\ Cell(f, p).base <= LastOffset(Cell(f, p))
  <1>1. p \in Nat /\ p < Len(f) /\ Cell(f, p) \in H
    BY BoundaryTypes
  <1> QED
    BY <1>1 DEF Headers, LastOffset

\* OffsetIndex.Lookup returns the beginning of the file or the position of a batch
\* that begins at or below offset o.
LEMMA IndexFound ==
    ASSUME NEW H, Headers(H), NEW seg \in GoodSegments(H), NEW o \in Nat
    PROVE  \/ Lookup(seg, o) = 0
           \/ /\ Lookup(seg, o) \in Starts(seg.file)
              /\ Cell(seg.file, Lookup(seg, o)).base <= o
  <1> DEFINE K == Len(seg.index)
             rel == o - seg.base
             D == SearchVars
             entry(i) == seg.index[i].rel
             mid(v) == v.left + (v.right - v.left) \div 2
             up(v) == [v EXCEPT !.left = mid(v) + 1, !.result = mid(v)]
             down(v) == [v EXCEPT !.right = mid(v) - 1]
             next(v) == IF entry(mid(v)) < rel THEN up(v) ELSE down(v)
             done(v) == v.left > v.right \/ entry(mid(v)) = rel
             found(v) == IF v.left > v.right THEN v.result ELSE mid(v)
             L == [D |-> D,
                   stop |-> [v \in D |-> done(v)],
                   value |-> [v \in D |-> found(v)],
                   step |-> [v \in D |-> next(v)]]
             left == [v \in D |-> IF v.left <= v.right THEN v.right + 1 - v.left ELSE 0]
             F(g) == [v \in D |-> IF v.left > v.right THEN v.result
                                  ELSE IF entry(mid(v)) = rel THEN mid(v)
                                  ELSE g[next(v)]]
             search == CHOOSE g : g = F(g)
             first == [left |-> 1, right |-> K, result |-> 0]
  <1>1. /\ K \in Nat /\ DOMAIN seg.index = 1 .. K /\ seg.base \in Nat /\ rel \in Int
        /\ \A i \in 1 .. K : /\ entry(i) \in Nat
                             /\ seg.index[i].pos \in Starts(seg.file)
                             /\ entry(i) = Cell(seg.file, seg.index[i].pos).base - seg.base
    BY GoodFields, TypedFields DEF IndexRight
  <1>2. ASSUME NEW v \in D, v.left <= v.right
        PROVE  /\ mid(v) \in v.left .. v.right
               /\ up(v) \in D /\ up(v).left = mid(v) + 1 /\ up(v).right = v.right
               /\ up(v).result = mid(v)
               /\ down(v) \in D /\ down(v).left = v.left /\ down(v).right = mid(v) - 1
               /\ down(v).result = v.result
               /\ next(v) = up(v) \/ next(v) = down(v)
    <2>1. v.left \in Nat \ {0} /\ v.right \in Nat /\ v.result \in Nat
      BY DEF SearchVars
    <2>2. mid(v) \in v.left .. v.right
      BY <1>2, <2>1
    <2> DEFINE m == mid(v)
    <2>3. m \in Nat \ {0} /\ m - 1 \in Nat /\ m + 1 \in Nat \ {0}
      BY <2>1, <2>2
    <2> HIDE DEF m
    <2>4. /\ [v EXCEPT !.left = m + 1, !.result = m] \in D
          /\ [v EXCEPT !.left = m + 1, !.result = m].left = m + 1
          /\ [v EXCEPT !.left = m + 1, !.result = m].right = v.right
          /\ [v EXCEPT !.left = m + 1, !.result = m].result = m
      BY <2>3, Zenon DEF SearchVars
    <2>5. /\ [v EXCEPT !.right = m - 1] \in D
          /\ [v EXCEPT !.right = m - 1].left = v.left
          /\ [v EXCEPT !.right = m - 1].right = m - 1
          /\ [v EXCEPT !.right = m - 1].result = v.result
      BY <2>3 DEF SearchVars
    <2> QED
      BY <2>2, <2>4, <2>5 DEF m
  <1>3. \A v \in D : v.left \in Nat \ {0} /\ v.right \in Nat /\ v.result \in Nat
    BY DEF SearchVars
  <1> HIDE DEF up, down, mid, entry, rel
  <1>4. Loop(L, left)
    <2>1. left \in [L.D -> Nat]
      BY <1>3
    <2> SUFFICES ASSUME NEW v \in D, ~done(v)
                 PROVE  L.step[v] \in L.D /\ left[L.step[v]] < left[v]
      BY <2>1, Zenon DEF Loop
    <2>2. v.left <= v.right
      BY <1>3
    <2>3. CASE next(v) = up(v)
      BY <1>2, <1>3, <2>2, <2>3
    <2>4. CASE next(v) = down(v)
      BY <1>2, <1>3, <2>2, <2>4
    <2> QED
      BY <1>2, <2>2, <2>3, <2>4
  <1>5. PICK g : Searches(g, L)
    <2> HIDE DEF L, left
    <2> QED
      BY <1>4, SearchExists
  <1>6. g = F(g)
    BY <1>5, Zenon DEF Searches
  <1>7. search = F(search)
    <2> HIDE DEF F
    <2> QED
      BY <1>6
  <1> DEFINE i == search[first]
  <1>8. Lookup(seg, o) = IF i = 0 THEN 0 ELSE seg.index[i].pos
    BY DEF Lookup, search, F, next, up, down, mid, entry, rel, SearchVars
  <1> HIDE DEF search
  <1>9. Searches(search, L)
    BY <1>7, Zenon DEF Searches
  <1> DEFINE Below(j) == j = 0 \/ (j \in 1 .. K /\ entry(j) <= rel)
             I == {v \in D : v.right <= K /\ Below(v.result)}
  <1>10. first \in I
    BY <1>1 DEF SearchVars
  <1>11. ASSUME NEW v \in I, ~done(v)
         PROVE  next(v) \in I
    <2>1. v \in D /\ v.left <= v.right /\ mid(v) \in v.left .. v.right /\ v.right <= K
      BY <1>2, <1>3, <1>11
    <2>2. mid(v) \in 1 .. K /\ mid(v) \in Nat
      BY <1>1, <1>3, <2>1
    <2>3. CASE entry(mid(v)) < rel
      <3>1. next(v) = up(v) /\ entry(mid(v)) <= rel
        BY <1>1, <2>2, <2>3
      <3> HIDE DEF next
      <3> QED
        BY <1>1, <1>2, <1>3, <1>11, <2>1, <2>2, <3>1
    <2>4. CASE ~(entry(mid(v)) < rel)
      <3>1. next(v) = down(v)
        BY <2>4
      <3> HIDE DEF next
      <3> QED
        BY <1>1, <1>2, <1>3, <1>11, <2>1, <2>2, <3>1
    <2> QED
      BY <2>3, <2>4
  <1>12. PICK v \in I : done(v) /\ i = found(v)
    <2>1. I \subseteq L.D /\ \A v \in I : ~L.stop[v] => L.step[v] \in I
      BY <1>11, Zenon
    <2>2. \E v \in I : L.stop[v] /\ search[first] = L.value[v]
      <3> HIDE DEF L, left, I, first
      <3> QED
        BY <1>4, <1>9, <1>10, <2>1, SearchEnds
    <2> QED
      BY <2>2, Zenon
  <1>13. Below(i)
    <2>1. CASE v.left > v.right
      BY <1>12, <2>1
    <2>2. CASE ~(v.left > v.right)
      <3>1. v \in D /\ v.left <= v.right /\ mid(v) \in v.left .. v.right /\ v.right <= K
        BY <1>2, <1>3, <1>12, <2>2
      <3>2. i = mid(v) /\ entry(mid(v)) = rel
        BY <1>12, <2>2
      <3>3. mid(v) \in 1 .. K
        BY <1>1, <1>3, <3>1
      <3> QED
        BY <1>1, <3>2, <3>3
    <2> QED
      BY <2>1, <2>2
  <1> HIDE DEF i
  <1>14. CASE i = 0
    BY <1>8, <1>14
  <1>15. CASE i # 0
    <2>1. i \in 1 .. K /\ entry(i) <= rel /\ Lookup(seg, o) = seg.index[i].pos
      BY <1>8, <1>13, <1>15
    <2> DEFINE p == seg.index[i].pos
    <2>2. p \in Starts(seg.file) /\ Cell(seg.file, p).base - seg.base <= rel
      BY <1>1, <2>1
    <2>3. Cell(seg.file, p).base \in Int
      BY HeaderBases, GoodFields, <2>2
    <2> HIDE DEF p
    <2>4. Cell(seg.file, p).base <= o
      BY <1>1, <2>2, <2>3 DEF rel
    <2> QED
      BY <2>1, <2>2, <2>4 DEF p
  <1> QED
    BY <1>14, <1>15

(***************************************************************************)
(* The region of one segment.                                              *)
(***************************************************************************)

SeekVars == [pos : Nat, pre : Nat \cup {-1}]

\* The first loop of FindRawRegion finds, in a segment that holds offset o, the
\* batch that holds it or the one before.
LEMMA StartFound ==
    ASSUME NEW H, Headers(H), NEW seg \in GoodSegments(H), NEW o \in Nat,
           seg.base <= o, o < SegmentNextOffset(seg)
    PROVE  LET s == RegionStart(seg, o) IN
           /\ s \in Starts(seg.file)
           /\ Cell(seg.file, s).base <= o
           /\ LastOffset(Cell(seg.file, s)) >= o - 1
  <1> DEFINE f == seg.file
             D == SeekVars
             next(v) == [pos |-> v.pos + Total(Cell(f, v.pos)), pre |-> v.pos]
             done(v) == \/ ~HeaderAt(f, v.pos)
                        \/ Cell(f, v.pos).base >= o
                        \/ LastOffset(Cell(f, v.pos)) >= o
             found(v) == IF ~HeaderAt(f, v.pos) THEN v.pre
                         ELSE IF Cell(f, v.pos).base >= o
                              THEN IF v.pre >= 0 THEN v.pre ELSE v.pos
                         ELSE v.pos
             L == [D |-> D,
                   stop |-> [v \in D |-> done(v)],
                   value |-> [v \in D |-> found(v)],
                   step |-> [v \in D |-> next(v)]]
             left == [v \in D |-> IF v.pos <= Len(f) THEN Len(f) - v.pos ELSE 0]
             F(g) == [v \in D |->
                        IF ~HeaderAt(f, v.pos) THEN v.pre
                        ELSE IF Cell(f, v.pos).base >= o
                             THEN IF v.pre >= 0 THEN v.pre ELSE v.pos
                        ELSE IF LastOffset(Cell(f, v.pos)) >= o THEN v.pos
                        ELSE g[next(v)]]
             seek == CHOOSE g : g = F(g)
             from == Lookup(seg, o)
             first == [pos |-> from, pre |-> -1]
  <1>1. /\ f \in Files(H) /\ Len(f) \in Nat /\ Whole(f) /\ Ordered(f, seg.base)
        /\ seg.base \in Nat
    BY GoodFields
  <1>2. \A v \in D : v.pos \in Nat /\ (v.pre \in Nat \/ v.pre = -1)
    BY DEF SeekVars
  <1>3. ASSUME NEW v \in D, HeaderAt(f, v.pos)
        PROVE  /\ v.pos \in Starts(f) /\ next(v) \in D
               /\ next(v).pos = v.pos + Total(Cell(f, v.pos)) /\ next(v).pre = v.pos
               /\ v.pos < Len(f) /\ v.pos < next(v).pos /\ next(v).pos \in Nat
    BY <1>1, <1>2, <1>3, CellTypes DEF SeekVars, HeaderAt
  <1> HIDE DEF next
  <1>4. Loop(L, left)
    <2>1. left \in [L.D -> Nat]
      BY <1>1, <1>2
    <2> SUFFICES ASSUME NEW v \in D, ~done(v)
                 PROVE  L.step[v] \in L.D /\ left[L.step[v]] < left[v]
      BY <2>1, Zenon DEF Loop
    <2> QED
      BY <1>1, <1>2, <1>3
  <1>5. PICK g : Searches(g, L)
    <2> HIDE DEF L, left
    <2> QED
      BY <1>4, SearchExists
  <1>6. g = F(g)
    BY <1>5 DEF Searches
  <1>7. seek = F(seek)
    <2> HIDE DEF F
    <2> QED
      BY <1>6
  <1>8. RegionStart(seg, o) = seek[first]
    BY DEF RegionStart, seek, F, next, SeekVars
  <1> HIDE DEF seek
  <1>9. Searches(seek, L)
    BY <1>7 DEF Searches
  <1> DEFINE Base(p) == Cell(f, p).base
             End(p) == LastOffset(Cell(f, p))
             After(p) == p + Total(Cell(f, p))
             I == {v \in D : \/ /\ v.pre = -1 /\ v.pos \in Starts(f) /\ Base(v.pos) <= o
                             \/ /\ v.pre \in Starts(f) /\ v.pos = After(v.pre)
                                /\ End(v.pre) < o}
  <1>10. \A p \in Starts(f) : /\ p \in Nat /\ p < Len(f) /\ HeaderAt(f, p)
                              /\ Base(p) \in Nat /\ End(p) \in Nat /\ Base(p) <= End(p)
                              /\ After(p) \in Boundaries(f) /\ After(p) \in Nat
    BY <1>1, HeaderBases, BoundaryTypes, WholeRound, Zenon
  <1>11. \A p \in Starts(f) : /\ After(p) \in Starts(f) => Base(After(p)) = End(p) + 1
                              /\ After(p) = Len(f) => End(p) + 1 = SegmentNextOffset(seg)
    BY <1>1, SegmentEnd DEF Ordered
  <1>12. first \in I
    <2>1. f # <<>>
      BY <1>1, SegmentEnd
    <2>2. 0 \in Starts(f) /\ Base(0) = seg.base
      <3>1. Len(f) # 0
        BY <1>1, <2>1 DEF Files
      <3> QED
        BY <1>1, <2>1, <3>1 DEF Whole, Boundaries, Ordered
    <2>3. from \in Starts(f) /\ Base(from) <= o
      BY <2>2, IndexFound
    <2> HIDE DEF from
    <2> QED
      BY <1>10, <2>3 DEF SeekVars
  <1> HIDE DEF Base, End, After
  <1>13. ASSUME NEW v \in I, ~done(v)
         PROVE  next(v) \in I
    <2>1. v \in D /\ HeaderAt(f, v.pos) /\ ~(End(v.pos) >= o)
      BY <1>13 DEF End
    <2>2. /\ next(v) \in D /\ next(v).pre \in Starts(f) /\ next(v).pre = v.pos
          /\ next(v).pos = After(v.pos)
      BY <1>3, <2>1 DEF After
    <2>3. End(v.pos) < o
      BY <1>10, <2>1, <2>2
    <2> QED
      BY <2>2, <2>3
  <1>14. PICK v \in I : done(v) /\ seek[first] = found(v)
    <2>1. I \subseteq L.D /\ \A v \in I : ~L.stop[v] => L.step[v] \in I
      BY <1>13
    <2>2. \E v \in I : L.stop[v] /\ seek[first] = L.value[v]
      <3> HIDE DEF L, left, I, first
      <3> QED
        BY <1>4, <1>9, <1>12, <2>1, SearchEnds
    <2> QED
      BY <2>2
  <1> DEFINE Right(s) == s \in Starts(f) /\ Base(s) <= o /\ End(s) >= o - 1
  <1>15. Right(found(v))
    <2>1. CASE v.pre = -1 /\ v.pos \in Starts(f) /\ Base(v.pos) <= o
      <3>1. HeaderAt(f, v.pos) /\ found(v) = v.pos
        BY <1>10, <2>1
      <3>2. Base(v.pos) >= o \/ End(v.pos) >= o
        BY <1>14, <3>1 DEF Base, End
      <3> HIDE DEF found
      <3> QED
        BY <1>10, <2>1, <3>1, <3>2
    <2>2. CASE v.pre \in Starts(f) /\ v.pos = After(v.pre) /\ End(v.pre) < o
      <3>1. v.pos \in Starts(f)
        <4>1. v.pos # Len(f)
          BY <1>10, <1>11, <2>2
        <4> QED
          BY <1>10, <2>2, <4>1 DEF Boundaries
      <3>2. HeaderAt(f, v.pos) /\ Base(v.pos) = End(v.pre) + 1
        BY <1>10, <1>11, <2>2, <3>1
      <3>3. CASE Base(v.pos) >= o
        <4>1. found(v) = v.pre
          BY <1>10, <2>2, <3>2, <3>3 DEF Base
        <4> HIDE DEF found
        <4> QED
          BY <1>10, <2>2, <3>2, <3>3, <4>1
      <3>4. CASE ~(Base(v.pos) >= o)
        <4>1. found(v) = v.pos /\ End(v.pos) >= o
          BY <1>14, <3>2, <3>4 DEF Base, End
        <4> HIDE DEF found
        <4> QED
          BY <1>10, <3>1, <3>4, <4>1
      <3> QED
        BY <3>3, <3>4
    <2> QED
      BY <2>1, <2>2
  <1> HIDE DEF found
  <1> QED
    BY <1>8, <1>14, <1>15 DEF Base, End

\* A whole file from batch to batch.
After(f, p) == p + Total(Cell(f, p))

LEMMA Layout ==
    ASSUME NEW H, Headers(H), NEW f \in Files(H), Whole(f)
    PROVE  /\ Len(f) \in Nat
           /\ \A p \in Boundaries(f) : p \in Nat /\ p <= Len(f) /\ (p \in Starts(f) \/ p = Len(f))
           /\ \A p \in Starts(f) : /\ p \in Boundaries(f) /\ HeaderAt(f, p) /\ p < Len(f)
                                   /\ LastOffset(Cell(f, p)) \in Nat
                                   /\ After(f, p) \in Boundaries(f) /\ p < After(f, p)
                                   /\ \A e \in Boundaries(f) : p < e => After(f, p) <= e
           /\ ~HeaderAt(f, Len(f))
  <1>1. Len(f) \in Nat /\ ~HeaderAt(f, Len(f))
    BY DEF Files, HeaderAt
  <1>2. \A p \in Boundaries(f) : p \in Nat /\ p <= Len(f) /\ (p \in Starts(f) \/ p = Len(f))
    BY <1>1, BoundaryTypes DEF Boundaries
  <1>3. ASSUME NEW p \in Starts(f)
        PROVE  /\ p \in Boundaries(f) /\ HeaderAt(f, p) /\ p < Len(f)
               /\ LastOffset(Cell(f, p)) \in Nat
               /\ After(f, p) \in Boundaries(f) /\ p < After(f, p)
               /\ After(f, p) <= Len(f)
    BY <1>3, BoundaryTypes, WholeRound, HeaderBases, Zenon DEF Boundaries, After
  <1>4. ASSUME NEW p \in Starts(f), NEW e \in Boundaries(f), p < e
        PROVE  After(f, p) <= e
    <2>1. CASE e \in Starts(f)
      BY <1>4, <2>1 DEF Whole, After
    <2>2. CASE e = Len(f)
      BY <1>3, <2>2
    <2> QED
      BY <1>2, <2>1, <2>2
  <1> QED
    BY <1>1, <1>2, <1>3, <1>4

\* Its second loop ends behind a whole batch, and at the end of the file if there
\* is no byte limit.
LEMMA EndFound ==
    ASSUME NEW H, Headers(H), NEW f \in Files(H), Whole(f), NEW s \in Starts(f),
           NEW m \in Nat
    PROVE  LET e == RegionEnd(f, s, m) IN
           /\ e \in Boundaries(f)
           /\ s < e
           /\ m = 0 => e = Len(f)
  <1> DEFINE next(p) == p + Total(Cell(f, p))
             over(p) == m > 0 /\ next(p) - s > m
             done(p) == ~HeaderAt(f, p) \/ over(p)
             found(p) == IF ~HeaderAt(f, p) THEN p ELSE IF p > s THEN p ELSE next(p)
             L == [D |-> Nat,
                   stop |-> [p \in Nat |-> done(p)],
                   value |-> [p \in Nat |-> found(p)],
                   step |-> [p \in Nat |-> next(p)]]
             left == [p \in Nat |-> IF p <= Len(f) THEN Len(f) - p ELSE 0]
             F(g) == [p \in Nat |-> IF ~HeaderAt(f, p) THEN p
                                    ELSE IF over(p) THEN (IF p > s THEN p ELSE next(p))
                                    ELSE g[next(p)]]
             fill == CHOOSE g : g = F(g)
  <1>1. Len(f) \in Nat
    BY DEF Files
  <1>2. ASSUME NEW p \in Nat, HeaderAt(f, p)
        PROVE  p \in Starts(f) /\ next(p) \in Nat /\ p < next(p) /\ p < Len(f)
    BY <1>2, CellTypes DEF HeaderAt
  <1> HIDE DEF next
  <1>3. Loop(L, left)
    <2>1. left \in [L.D -> Nat]
      BY <1>1
    <2> SUFFICES ASSUME NEW p \in Nat, ~done(p)
                 PROVE  L.step[p] \in L.D /\ left[L.step[p]] < left[p]
      BY <2>1, Zenon DEF Loop
    <2> QED
      BY <1>1, <1>2
  <1>4. PICK g : Searches(g, L)
    <2> HIDE DEF L, left
    <2> QED
      BY <1>3, SearchExists
  <1>5. g = F(g)
    BY <1>4, Zenon DEF Searches
  <1>6. fill = F(fill)
    <2> HIDE DEF F
    <2> QED
      BY <1>5
  <1>7. RegionEnd(f, s, m) = fill[s]
    BY DEF RegionEnd, next
  <1> HIDE DEF fill
  <1>8. Searches(fill, L)
    BY <1>6, Zenon DEF Searches
  <1> DEFINE I == {p \in Boundaries(f) : s <= p}
  <1>9. /\ s \in Nat /\ s < Len(f) /\ s \in Boundaries(f)
        /\ \A p \in Boundaries(f) : p \in Nat /\ (p \in Starts(f) \/ p = Len(f))
        /\ \A p \in Starts(f) : next(p) \in Boundaries(f) /\ p < next(p) /\ HeaderAt(f, p)
    BY Layout DEF next, After
  <1>10. ASSUME NEW p \in I, ~done(p)
         PROVE  next(p) \in I
    <2>1. p \in Starts(f) /\ p \in Nat /\ s <= p
      BY <1>2, <1>9, <1>10
    <2>2. next(p) \in Boundaries(f) /\ p < next(p) /\ next(p) \in Nat
      BY <1>9, <2>1, Zenon
    <2>3. s <= next(p)
      BY <1>9, <2>1, <2>2
    <2> QED
      BY <2>2, <2>3
  <1>11. PICK p \in I : done(p) /\ fill[s] = found(p)
    <2>0. I \subseteq Nat /\ s <= s
      <3>1. I \subseteq Boundaries(f) /\ Boundaries(f) \subseteq Nat
        BY <1>9, Zenon
      <3> HIDE DEF I
      <3> QED
        BY <1>9, <3>1
    <2>a. s \in I
      BY <1>9, <2>0, Zenon
    <2>1. I \subseteq L.D /\ s \in I /\ \A p \in I : ~L.stop[p] => L.step[p] \in I
      <3> HIDE DEF I, done
      <3> QED
        BY <1>10, <2>0, <2>a
    <2>2. \E p \in I : L.stop[p] /\ fill[s] = L.value[p]
      <3> HIDE DEF L, left, I
      <3> QED
        BY <1>3, <1>8, <2>1, SearchEnds
    <2> QED
      BY <1>9, <2>2, Zenon
  <1>12. CASE ~HeaderAt(f, p)
    <2>1. p = Len(f) /\ found(p) = p
      BY <1>9, <1>12 DEF Boundaries
    <2> QED
      BY <1>7, <1>9, <1>11, <2>1
  <1>13. CASE HeaderAt(f, p)
    <2>1. over(p) /\ m # 0 /\ p \in Starts(f)
      BY <1>2, <1>9, <1>11, <1>13
    <2>2. found(p) \in Boundaries(f) /\ s < found(p)
      BY <1>2, <1>9, <1>11, <1>13, <2>1
    <2> QED
      BY <1>7, <1>11, <2>1, <2>2
  <1> QED
    BY <1>12, <1>13

\* Region r is the size cells of segment i's file f that begin with the batch at s
\* and end with one.
RegionOf(r, f, i, s, size) ==
    /\ r = [seg |-> i, pos |-> s, size |-> size]
    /\ size \in Nat \ {0} /\ s + size \in Boundaries(f)

\* Region c is what is left of it below offset v.
Clipped(c, f, i, s, size, v) ==
    /\ c.seg = i /\ c.pos = s /\ c.size \in Nat
    /\ s + c.size \in Boundaries(f)
    /\ s + c.size <= s + size
    /\ \A q \in Starts(f) : s <= q /\ q < s + c.size => LastOffset(Cell(f, q)) < v
    /\ \/ c.size = size
       \/ /\ s + c.size \in Starts(f)
          /\ LastOffset(Cell(f, s + c.size)) >= v

\* The loop of ClipRegionToOffset ends at the first batch of the region that does
\* not end below v, or at the end of the region.
LEMMA ClipFound ==
    ASSUME NEW H, Headers(H), NEW l, NEW i, NEW f \in Files(H),
           f = At(l.segments, i).file, Whole(f),
           NEW s \in Starts(f), NEW size, NEW r, RegionOf(r, f, i, s, size), NEW v \in Nat
    PROVE  Clipped(ClipRegionToOffset(l, r, v), f, i, s, size, v)
  <1> DEFINE end == s + size
             next(p) == p + Total(Cell(f, p))
             done(p) == \/ p >= end \/ ~HeaderAt(f, p)
                        \/ LastOffset(Cell(f, p)) >= v \/ next(p) > end
             L == [D |-> Nat,
                   stop |-> [p \in Nat |-> done(p)],
                   value |-> [p \in Nat |-> p],
                   step |-> [p \in Nat |-> next(p)]]
             left == [p \in Nat |-> IF p <= Len(f) THEN Len(f) - p ELSE 0]
             F(g) == [p \in Nat |-> IF p >= end \/ ~HeaderAt(f, p) THEN p
                                    ELSE IF LastOffset(Cell(f, p)) >= v \/ next(p) > end THEN p
                                    ELSE g[next(p)]]
             clip == CHOOSE g : g = F(g)
  <1>0. /\ r = [seg |-> i, pos |-> s, size |-> size]
        /\ size \in Nat \ {0} /\ s + size \in Boundaries(f)
    BY DEF RegionOf
  <1>1. Len(f) \in Nat
    BY DEF Files
  <1>2. ASSUME NEW p \in Nat, HeaderAt(f, p)
        PROVE  p \in Starts(f) /\ next(p) \in Nat /\ p < next(p) /\ p < Len(f)
    BY <1>2, CellTypes DEF HeaderAt
  <1> HIDE DEF next
  <1>3. Loop(L, left)
    <2>1. left \in [L.D -> Nat]
      BY <1>1
    <2> SUFFICES ASSUME NEW p \in Nat, ~done(p)
                 PROVE  L.step[p] \in L.D /\ left[L.step[p]] < left[p]
      BY <2>1 DEF Loop
    <2> QED
      BY <1>1, <1>2
  <1>4. PICK g : Searches(g, L)
    <2> HIDE DEF L, left
    <2> QED
      BY <1>3, SearchExists
  <1>5. g = F(g)
    BY <1>4, Zenon DEF Searches
  <1>6. clip = F(clip)
    <2> HIDE DEF F
    <2> QED
      BY <1>5
  <1>7. ClipRegionToOffset(l, r, v) = [r EXCEPT !.size = clip[s] - s]
    BY <1>0 DEF ClipRegionToOffset, next, At
  <1> HIDE DEF clip
  <1>8. Searches(clip, L)
    BY <1>6 DEF Searches
  <1> DEFINE Below(p) == \A q \in Starts(f) : s <= q /\ q < p => LastOffset(Cell(f, q)) < v
             I == {p \in Boundaries(f) : s <= p /\ p <= end /\ Below(p)}
  <1>9. /\ s \in Nat /\ end \in Nat /\ s < end /\ s \in Boundaries(f) /\ end \in Boundaries(f)
        /\ \A p \in Boundaries(f) : p \in Nat /\ p <= Len(f) /\ (p \in Starts(f) \/ p = Len(f))
        /\ \A p \in Starts(f) : /\ p \in Nat /\ next(p) \in Boundaries(f) /\ p < next(p)
                                /\ HeaderAt(f, p) /\ LastOffset(Cell(f, p)) \in Nat
                                /\ \A e \in Boundaries(f) : p < e => next(p) <= e
        /\ \A p \in Starts(f) : p \in Boundaries(f)
    BY <1>0, Layout DEF next, After
  <1> HIDE DEF end
  <1>10. ASSUME NEW p \in I, p < end
         PROVE  p \in Starts(f) /\ next(p) <= end
    <2>1. p \in Boundaries(f) /\ p \in Nat /\ p # Len(f)
      BY <1>1, <1>9, <1>10
    <2> QED
      BY <1>9, <1>10, <2>1
  <1>11. ASSUME NEW p \in I, ~done(p)
         PROVE  next(p) \in I
    <2>1. p \in Nat /\ s <= p /\ p < end /\ Below(p)
      BY <1>9, <1>11
    <2>a. p \in Starts(f) /\ next(p) <= end
      BY <1>10, <1>11, <2>1
    <2>2. next(p) \in Boundaries(f) /\ next(p) \in Nat /\ p < next(p)
      BY <1>9, <2>a, Zenon
    <2>b. s <= next(p)
      BY <1>9, <2>1, <2>2
    <2>3. LastOffset(Cell(f, p)) < v
      <3>1. LastOffset(Cell(f, p)) \in Nat /\ ~(LastOffset(Cell(f, p)) >= v)
        BY <1>9, <1>11, <2>a
      <3> QED
        BY <3>1
    <2>4. ASSUME NEW q \in Starts(f), s <= q, q < next(p)
          PROVE  LastOffset(Cell(f, q)) < v
      <3>1. q \in Nat /\ q \in Boundaries(f)
        BY <1>9, <2>4
      <3>2. ~(p < q)
        BY <1>9, <2>2, <2>4, <2>a, <3>1
      <3>3. CASE q = p
        BY <2>3, <3>3
      <3>4. CASE q < p
        BY <2>1, <2>4, <3>4
      <3> QED
        BY <2>1, <3>1, <3>2, <3>3, <3>4
    <2>5. Below(next(p))
      BY <2>4
    <2> HIDE DEF Below
    <2> QED
      BY <2>2, <2>5, <2>a, <2>b
  <1>12. PICK p \in I : done(p) /\ clip[s] = p
    <2>0. I \subseteq Nat /\ s <= s /\ s <= end
      <3>1. I \subseteq Boundaries(f) /\ Boundaries(f) \subseteq Nat
        BY <1>9, Zenon
      <3> HIDE DEF I
      <3> QED
        BY <1>9, <3>1
    <2>a. Below(s)
      BY <1>9
    <2>b. s \in I
      BY <1>9, <2>0, <2>a, Zenon
    <2>1. I \subseteq L.D /\ s \in I /\ \A p \in I : ~L.stop[p] => L.step[p] \in I
      <3> HIDE DEF I, done
      <3> QED
        BY <1>11, <2>0, <2>b
    <2>2. \E p \in I : L.stop[p] /\ clip[s] = L.value[p]
      <3> HIDE DEF L, left, I
      <3> QED
        BY <1>3, <1>8, <2>1, SearchEnds
    <2> QED
      BY <1>9, <2>2
  <1>13. p = end \/ (p \in Starts(f) /\ LastOffset(Cell(f, p)) >= v)
    <2>1. CASE p < end
      <3>1. p \in Starts(f) /\ next(p) <= end /\ p \in Nat /\ next(p) \in Nat
        BY <1>9, <1>10, <1>12, <2>1, Zenon
      <3>2. LastOffset(Cell(f, p)) >= v
        BY <1>9, <1>12, <2>1, <3>1
      <3> QED
        BY <3>1, <3>2
    <2>2. CASE ~(p < end)
      BY <1>9, <1>12, <2>2
    <2> QED
      BY <2>1, <2>2
  <1> DEFINE c == ClipRegionToOffset(l, r, v)
  <1>14. c.seg = i /\ c.pos = s /\ c.size = p - s
    BY <1>0, <1>7, <1>12
  <1>15. c.size \in Nat /\ s + c.size = p /\ (p = end => c.size = size)
    <2>1. p \in Nat /\ s <= p /\ s \in Nat
      BY <1>9, <1>12
    <2>2. size \in Nat /\ end = s + size
      BY <1>0 DEF end
    <2> HIDE DEF c
    <2> QED
      BY <1>14, <2>1, <2>2
  <1> HIDE DEF c
  <1> QED
    BY <1>12, <1>13, <1>14, <1>15 DEF c, end, Clipped

(***************************************************************************)
(* What is sent of a file.                                                 *)
(***************************************************************************)

\* g is f from position s to position c.
Part(g, f, s, c) == g = SubSeq(f, s + 1, c)

LEMMA PartCells ==
    ASSUME NEW H, NEW f \in Files(H), NEW s \in Nat, NEW c \in Nat, s < c, c <= Len(f),
           NEW g, Part(g, f, s, c)
    PROVE  /\ g \in Files(H)
           /\ Len(g) = c - s
           /\ \A p \in 0 .. c - s - 1 : Cell(g, p) = Cell(f, p + s)
  <1>1. f \in Seq(H \cup {Body}) /\ Len(f) \in Nat
    BY DEF Files
  <1>2. s + 1 \in 1 .. Len(f) /\ c \in 1 .. Len(f) /\ s + 1 <= c
    BY <1>1
  <1>3. /\ g \in Seq(H \cup {Body})
        /\ Len(g) = c - (s + 1) + 1
        /\ \A i \in 1 .. c - (s + 1) + 1 : g[i] = f[(s + 1) + i - 1]
    BY <1>1, <1>2, SeqPart DEF Part
  <1>4. ASSUME NEW p \in 0 .. c - s - 1
        PROVE  g[p + 1] = f[p + s + 1]
    <2>1. p + 1 \in 1 .. c - (s + 1) + 1 /\ (s + 1) + (p + 1) - 1 = p + s + 1
      OBVIOUS
    <2> QED
      BY <1>3, <2>1
  <1> QED
    BY <1>3, <1>4 DEF Files, Cell

\* A file between two boundaries is a file of whole batches.
LEMMA PartWhole ==
    ASSUME NEW H, Headers(H), NEW f \in Files(H), Whole(f), NEW base, Ordered(f, base),
           NEW s \in Starts(f), NEW c \in Boundaries(f), s < c,
           NEW g, Part(g, f, s, c)
    PROVE  /\ g \in Files(H) /\ Whole(g) /\ Ordered(g, Cell(f, s).base)
           /\ \A p : p \in Starts(g) <=> p \in Nat /\ p + s \in Starts(f) /\ p + s < c
           /\ \A p \in Starts(g) : Cell(g, p) = Cell(f, p + s)
           /\ 0 \in Starts(g) /\ Cell(g, 0) = Cell(f, s)
  <1>1. /\ s \in Nat /\ c \in Nat /\ c <= Len(f) /\ Len(f) \in Nat
        /\ \A p \in Starts(f) : p \in Nat /\ p < Len(f)
    BY Layout
  <1>2. /\ g \in Files(H) /\ Len(g) = c - s
        /\ \A p \in 0 .. c - s - 1 : Cell(g, p) = Cell(f, p + s)
    BY <1>1, PartCells
  <1>3. ASSUME NEW p
        PROVE  p \in Starts(g) <=> p \in Nat /\ p + s \in Starts(f) /\ p + s < c
    <2>1. p \in Starts(g) <=> p \in 0 .. c - s - 1 /\ Cell(g, p).n > 0
      BY <1>2 DEF Starts
    <2>2. ASSUME p \in 0 .. c - s - 1
          PROVE  /\ p \in Nat /\ p + s < c /\ Cell(g, p) = Cell(f, p + s)
                 /\ p + s \in 0 .. Len(f) - 1
      BY <1>1, <1>2, <2>2
    <2>3. ASSUME p \in Nat, p + s < c
          PROVE  p \in 0 .. c - s - 1
      BY <1>1, <2>3
    <2>4. p + s \in Starts(f) <=> p + s \in 0 .. Len(f) - 1 /\ Cell(f, p + s).n > 0
      BY DEF Starts
    <2> QED
      BY <2>1, <2>2, <2>3, <2>4
  <1>4. ASSUME NEW p \in Starts(g)
        PROVE  /\ p \in Nat /\ p + s \in Starts(f) /\ p + s < c
               /\ Cell(g, p) = Cell(f, p + s)
    <2>1. p \in Nat /\ p + s \in Starts(f) /\ p + s < c
      BY <1>3, <1>4
    <2>2. p \in 0 .. c - s - 1
      BY <1>1, <2>1
    <2> QED
      BY <1>2, <2>1, <2>2
  <1>5. 0 \in Starts(g) /\ Cell(g, 0) = Cell(f, s)
    <2>1. 0 + s = s /\ 0 \in 0 .. c - s - 1
      BY <1>1
    <2>2. 0 + s \in Starts(f) /\ 0 + s < c /\ 0 \in Nat
      BY <1>1, <2>1
    <2> QED
      BY <1>2, <1>3, <2>1, <2>2
  <1>6. ASSUME NEW p \in Starts(g)
        PROVE  /\ After(g, p) + s = After(f, p + s) /\ After(g, p) \in Nat
               /\ After(g, p) \in Boundaries(g)
               /\ After(g, p) \in Starts(g) <=> After(f, p + s) < c
    <2>1. /\ p \in Nat /\ p + s \in Starts(f) /\ p + s < c
          /\ Cell(g, p) = Cell(f, p + s)
      BY <1>4
    <2>2. Total(Cell(f, p + s)) \in Nat
      BY <2>1, WholeRound, Zenon
    <2>3. After(g, p) + s = After(f, p + s) /\ After(g, p) \in Nat
      BY <1>1, <2>1, <2>2 DEF After
    <2>4. /\ After(f, p + s) \in Boundaries(f) /\ After(f, p + s) <= c
          /\ After(f, p + s) \in Starts(f) \/ After(f, p + s) = Len(f)
      BY <2>1, Layout
    <2> DEFINE a == After(g, p)
               b == After(f, p + s)
    <2>5. a \in Nat /\ a + s = b /\ b <= c /\ (b \in Starts(f) \/ b = Len(f))
      BY <2>3, <2>4
    <2> HIDE DEF a, b
    <2>6. a \in Starts(g) <=> b < c
      <3>1. b < c => b \in Starts(f)
        BY <1>1, <2>5
      <3> QED
        BY <1>3, <2>5, <3>1
    <2>7. ~(b < c) => a = Len(g)
      BY <1>1, <1>2, <2>5
    <2>8. a \in Boundaries(g)
      BY <2>6, <2>7 DEF Boundaries
    <2> QED
      BY <2>5, <2>6, <2>8 DEF a, b
  <1>7. Whole(g)
    <2>1. 0 \in Boundaries(g)
      BY <1>5 DEF Boundaries
    <2>2. ASSUME NEW p \in Starts(g), NEW q \in Starts(g), p < q
          PROVE  After(g, p) <= q
      <3>1. /\ p \in Nat /\ q \in Nat /\ p + s \in Starts(f) /\ q + s \in Starts(f)
            /\ p + s < q + s
        BY <1>1, <1>4, <2>2
      <3>2. After(f, p + s) <= q + s
        BY <3>1, Layout
      <3> QED
        BY <1>1, <1>6, <3>1, <3>2
    <2> QED
      BY <1>6, <2>1, <2>2 DEF Whole, After
  <1>8. Ordered(g, Cell(f, s).base)
    <2> DEFINE from == Cell(f, s).base
    <2>1. ASSUME NEW p \in Starts(g)
          PROVE  from <= Cell(g, p).base
      <3>1. p \in Nat /\ p + s \in Starts(f) /\ Cell(g, p) = Cell(f, p + s)
        BY <1>4
      <3>2. /\ from \in Nat /\ LastOffset(Cell(f, s)) \in Nat
            /\ from <= LastOffset(Cell(f, s)) /\ Cell(f, p + s).base \in Nat
        BY <3>1, HeaderBases
      <3>3. CASE p = 0
        BY <1>5, <3>2, <3>3
      <3>4. CASE p # 0
        <4>1. s < p + s
          BY <1>1, <3>1, <3>4
        <4>2. LastOffset(Cell(f, s)) < Cell(f, p + s).base
          BY <3>1, <4>1 DEF Ordered
        <4> QED
          BY <3>1, <3>2, <4>2
      <3> QED
        BY <3>3, <3>4
    <2>2. ASSUME NEW p \in Starts(g), After(g, p) \in Starts(g)
          PROVE  Cell(g, After(g, p)).base = LastOffset(Cell(g, p)) + 1
      <3>1. /\ p + s \in Starts(f) /\ Cell(g, p) = Cell(f, p + s)
            /\ After(g, p) + s \in Starts(f)
            /\ Cell(g, After(g, p)) = Cell(f, After(g, p) + s)
        BY <1>4, <2>2
      <3>2. After(g, p) + s = After(f, p + s)
        BY <1>6
      <3>3. After(f, p + s) \in Starts(f)
        BY <3>1, <3>2
      <3>4. Cell(f, After(f, p + s)).base = LastOffset(Cell(f, p + s)) + 1
        BY <3>1, <3>3 DEF Ordered, After
      <3> QED
        BY <3>1, <3>2, <3>4
    <2>3. ASSUME NEW p \in Starts(g), NEW q \in Starts(g), p < q
          PROVE  LastOffset(Cell(g, p)) < Cell(g, q).base
      <3>1. /\ p + s \in Starts(f) /\ Cell(g, p) = Cell(f, p + s)
            /\ q + s \in Starts(f) /\ Cell(g, q) = Cell(f, q + s)
            /\ p + s < q + s
        BY <1>1, <1>4, <2>3
      <3>2. LastOffset(Cell(f, p + s)) < Cell(f, q + s).base
        BY <3>1 DEF Ordered
      <3> QED
        BY <3>1, <3>2
    <2>4. Cell(g, 0).base = from
      BY <1>5
    <2> HIDE DEF from
    <2>5. Ordered(g, from)
      BY <2>1, <2>2, <2>3, <2>4, Zenon DEF Ordered, After
    <2> QED
      BY <2>5 DEF from
  <1> QED
    BY <1>2, <1>3, <1>4, <1>5, <1>7, <1>8

\* What is read of a part of a file from a batch to the end of one.
LEMMA PartScan ==
    ASSUME NEW H, Headers(H), NEW f \in Files(H), Whole(f), NEW base, Ordered(f, base),
           NEW s \in Starts(f), NEW c \in Boundaries(f), s < c,
           NEW g, Part(g, f, s, c), NEW t, t = ScanFrom(g, 0)
    PROVE  /\ Contiguous(t)
           /\ t # <<>> => t[1] = Cell(f, s)
           /\ \A b : b \in Range(t) <=> \E q \in Starts(f) : s <= q /\ q < c /\ b = Cell(f, q)
  <1>1. /\ g \in Files(H) /\ Whole(g) /\ Ordered(g, Cell(f, s).base)
        /\ \A p : p \in Starts(g) <=> p \in Nat /\ p + s \in Starts(f) /\ p + s < c
        /\ \A p \in Starts(g) : Cell(g, p) = Cell(f, p + s)
        /\ 0 \in Starts(g) /\ Cell(g, 0) = Cell(f, s)
    BY PartWhole
  <1>2. 0 \in Boundaries(g)
    BY <1>1 DEF Boundaries
  <1>3. Contiguous(t) /\ (t # <<>> => t[1] = Cell(f, s))
    BY <1>1, <1>2, ScanContiguous
  <1>4. Range(t) = {Cell(g, q) : q \in {r \in Starts(g) : 0 <= r}}
    BY <1>1, <1>2, ScanHeaders
  <1>5. s \in Nat /\ \A q \in Starts(f) : q \in Nat
    BY Layout DEF Boundaries
  <1>6. ASSUME NEW q \in Starts(f), s <= q, q < c
        PROVE  Cell(f, q) \in Range(t)
    <2> DEFINE p == q - s
    <2>1. p \in Nat /\ p + s = q
      BY <1>5, <1>6
    <2> HIDE DEF p
    <2>2. p \in Starts(g) /\ Cell(g, p) = Cell(f, q)
      BY <1>1, <1>6, <2>1
    <2>3. 0 <= p
      BY <2>1
    <2> QED
      BY <1>4, <2>2, <2>3
  <1>7. ASSUME NEW b \in Range(t)
        PROVE  \E q \in Starts(f) : s <= q /\ q < c /\ b = Cell(f, q)
    <2>1. PICK p \in Starts(g) : b = Cell(g, p)
      BY <1>4
    <2>2. p \in Nat /\ p + s \in Starts(f) /\ p + s < c /\ b = Cell(f, p + s)
      BY <1>1, <2>1
    <2>3. s <= p + s
      BY <1>5, <2>2
    <2> QED
      BY <2>2, <2>3
  <1> QED
    BY <1>3, <1>6, <1>7

\* The segment a fetch is served from holds its offset.
LEMMA OffsetInSegment ==
    ASSUME NEW H, Headers(H), NEW l, GoodLog(l, H), NEW o \in Nat, o < l.nextOffset,
           NEW i, i = FindSegmentByOffset(l, o), NEW seg, seg = At(l.segments, i)
    PROVE  /\ i \in 1 .. Len(l.segments) /\ seg \in GoodSegments(H)
           /\ seg.base <= o /\ o < SegmentNextOffset(seg)
  <1> DEFINE K == Len(l.segments)
  <1>1. /\ Chain(l.segments, H) /\ l.segments \in Seq(GoodSegments(H)) /\ l.segments # <<>>
        /\ l.nextOffset = SegmentNextOffset(Last(l.segments))
    BY DEF GoodLog, Chain, ActiveSegment, Last
  <1>2. /\ K \in Nat /\ i \in 1 .. K /\ seg.base <= o
        /\ i < K => o < At(l.segments, i + 1).base
    BY <1>1, SegmentFound, Zenon
  <1>3. seg \in GoodSegments(H) /\ Last(l.segments) = At(l.segments, K)
    BY <1>1, <1>2, SequenceAt
  <1>4. CASE i < K
    <2>1. i \in 1 .. K - 1
      BY <1>2, <1>4
    <2>2. At(l.segments, i + 1).base = SegmentNextOffset(seg)
      BY <1>1, <2>1 DEF Chain
    <2> QED
      BY <1>2, <1>3, <1>4, <2>2
  <1>5. CASE i = K
    BY <1>1, <1>2, <1>3, <1>5
  <1>6. i < K \/ i = K
    BY <1>2
  <1> QED
    BY <1>4, <1>5, <1>6

(***************************************************************************)
(* A fetch as a whole.                                                     *)
(***************************************************************************)

Fetched(l, o, m, v) == RegionBatches(l, ClipRegionToOffset(l, FindRecords(l, o, m), v))

\* The fetch from offset o reads file f from the batch at s to position c, which
\* begins a batch or ends the file: sequence t is what is between them.
Reads(t, f, s, c) ==
    /\ Contiguous(t)
    /\ t # <<>> => t[1] = Cell(f, s)
    /\ \A b : b \in Range(t) <=> \E q \in Starts(f) : s <= q /\ q < c /\ b = Cell(f, q)

\* Where the fetch begins, and where the high-watermark v and limit m end it.
BeginsAt(f, s, o) == Cell(f, s).base <= o /\ LastOffset(Cell(f, s)) >= o - 1

EndsAt(f, s, c, m, v) ==
    /\ \A q \in Starts(f) : s <= q /\ q < c => LastOffset(Cell(f, q)) < v
    /\ m = 0 => c = Len(f) \/ (c \in Starts(f) /\ LastOffset(Cell(f, c)) >= v)

LEMMA FetchFound ==
    ASSUME NEW H, Headers(H), NEW l, GoodLog(l, H), NEW o \in Nat, o < l.nextOffset,
           NEW m \in Nat, NEW v \in Nat,
           NEW i, i = FindSegmentByOffset(l, o), NEW f, f = At(l.segments, i).file
    PROVE  \E s \in Starts(f), c \in Boundaries(f) :
              /\ s <= c /\ BeginsAt(f, s, o) /\ EndsAt(f, s, c, m, v)
              /\ Reads(Fetched(l, o, m, v), f, s, c)
  <1> DEFINE seg == At(l.segments, i)
             s == RegionStart(seg, o)
             e == RegionEnd(f, s, m)
             size == e - s
             r == [seg |-> i, pos |-> s, size |-> size]
             w == ClipRegionToOffset(l, r, v)
             c == s + w.size
             t == Fetched(l, o, m, v)
  <1>1. /\ i \in 1 .. Len(l.segments) /\ seg \in GoodSegments(H)
        /\ seg.base <= o /\ o < SegmentNextOffset(seg)
    BY OffsetInSegment
  <1>2. f \in Files(H) /\ Whole(f) /\ Ordered(f, seg.base) /\ f = seg.file
    BY <1>1, GoodFields
  <1>3. s \in Starts(f) /\ BeginsAt(f, s, o)
    BY <1>1, <1>2, StartFound DEF BeginsAt
  <1>4. e \in Boundaries(f) /\ s < e /\ (m = 0 => e = Len(f))
    BY <1>2, <1>3, EndFound
  <1>5. s \in Nat /\ e \in Nat
    BY <1>2, <1>3, <1>4, Layout DEF Boundaries
  <1>6. FindRecords(l, o, m) = r
    <2>1. i # 0 /\ ~(s < 0) /\ ~(o >= l.nextOffset)
      <3>1. l.nextOffset \in Nat /\ Len(l.segments) \in Nat
        BY LogFields, SequenceAt DEF GoodLog
      <3> QED
        BY <1>1, <1>5, <3>1
    <2>2. seg = l.segments[i]
      BY DEF At
    <2> QED
      BY <2>1, <2>2 DEF FindRecords
  <1>7. size \in Nat \ {0} /\ s + size = e
    BY <1>4, <1>5
  <1> HIDE DEF s, e
  <1>8. /\ w.seg = i /\ w.pos = s /\ w.size \in Nat
        /\ c \in Boundaries(f) /\ c <= e
        /\ \A q \in Starts(f) : s <= q /\ q < c => LastOffset(Cell(f, q)) < v
        /\ \/ w.size = size
           \/ c \in Starts(f) /\ LastOffset(Cell(f, c)) >= v
    <2>1. s + size \in Boundaries(f)
      BY <1>4, <1>7, Zenon
    <2>2. RegionOf(r, f, i, s, size)
      BY <1>7, <2>1 DEF RegionOf
    <2> HIDE DEF size, r
    <2>3. Clipped(w, f, i, s, size, v)
      BY <1>2, <1>3, <2>2, ClipFound, Zenon
    <2> HIDE DEF w
    <2> QED
      BY <1>7, <2>3, Zenon DEF Clipped
  <1>9. s <= c
    BY <1>5, <1>8
  <1>10. EndsAt(f, s, c, m, v)
    BY <1>4, <1>7, <1>8 DEF EndsAt
  <1>11. t = RegionBatches(l, w)
    BY <1>6 DEF Fetched
  <1> HIDE DEF r, t, w, size
  <1>12. CASE w.size = 0
    <2>1. t = <<>>
      BY <1>11, <1>12 DEF RegionBatches
    <2>2. c = s
      BY <1>5, <1>12
    <2>3. Contiguous(t) /\ Range(t) = {}
      BY <2>1 DEF Contiguous, Range
    <2>4. \A q \in Starts(f) : ~(s <= q /\ q < c)
      <3>1. \A q \in Starts(f) : q \in Nat
        BY <1>2, HeaderBases
      <3> QED
        BY <1>5, <2>2, <3>1
    <2>5. Reads(t, f, s, c)
      BY <2>1, <2>3, <2>4 DEF Reads
    <2> QED
      BY <1>3, <1>8, <1>9, <1>10, <2>5 DEF t
  <1>13. CASE w.size # 0
    <2> DEFINE g == SubSeq(f, s + 1, c)
    <2>1. t = ScanFrom(g, 0)
      BY <1>2, <1>8, <1>11, <1>13 DEF RegionBatches, At
    <2>2. s < c
      BY <1>5, <1>8, <1>13
    <2>3. Part(g, f, s, c)
      BY DEF Part
    <2> HIDE DEF g, c
    <2>4. Reads(t, f, s, c)
      BY <1>2, <1>3, <1>8, <2>1, <2>2, <2>3, PartScan DEF Reads
    <2> QED
      BY <1>3, <1>8, <1>9, <1>10, <2>4 DEF t
  <1> QED
    BY <1>12, <1>13

\* The batches of a log are those of its segments' files.
LEMMA BatchesOfLog ==
    ASSUME NEW H, Headers(H), NEW l, GoodLog(l, H), NEW b
    PROVE  b \in Range(InLog(l.segments))
              <=> \E i \in 1 .. Len(l.segments) :
                     \E q \in Starts(At(l.segments, i).file) : b = Cell(At(l.segments, i).file, q)
  <1> DEFINE ss == l.segments
  <1>1. /\ ss \in Seq(TypedSegments(H)) /\ ss # <<>> /\ ss \in Seq(GoodSegments(H))
    BY LogFields DEF GoodLog, Chain
  <1>2. b \in Range(InLog(ss)) <=> \E i \in 1 .. Len(ss) : b \in Range(Scanned(At(ss, i)))
    BY <1>1, InLogSet
  <1>3. ASSUME NEW i \in 1 .. Len(ss)
        PROVE  b \in Range(Scanned(At(ss, i)))
                 <=> \E q \in Starts(At(ss, i).file) : b = Cell(At(ss, i).file, q)
    <2> DEFINE f == At(ss, i).file
    <2>1. At(ss, i) \in GoodSegments(H)
      BY <1>1, SequenceAt
    <2>2. f \in Files(H) /\ Whole(f)
      BY <2>1, GoodFields
    <2>3. 0 \in Boundaries(f) /\ \A q \in Starts(f) : 0 <= q
      <3>1. \A q \in Starts(f) : q \in Nat
        BY <2>2, HeaderBases
      <3> QED
        BY <2>2, <3>1 DEF Whole
    <2>4. Range(ScanFrom(f, 0)) = {Cell(f, q) : q \in {r \in Starts(f) : 0 <= r}}
      BY <2>2, <2>3, ScanHeaders
    <2> HIDE DEF f
    <2>5. b \in Range(ScanFrom(f, 0)) <=> \E q \in Starts(f) : b = Cell(f, q)
      BY <2>3, <2>4
    <2> QED
      BY <2>5 DEF f, Scanned
  <1> QED
    BY <1>2, <1>3, Zenon

\* An offset of a batch leads findSegmentByOffset to the segment of the batch.
LEMMA SegmentOfBatch ==
    ASSUME NEW H, Headers(H), NEW l, GoodLog(l, H),
           NEW j \in 1 .. Len(l.segments), NEW g, g = At(l.segments, j).file,
           NEW q \in Starts(g), NEW o \in Nat,
           Cell(g, q).base <= o, o <= LastOffset(Cell(g, q))
    PROVE  FindSegmentByOffset(l, o) = j
  <1> DEFINE ss == l.segments
             K == Len(ss)
             i == FindSegmentByOffset(l, o)
             base(k) == At(ss, k).base
  <1>1. /\ Chain(ss, H) /\ ss \in Seq(GoodSegments(H)) /\ ss # <<>>
        /\ \A k \in 1 .. K - 1 : base(k + 1) = SegmentNextOffset(At(ss, k))
        /\ \A k, m \in 1 .. K : k < m => base(k) < base(m)
    BY DEF GoodLog, Chain
  <1>2. K \in Nat /\ i \in 1 .. K /\ base(i) <= o /\ (i < K => o < base(i + 1))
    BY <1>1, SegmentFound, Zenon
  <1>3. \A k \in 1 .. K : At(ss, k) \in GoodSegments(H) /\ base(k) \in Nat
    BY <1>1, SequenceAt, GoodFields, Zenon
  <1>4. g \in Files(H) /\ Whole(g) /\ Ordered(g, base(j))
    BY <1>3, GoodFields, Zenon
  <1>5. /\ Cell(g, q).base \in Nat /\ LastOffset(Cell(g, q)) \in Nat
        /\ base(j) <= Cell(g, q).base
    BY <1>4, HeaderBases, Zenon DEF Ordered
  <1>6. /\ SegmentNextOffset(At(ss, j)) \in Nat
        /\ LastOffset(Cell(g, q)) < SegmentNextOffset(At(ss, j))
    BY <1>3, <1>4, SegmentEnd, Zenon
  <1>7. base(j) <= o /\ o < SegmentNextOffset(At(ss, j))
    BY <1>3, <1>5, <1>6
  <1> HIDE DEF i, base
  <1>8. ~(j < i)
    <2> SUFFICES ASSUME j < i PROVE FALSE
      OBVIOUS
    <2>1. j \in 1 .. K - 1 /\ j + 1 \in 1 .. K /\ (j + 1 = i \/ j + 1 < i)
      BY <1>2
    <2>2. o < base(j + 1)
      BY <1>1, <1>7, <2>1
    <2>3. base(j + 1) <= base(i)
      BY <1>1, <1>2, <1>3, <2>1
    <2> QED
      BY <1>2, <1>3, <2>1, <2>2, <2>3
  <1>9. ~(i < j)
    <2> SUFFICES ASSUME i < j PROVE FALSE
      OBVIOUS
    <2>1. i < K /\ i + 1 \in 1 .. K /\ (i + 1 = j \/ i + 1 < j)
      BY <1>2
    <2>2. o < base(i + 1)
      BY <1>2, <2>1
    <2>3. base(i + 1) <= base(j)
      BY <1>1, <1>3, <2>1
    <2> QED
      BY <1>3, <1>7, <2>1, <2>2, <2>3
  <1> QED
    BY <1>2, <1>8, <1>9 DEF i

\* What the fetch finds, for the state of the log.
LEMMA ServedIs ==
    ASSUME LogInv, intact, NEW o \in Nat, o < log.nextOffset, NEW m \in Nat, NEW v \in Nat,
           NEW i, i = FindSegmentByOffset(log, o), NEW f, f = At(log.segments, i).file
    PROVE  /\ i \in 1 .. Len(log.segments) /\ f \in Files(Batches) /\ Whole(f)
           /\ Ordered(f, At(log.segments, i).base)
           /\ \E s \in Starts(f), c \in Boundaries(f) :
                 /\ s <= c /\ BeginsAt(f, s, o) /\ EndsAt(f, s, c, m, v)
                 /\ Reads(Served(o, m, v), f, s, c)
  <1>1. GoodLog(log, Batches)
    BY LogInvFields
  <1>2. i \in 1 .. Len(log.segments) /\ At(log.segments, i) \in GoodSegments(Batches)
    BY <1>1, BatchHeaders, OffsetInSegment
  <1>3. f \in Files(Batches) /\ Whole(f) /\ Ordered(f, At(log.segments, i).base)
    BY <1>2, GoodFields
  <1>4. Served(o, m, v) = Fetched(log, o, m, v)
    BY DEF Served, Fetched
  <1> QED
    BY <1>1, <1>2, <1>3, <1>4, BatchHeaders, FetchFound

LEMMA InvServes == LogInv => FetchServes
  <1> SUFFICES ASSUME LogInv, intact, NEW o \in 0 .. log.nextOffset - 1, NEW m \in Limits,
                      NEW v \in 0 .. log.nextOffset
               PROVE  /\ Range(Served(o, m, v)) \subseteq Range(acked)
                      /\ Consecutive(Served(o, m, v))
                      /\ \A b \in Range(Served(o, m, v)) : LastOffset(b) < v
                      /\ Served(o, m, v) # <<>>
                            => /\ Served(o, m, v)[1].base <= o
                               /\ LastOffset(Served(o, m, v)[1]) >= o - 1
    BY DEF FetchServes
  <1> DEFINE i == FindSegmentByOffset(log, o)
             f == At(log.segments, i).file
             t == Served(o, m, v)
  <1>1. GoodLog(log, Batches) /\ InLog(log.segments) = acked /\ log.nextOffset \in Nat
    BY LogInvFields
  <1>2. o \in Nat /\ o < log.nextOffset /\ v \in Nat /\ m \in Nat
    BY <1>1, CommitLogAssumption
  <1>3. /\ i \in 1 .. Len(log.segments)
        /\ \E s \in Starts(f), c \in Boundaries(f) :
              /\ s <= c /\ BeginsAt(f, s, o) /\ EndsAt(f, s, c, m, v) /\ Reads(t, f, s, c)
    BY <1>2, ServedIs
  <1> HIDE DEF i, t
  <1>4. PICK s \in Starts(f), c \in Boundaries(f) :
           BeginsAt(f, s, o) /\ EndsAt(f, s, c, m, v) /\ Reads(t, f, s, c)
    BY <1>3
  <1>5. ASSUME NEW b \in Range(t)
        PROVE  b \in Range(acked) /\ LastOffset(b) < v
    <2>1. PICK q \in Starts(f) : s <= q /\ q < c /\ b = Cell(f, q)
      BY <1>4, Zenon DEF Reads
    <2>2. LastOffset(b) < v
      BY <1>4, <2>1, Zenon DEF EndsAt
    <2>3. b \in Range(InLog(log.segments))
      BY <1>1, <1>3, <2>1, BatchHeaders, BatchesOfLog, Zenon
    <2> QED
      BY <1>1, <2>2, <2>3, Zenon
  <1>6. Consecutive(t)
    BY <1>4, Zenon DEF Consecutive, Reads, Contiguous
  <1>7. t # <<>> => t[1].base <= o /\ LastOffset(t[1]) >= o - 1
    BY <1>4 DEF Reads, BeginsAt
  <1> QED
    BY <1>5, <1>6, <1>7 DEF t

\* Every fetch HandleFetchApiKeys serves, over any number of segments, restarts,
\* rolled segments and failed appends that left nothing: whole, consecutive,
\* acknowledged batches below the high-watermark, from the one asked for or the one
\* before it.
THEOREM FetchesServe == Spec => []FetchServes
  BY LogIsGood, InvServes, PTL

LEMMA InvReaches == LogInv => FetchReaches
  <1> SUFFICES ASSUME LogInv, intact, NEW b \in Range(acked),
                      NEW o \in b.base .. LastOffset(b),
                      NEW v \in LastOffset(b) + 1 .. log.nextOffset
               PROVE  b \in Range(Served(o, 0, v))
    BY DEF FetchReaches
  <1> DEFINE ss == log.segments
             t == Served(o, 0, v)
  <1>1. GoodLog(log, Batches) /\ InLog(ss) = acked /\ log.nextOffset \in Nat
    BY LogInvFields
  <1>2. PICK j \in 1 .. Len(ss) : \E q \in Starts(At(ss, j).file) : b = Cell(At(ss, j).file, q)
    BY <1>1, BatchHeaders, BatchesOfLog, Zenon
  <1> DEFINE f == At(ss, j).file
  <1>3. PICK q \in Starts(f) : b = Cell(f, q)
    BY <1>2
  <1>4. At(ss, j) \in GoodSegments(Batches)
    BY <1>1, <1>2, SequenceAt, Zenon DEF GoodLog, Chain
  <1>5. f \in Files(Batches) /\ Whole(f) /\ Ordered(f, At(ss, j).base)
    BY <1>4, GoodFields
  <1>6. /\ q \in Nat /\ q < Len(f) /\ b.base \in Nat /\ LastOffset(b) \in Nat
        /\ b.base <= LastOffset(b)
    BY <1>3, <1>5, BatchHeaders, HeaderBases
  <1>7. /\ o \in Nat /\ b.base <= o /\ o <= LastOffset(b) /\ v \in Nat
        /\ LastOffset(b) < v /\ o < log.nextOffset
    BY <1>1, <1>6
  <1>8. FindSegmentByOffset(log, o) = j
    <2>1. Cell(f, q).base <= o /\ o <= LastOffset(Cell(f, q))
      BY <1>3, <1>7, Zenon
    <2>2. f = At(log.segments, j).file
      OBVIOUS
    <2>3. j \in 1 .. Len(log.segments) /\ q \in Starts(f) /\ o \in Nat
      BY <1>2, <1>3, <1>7
    <2>4. GoodLog(log, Batches)
      BY <1>1
    <2> HIDE DEF f
    <2> QED
      BY <2>1, <2>2, <2>3, <2>4, BatchHeaders, SegmentOfBatch, ZenonT(30)
  <1>9. \E s \in Starts(f), c \in Boundaries(f) :
           BeginsAt(f, s, o) /\ EndsAt(f, s, c, 0, v) /\ Reads(t, f, s, c)
    BY <1>7, <1>8, ServedIs
  <1> HIDE DEF f, t
  <1>10. PICK s \in Starts(f), c \in Boundaries(f) :
            BeginsAt(f, s, o) /\ EndsAt(f, s, c, 0, v) /\ Reads(t, f, s, c)
    BY <1>9
  <1>11. /\ s \in Nat /\ Cell(f, s).base \in Nat /\ c \in Nat
         /\ \A p \in Starts(f) : LastOffset(Cell(f, p)) \in Nat
    BY <1>5, BatchHeaders, HeaderBases, Layout
  <1>12. s <= q
    <2> SUFFICES ASSUME q < s PROVE FALSE
      BY <1>6, <1>11
    <2>1. LastOffset(Cell(f, q)) < Cell(f, s).base
      BY <1>5 DEF Ordered
    <2>2. Cell(f, s).base <= o
      BY <1>10 DEF BeginsAt
    <2> QED
      BY <1>3, <1>6, <1>7, <1>11, <2>1, <2>2
  <1>13. q < c
    <2>1. CASE c = Len(f)
      BY <1>6, <2>1
    <2>2. CASE c \in Starts(f) /\ LastOffset(Cell(f, c)) >= v
      <3>1. c # q
        BY <1>3, <1>6, <1>7, <2>2
      <3>2. ~(c < q)
        <4> SUFFICES ASSUME c < q PROVE FALSE
          OBVIOUS
        <4>1. LastOffset(Cell(f, c)) < Cell(f, q).base
          BY <1>5, <2>2 DEF Ordered
        <4>2. LastOffset(Cell(f, c)) < b.base
          BY <1>3, <4>1
        <4> QED
          BY <1>6, <1>7, <1>11, <2>2, <4>2
      <3> QED
        BY <1>6, <1>11, <3>1, <3>2
    <2> QED
      BY <1>10, <2>1, <2>2 DEF EndsAt
  <1>14. b \in Range(t)
    BY <1>3, <1>10, <1>12, <1>13, Zenon DEF Reads
  <1> QED
    BY <1>14 DEF t

\* A fetch without a byte limit never misses the batch it asks for: the search over
\* segments, the index and the scan lead to it, whatever was rolled or re-opened.
THEOREM FetchesReach == Spec => []FetchReaches
  BY LogIsGood, InvReaches, PTL

=============================================================================
