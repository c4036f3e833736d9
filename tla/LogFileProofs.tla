---------------------------- MODULE LogFileProofs ----------------------------
(***************************************************************************)
(* What LogFile computes of a log of any number of segments, and what      *)
(* appends, rolls and restarts preserve of it.                             *)
(***************************************************************************)
EXTENDS SegmentProofs

(***************************************************************************)
(* The segments of a log. In a chain every segment but the last holds      *)
(* batches and ends where the next one starts.                             *)
(***************************************************************************)

Chain(ss, H) ==
    /\ ss \in Seq(GoodSegments(H)) /\ ss # <<>>
    /\ At(ss, 1).base = 0
    /\ \A i \in 1 .. Len(ss) - 1 : /\ At(ss, i).file # <<>>
                                   /\ At(ss, i + 1).base = SegmentNextOffset(At(ss, i))
    /\ \A i, j \in 1 .. Len(ss) : i < j => At(ss, i).base < At(ss, j).base

\* t is ss with its last element replaced by x.
Relaid(t, ss, x) == t = [ss EXCEPT ![Len(ss)] = x]

LEMMA RelaidAt ==
    ASSUME NEW S, NEW ss \in Seq(S), ss # <<>>, NEW x \in S, NEW t, Relaid(t, ss, x)
    PROVE  /\ t \in Seq(S) /\ t # <<>>
           /\ Len(ss) \in Nat \ {0} /\ Len(t) = Len(ss)
           /\ \A i \in 1 .. Len(ss) - 1 : At(t, i) = At(ss, i)
           /\ At(t, Len(ss)) = x
           /\ Last(t) = x
  <1>1. Len(ss) \in Nat \ {0} /\ ss \in [1 .. Len(ss) -> S]
    BY SeqEmpty, SeqLen
  <1>2. Len(ss) \in 1 .. Len(ss)
    BY <1>1
  <1>3. /\ t \in Seq(S) /\ Len(t) = Len(ss)
        /\ \A j \in 1 .. Len(ss) : t[j] = IF j = Len(ss) THEN x ELSE ss[j]
    BY <1>2, SeqExcept DEF Relaid
  <1>4. t # <<>>
    BY <1>1, <1>3, SeqEmpty, Zenon
  <1>5. t[Len(ss)] = x
    <2>1. \A j \in 1 .. Len(ss) : j = Len(ss) => t[j] = x
      BY <1>3
    <2> QED
      BY <1>2, <2>1, Zenon
  <1>6. \A i \in 1 .. Len(ss) - 1 : i \in 1 .. Len(ss) /\ i # Len(ss)
    <2>1. \A n \in Nat : \A i \in 1 .. n - 1 : i \in 1 .. n /\ i # n
      OBVIOUS
    <2> QED
      BY <1>1, <2>1, Zenon
  <1>7. \A i \in 1 .. Len(ss) - 1 : t[i] = ss[i]
    BY <1>3, <1>6
  <1> QED
    BY <1>1, <1>3, <1>4, <1>5, <1>7, Zenon DEF At, Last

Grown(t, ss, x) == t = Append(ss, x)

LEMMA AppendedAt ==
    ASSUME NEW S, NEW ss \in Seq(S), NEW x \in S, NEW t, Grown(t, ss, x)
    PROVE  /\ t \in Seq(S) /\ t # <<>>
           /\ Len(ss) \in Nat /\ Len(t) = Len(ss) + 1
           /\ \A i \in 1 .. Len(ss) : At(t, i) = At(ss, i)
           /\ At(t, Len(ss) + 1) = x
           /\ Last(t) = x
  BY SeqAppend, SeqLen DEF At, Last, Grown

LEMMA SequenceAt ==
    ASSUME NEW S, NEW ss \in Seq(S)
    PROVE  /\ Len(ss) \in Nat
           /\ \A i \in 1 .. Len(ss) : At(ss, i) \in S
           /\ ss # <<>> => /\ Len(ss) \in Nat \ {0} /\ Last(ss) = At(ss, Len(ss))
                           /\ Last(ss) \in S
  BY SeqEmpty, SeqLen DEF At, Last

\* The last segment may be replaced by one of the same name.
LEMMA ChainRelaid ==
    ASSUME NEW H, NEW ss, Chain(ss, H), NEW seg \in GoodSegments(H),
           seg.base = Last(ss).base, NEW t, Relaid(t, ss, seg)
    PROVE  Chain(t, H)
  <1>1. ss \in Seq(GoodSegments(H)) /\ ss # <<>>
    BY DEF Chain
  <1>2. /\ t \in Seq(GoodSegments(H)) /\ t # <<>>
        /\ Len(ss) \in Nat \ {0} /\ Len(t) = Len(ss)
        /\ \A i \in 1 .. Len(ss) - 1 : At(t, i) = At(ss, i)
        /\ At(t, Len(ss)) = seg
    BY <1>1, RelaidAt
  <1>3. seg.base = At(ss, Len(ss)).base
    BY <1>1, SequenceAt
  <1>4. \A i \in 1 .. Len(ss) : At(t, i).base = At(ss, i).base
    <2> TAKE i \in 1 .. Len(ss)
    <2>1. CASE i = Len(ss)
      BY <1>2, <1>3, <2>1
    <2>2. CASE i # Len(ss)
      BY <1>2, <2>2
    <2> QED
      BY <2>1, <2>2
  <1>5. ASSUME NEW i \in 1 .. Len(t) - 1
        PROVE  /\ At(t, i).file # <<>>
               /\ At(t, i + 1).base = SegmentNextOffset(At(t, i))
    <2>1. i \in 1 .. Len(ss) - 1 /\ i + 1 \in 1 .. Len(ss) /\ At(t, i) = At(ss, i)
      BY <1>2
    <2> QED
      BY <1>4, <2>1 DEF Chain
  <1>6. \A i, j \in 1 .. Len(t) : i < j => At(t, i).base < At(t, j).base
    BY <1>2, <1>4 DEF Chain
  <1>7. At(t, 1).base = 0
    BY <1>2, <1>4 DEF Chain
  <1> QED
    BY <1>2, <1>5, <1>6, <1>7 DEF Chain

\* Another segment may follow that is named after the end of a last one that
\* holds batches.
LEMMA ChainAppended ==
    ASSUME NEW H, Headers(H), NEW ss, Chain(ss, H), Last(ss).file # <<>>,
           NEW seg \in GoodSegments(H), seg.base = SegmentNextOffset(Last(ss)),
           NEW t, Grown(t, ss, seg)
    PROVE  /\ Chain(t, H)
           /\ \A i \in 1 .. Len(ss) : At(ss, i).base < seg.base
  <1>1. ss \in Seq(GoodSegments(H)) /\ ss # <<>>
    BY DEF Chain
  <1>2. /\ t \in Seq(GoodSegments(H)) /\ t # <<>>
        /\ Len(t) = Len(ss) + 1
        /\ \A i \in 1 .. Len(ss) : At(t, i) = At(ss, i)
        /\ At(t, Len(ss) + 1) = seg
    BY <1>1, AppendedAt
  <1>3. /\ Len(ss) \in Nat \ {0} /\ Last(ss) = At(ss, Len(ss))
        /\ \A i \in 1 .. Len(ss) : At(ss, i) \in GoodSegments(H)
    BY <1>1, SequenceAt
  <1>4. \A i \in 1 .. Len(ss) : At(ss, i).base \in Nat
    BY <1>3, GoodFields
  <1>5. seg.base \in Nat /\ Last(ss).base < seg.base
    BY <1>3, GoodFields, SegmentEnd
  <1>6. ASSUME NEW i \in 1 .. Len(ss)
        PROVE  At(ss, i).base < seg.base
    <2>1. i < Len(ss) => At(ss, i).base < At(ss, Len(ss)).base
      BY <1>3 DEF Chain
    <2> QED
      BY <1>3, <1>4, <1>5, <2>1, SMTT(20)
  <1>7. ASSUME NEW i \in 1 .. Len(t) - 1
        PROVE  /\ At(t, i).file # <<>>
               /\ At(t, i + 1).base = SegmentNextOffset(At(t, i))
    <2>1. i \in 1 .. Len(ss) /\ At(t, i) = At(ss, i)
      BY <1>2, <1>3
    <2>2. CASE i = Len(ss)
      BY <1>2, <1>3, <2>1, <2>2, SMTT(20)
    <2>3. CASE i # Len(ss)
      <3>1. i \in 1 .. Len(ss) - 1 /\ i + 1 \in 1 .. Len(ss)
        BY <1>3, <2>1, <2>3
      <3>2. At(t, i + 1) = At(ss, i + 1)
        BY <1>2, <3>1
      <3> QED
        BY <2>1, <3>1, <3>2 DEF Chain
    <2> QED
      BY <2>2, <2>3
  <1>8. ASSUME NEW i \in 1 .. Len(t), NEW j \in 1 .. Len(t), i < j
        PROVE  At(t, i).base < At(t, j).base
    <2>1. i \in 1 .. Len(ss) /\ At(t, i) = At(ss, i)
      BY <1>2, <1>3, <1>8
    <2>2. CASE j = Len(ss) + 1
      BY <1>2, <1>6, <2>1, <2>2
    <2>3. CASE j # Len(ss) + 1
      <3>1. j \in 1 .. Len(ss) /\ At(t, j) = At(ss, j)
        BY <1>2, <1>3, <2>3
      <3> QED
        BY <1>8, <2>1, <3>1 DEF Chain
    <2> QED
      BY <2>2, <2>3
  <1>9. At(t, 1).base = 0
    BY <1>2, <1>3 DEF Chain
  <1> QED
    BY <1>2, <1>6, <1>7, <1>8, <1>9 DEF Chain

(***************************************************************************)
(* Concatenation computes the concatenations Flat describes.                  *)
(***************************************************************************)

FlatRound(g, s, i) == IF i = 1 THEN At(s, 1) ELSE At(g, i - 1) \o At(s, i)

Flat(g, s, k) ==
    /\ g = [i \in 1 .. k |-> g[i]]
    /\ \A i \in 1 .. k : g[i] = FlatRound(g, s, i)

LEMMA FlatExists ==
    ASSUME NEW s, NEW k \in Nat
    PROVE  \E g : Flat(g, s, k)
  <1> USE DEF At
  <1> DEFINE Bad == {j \in Nat : ~\E g : Flat(g, s, j)}
  <1> SUFFICES ASSUME Bad # {} PROVE FALSE
    OBVIOUS
  <1>1. PICK j \in Bad : \A i \in Bad : j <= i
    <2>1. Bad \subseteq Nat
      OBVIOUS
    <2> HIDE DEF Bad
    <2> QED
      BY <2>1, LeastNumber, Zenon
  <1>2. CASE j = 0
    <2>1. Flat([i \in 1 .. 0 |-> 0], s, 0)
      BY DEF Flat
    <2> QED
      BY <1>1, <1>2, <2>1
  <1>3. CASE j # 0
    <2>1. j - 1 \in Nat /\ j - 1 \notin Bad
      BY <1>1, <1>3
    <2>2. PICK g : Flat(g, s, j - 1)
      BY <2>1
    <2> DEFINE h == [i \in 1 .. j |-> IF i = j THEN FlatRound(g, s, j) ELSE g[i]]
    <2>3. \A i \in 1 .. j : i # j => i \in 1 .. j - 1 /\ h[i] = g[i]
      BY <1>1
    <2>4. h = [i \in 1 .. j |-> h[i]]
      OBVIOUS
    <2>5. \A i \in 1 .. j : FlatRound(h, s, i) = FlatRound(g, s, i)
      BY <1>1, <2>3 DEF FlatRound
    <2>6. h[j] = FlatRound(g, s, j)
      BY <1>1, <1>3
    <2>7. \A i \in 1 .. j : h[i] = FlatRound(h, s, i)
      <3> HIDE DEF h
      <3> TAKE i \in 1 .. j
      <3>1. CASE i = j
        BY <2>5, <2>6, <3>1
      <3>2. CASE i # j
        <4>1. h[i] = g[i] /\ g[i] = FlatRound(g, s, i)
          BY <2>2, <2>3, <3>2 DEF Flat
        <4> QED
          BY <2>5, <4>1
      <3> QED
        BY <3>1, <3>2
    <2>8. Flat(h, s, j)
      BY <2>4, <2>7 DEF Flat
    <2> QED
      BY <1>1, <2>8
  <1> QED
    BY <1>2, <1>3

LEMMA FlattenFlat ==
    ASSUME NEW S, NEW s \in Seq(Seq(S)), s # <<>>
    PROVE  \E g : Flat(g, s, Len(s)) /\ Concatenation(s) = At(g, Len(s))
  <1> USE DEF At
  <1>1. Len(s) \in Nat /\ Len(s) # 0
    BY SeqEmpty
  <1> DEFINE flatten == CHOOSE g : g = [i \in 1 .. Len(s) |->
                                           IF i = 1 THEN s[1] ELSE g[i - 1] \o s[i]]
  <1>2. Concatenation(s) = flatten[Len(s)]
    BY <1>1 DEF Concatenation
  <1>3. PICK g : Flat(g, s, Len(s))
    BY <1>1, FlatExists, Zenon
  <1>4. g = [i \in 1 .. Len(s) |-> IF i = 1 THEN s[1] ELSE g[i - 1] \o s[i]]
    BY <1>3, Zenon DEF Flat, FlatRound
  <1>5. flatten = [i \in 1 .. Len(s) |-> IF i = 1 THEN s[1] ELSE flatten[i - 1] \o s[i]]
    BY <1>4, Zenon
  <1> HIDE DEF flatten
  <1>6. Flat(flatten, s, Len(s))
    BY <1>5, Zenon DEF Flat, FlatRound
  <1> QED
    BY <1>2, <1>6

LEMMA FlatAgree ==
    ASSUME NEW g, NEW s, NEW k \in Nat, Flat(g, s, k),
           NEW h, NEW t, NEW l \in Nat, Flat(h, t, l),
           NEW n \in 1 .. k, n \in 1 .. l, \A i \in 1 .. n : At(s, i) = At(t, i)
    PROVE  At(g, n) = At(h, n)
  <1> USE DEF At
  <1> DEFINE Bad == {j \in 1 .. n : g[j] # h[j]}
  <1> SUFFICES ASSUME Bad # {} PROVE FALSE
    OBVIOUS
  <1>1. PICK j \in Bad : \A i \in Bad : j <= i
    <2>1. Bad \subseteq Nat
      OBVIOUS
    <2> HIDE DEF Bad
    <2> QED
      BY <2>1, LeastNumber, Zenon
  <1>2. j \in 1 .. n /\ j \in 1 .. k /\ j \in 1 .. l
    BY <1>1
  <1>3. g[j] = FlatRound(g, s, j) /\ h[j] = FlatRound(h, t, j)
    BY <1>2 DEF Flat
  <1>4. CASE j = 1
    BY <1>1, <1>2, <1>3, <1>4 DEF FlatRound
  <1>5. CASE j # 1
    <2>1. j - 1 \in 1 .. n /\ ~(j <= j - 1)
      BY <1>2, <1>5
    <2>2. g[j - 1] = h[j - 1]
      BY <1>1, <2>1
    <2> QED
      BY <1>1, <1>2, <1>3, <1>5, <2>2, Zenon DEF FlatRound
  <1> QED
    BY <1>4, <1>5

LEMMA ConcatSet ==
    ASSUME NEW S, NEW u \in Seq(S), NEW v \in Seq(S), NEW w, Joined(w, u, v)
    PROVE  w \in Seq(S) /\ Range(w) = Range(u) \cup Range(v)
  <1>1. u \o v \in Seq(S) /\ Range(u \o v) = Range(u) \cup Range(v)
    BY SeqConcat, SeqRange
  <1> QED
    BY <1>1 DEF Joined

LEMMA FlatTypes ==
    ASSUME NEW S, NEW s \in Seq(Seq(S)), NEW g, NEW k \in Nat, k <= Len(s), Flat(g, s, k)
    PROVE  \A i \in 1 .. k : /\ At(g, i) \in Seq(S)
                             /\ \A x : x \in Range(At(g, i))
                                          <=> \E j \in 1 .. i : x \in Range(At(s, j))
  <1> USE DEF At
  <1> DEFINE Fine(i) == /\ g[i] \in Seq(S)
                        /\ \A x : x \in Range(g[i])
                                     <=> \E j \in 1 .. i : x \in Range(s[j])
             Bad == {i \in 1 .. k : ~Fine(i)}
  <1> SUFFICES ASSUME Bad # {} PROVE FALSE
    BY Zenon
  <1>1. PICK j \in Bad : \A i \in Bad : j <= i
    <2>1. Bad \subseteq Nat
      OBVIOUS
    <2> HIDE DEF Bad
    <2> QED
      BY <2>1, LeastNumber, Zenon
  <1>2. j \in 1 .. k /\ s[j] \in Seq(S) /\ ~Fine(j)
    BY <1>1, SeqLen
  <1>3. g[j] = FlatRound(g, s, j)
    BY <1>2 DEF Flat
  <1>4. CASE j = 1
    <2>1. g[j] = s[1]
      BY <1>3, <1>4 DEF FlatRound
    <2>2. \A i : i \in 1 .. j <=> i = j
      BY <1>4
    <2>3. \A x : x \in Range(g[j]) <=> \E i \in 1 .. j : x \in Range(s[i])
      BY <1>4, <2>1, <2>2
    <2>4. g[j] = s[j] /\ g[j] \in Seq(S)
      BY <1>2, <1>4, <2>1
    <2> QED
      BY <1>2, <2>3, <2>4
  <1>5. CASE j # 1
    <2>0. Joined(g[j], g[j - 1], s[j])
      BY <1>3, <1>5, Zenon DEF FlatRound, Joined
    <2>1. j - 1 \in 1 .. k /\ ~(j <= j - 1) /\ Joined(g[j], g[j - 1], s[j])
      BY <1>2, <1>5, <2>0
    <2>2. Fine(j - 1)
      BY <1>1, <2>1, Zenon
    <2>3. g[j] \in Seq(S) /\ Range(g[j]) = Range(g[j - 1]) \cup Range(s[j])
      BY <1>2, <2>1, <2>2, ConcatSet, SMTT(20)
    <2>4. \A i : i \in 1 .. j <=> i \in 1 .. j - 1 \/ i = j
      BY <1>2
    <2>5. \A x : x \in Range(g[j]) <=> \E i \in 1 .. j : x \in Range(s[i])
      BY <2>2, <2>3, <2>4, SMTT(20)
    <2> QED
      BY <1>2, <2>3, <2>5
  <1> QED
    BY <1>4, <1>5

\* What is flattened, and two ways for it to grow: at the end of the last
\* sequence, and by an empty sequence.
LEMMA FlattenedSet ==
    ASSUME NEW S, NEW s \in Seq(Seq(S)), s # <<>>
    PROVE  /\ Concatenation(s) \in Seq(S)
           /\ \A x : x \in Range(Concatenation(s)) <=> \E j \in 1 .. Len(s) : x \in Range(At(s, j))
  <1>1. Len(s) \in Nat \ {0}
    BY SeqEmpty
  <1>2. PICK g : Flat(g, s, Len(s)) /\ Concatenation(s) = At(g, Len(s))
    BY FlattenFlat
  <1>3. Len(s) \in 1 .. Len(s) /\ Len(s) <= Len(s) /\ Len(s) \in Nat
    BY <1>1
  <1> QED
    BY <1>2, <1>3, FlatTypes

LEMMA JoinedThrough ==
    ASSUME NEW S, NEW x \in Seq(S), NEW b \in Seq(S), NEW u \in Seq(S),
           NEW a, Joined(a, x, b), NEW d, Joined(d, b, u), NEW c, Joined(c, x, d)
    PROVE  Joined(c, a, u)
  BY SeqAssoc, SMTT(20) DEF Joined

LEMMA FlattenRelaid ==
    ASSUME NEW S, NEW s \in Seq(Seq(S)), s # <<>>, NEW t \in Seq(Seq(S)),
           NEW K, K = Len(s), Len(t) = K, \A i \in 1 .. K - 1 : At(t, i) = At(s, i),
           NEW u \in Seq(S), Joined(At(t, K), At(s, K), u)
    PROVE  Joined(Concatenation(t), Concatenation(s), u)
  <1>1. K \in Nat /\ K # 0 /\ t # <<>> /\ At(s, K) \in Seq(S)
    BY SeqEmpty, SequenceAt
  <1>2. PICK g : Flat(g, s, K) /\ Concatenation(s) = At(g, K)
    BY FlattenFlat
  <1>3. PICK h : Flat(h, t, K) /\ Concatenation(t) = At(h, K)
    BY <1>1, FlattenFlat
  <1>4. At(g, K) = FlatRound(g, s, K) /\ At(h, K) = FlatRound(h, t, K)
    BY <1>1, <1>2, <1>3 DEF Flat, At
  <1>5. CASE K = 1
    <2>1. At(g, K) = At(s, K) /\ At(h, K) = At(t, K)
      BY <1>4, <1>5 DEF FlatRound
    <2> QED
      BY <1>2, <1>3, <2>1
  <1>6. CASE K # 1
    <2>1. K - 1 \in Nat /\ K - 1 \in 1 .. K - 1 /\ K - 1 \in 1 .. K /\ K - 1 <= K
      BY <1>1, <1>6, SMTT(20)
    <2>2. At(h, K - 1) = At(g, K - 1)
      <3> DEFINE m == K - 1
      <3>1. m \in 1 .. K /\ \A i \in 1 .. m : At(s, i) = At(t, i)
        BY <2>1
      <3> HIDE DEF m
      <3>2. At(g, m) = At(h, m)
        BY <1>1, <1>2, <1>3, <3>1, FlatAgree, SMTT(20)
      <3> QED
        BY <3>2 DEF m
    <2>3. Joined(At(g, K), At(g, K - 1), At(s, K)) /\ Joined(At(h, K), At(g, K - 1), At(t, K))
      BY <1>4, <1>6, <2>2, Zenon DEF FlatRound, Joined
    <2>4. At(g, K - 1) \in Seq(S)
      <3>1. K <= Len(s)
        BY <1>1
      <3> QED
        BY <1>1, <1>2, <2>1, <3>1, FlatTypes, Zenon
    <2>5. Joined(At(h, K), At(g, K), u)
      BY <1>1, <2>3, <2>4, JoinedThrough, SMTT(20)
    <2> QED
      BY <1>2, <1>3, <2>5, SMTT(20)
  <1> QED
    BY <1>5, <1>6

LEMMA FlattenGrown ==
    ASSUME NEW S, NEW s \in Seq(Seq(S)), s # <<>>, NEW t \in Seq(Seq(S)),
           NEW K, K = Len(s), Len(t) = K + 1, \A i \in 1 .. K : At(t, i) = At(s, i),
           At(t, K + 1) = <<>>
    PROVE  Concatenation(t) = Concatenation(s)
  <1>1. K \in Nat /\ K # 0 /\ t # <<>> /\ K + 1 \in Nat /\ K <= K + 1 /\ K <= K
        /\ K \in 1 .. K /\ K + 1 \in 1 .. K + 1 /\ K + 1 # 1 /\ (K + 1) - 1 = K
    BY SeqEmpty
  <1>2. PICK g : Flat(g, s, K) /\ Concatenation(s) = At(g, K)
    BY FlattenFlat
  <1>3. PICK h : Flat(h, t, K + 1) /\ Concatenation(t) = At(h, K + 1)
    BY <1>1, FlattenFlat
  <1>4. At(h, K + 1) = At(h, K) \o <<>>
    BY <1>1, <1>3, Zenon DEF Flat, FlatRound, At
  <1>5. At(h, K) = At(g, K)
    BY <1>1, <1>2, <1>3, FlatAgree
  <1>6. At(g, K) \in Seq(S)
    BY <1>2, FlattenedSet
  <1>7. At(g, K) \o <<>> = At(g, K)
    BY <1>6, SeqNothing
  <1> QED
    BY <1>2, <1>3, <1>4, <1>5, <1>7, SMTT(20)

(***************************************************************************)
(* The batches in the segments.                                            *)
(***************************************************************************)

Scanned(seg) == ScanFrom(seg.file, 0)
Scans(ss) == [i \in 1 .. Len(ss) |-> Scanned(At(ss, i))]
InLog(ss) == Concatenation(Scans(ss))

LEMMA ScansAre ==
    ASSUME NEW H, Headers(H), NEW ss \in Seq(TypedSegments(H))
    PROVE  /\ Scans(ss) \in Seq(Seq(H))
           /\ Len(Scans(ss)) = Len(ss) /\ Len(ss) \in Nat
           /\ \A i \in 1 .. Len(ss) : At(Scans(ss), i) = Scanned(At(ss, i))
           /\ \A i \in 1 .. Len(ss) : Scanned(At(ss, i)) \in Seq(H)
           /\ ss # <<>> => Scans(ss) # <<>>
  <1>1. Len(ss) \in Nat /\ \A i \in 1 .. Len(ss) : At(ss, i) \in TypedSegments(H)
    BY SequenceAt
  <1>2. ASSUME NEW i \in 1 .. Len(ss)
        PROVE  Scanned(At(ss, i)) \in Seq(H)
    <2>1. At(ss, i).file \in Files(H)
      BY <1>1, TypedFields
    <2>2. 0 \in Nat
      OBVIOUS
    <2> QED
      BY <2>1, <2>2, ScanType DEF Scanned
  <1>3. Scans(ss) \in [1 .. Len(ss) -> Seq(H)]
    BY <1>2 DEF Scans
  <1>4. Scans(ss) \in Seq(Seq(H)) /\ Len(Scans(ss)) = Len(ss)
    BY <1>1, <1>3
  <1>5. \A i \in 1 .. Len(ss) : At(Scans(ss), i) = Scanned(At(ss, i))
    BY DEF Scans, At
  <1>6. ss # <<>> => Scans(ss) # <<>>
    BY <1>1, <1>4, SeqEmpty
  <1> QED
    BY <1>1, <1>2, <1>4, <1>5, <1>6

LEMMA InLogSet ==
    ASSUME NEW H, Headers(H), NEW ss \in Seq(TypedSegments(H)), ss # <<>>
    PROVE  /\ InLog(ss) \in Seq(H)
           /\ \A b : b \in Range(InLog(ss))
                        <=> \E i \in 1 .. Len(ss) : b \in Range(Scanned(At(ss, i)))
  <1> DEFINE s == Scans(ss)
  <1>1. /\ s \in Seq(Seq(H)) /\ Len(s) = Len(ss) /\ s # <<>>
        /\ \A i \in 1 .. Len(ss) : At(s, i) = Scanned(At(ss, i))
    BY ScansAre
  <1> HIDE DEF s
  <1>2. /\ Concatenation(s) \in Seq(H)
        /\ \A x : x \in Range(Concatenation(s)) <=> \E j \in 1 .. Len(s) : x \in Range(At(s, j))
    BY <1>1, FlattenedSet
  <1> QED
    BY <1>1, <1>2 DEF InLog, s

LEMMA RelaidInLog ==
    ASSUME NEW H, Headers(H), NEW ss \in Seq(TypedSegments(H)), ss # <<>>,
           NEW seg \in TypedSegments(H), NEW t, Relaid(t, ss, seg), NEW u \in Seq(H),
           Joined(Scanned(seg), Scanned(Last(ss)), u)
    PROVE  Joined(InLog(t), InLog(ss), u)
  <1> DEFINE s == Scans(ss)
             r == Scans(t)
             K == Len(ss)
  <1>1. /\ t \in Seq(TypedSegments(H)) /\ K \in Nat \ {0} /\ Len(t) = K
        /\ \A i \in 1 .. K - 1 : At(t, i) = At(ss, i)
        /\ At(t, K) = seg
    BY RelaidAt
  <1>2. Last(ss) = At(ss, K)
    BY SequenceAt
  <1>3. /\ s \in Seq(Seq(H)) /\ Len(s) = K /\ s # <<>>
        /\ \A i \in 1 .. K : At(s, i) = Scanned(At(ss, i))
    BY ScansAre
  <1>4. /\ r \in Seq(Seq(H)) /\ Len(r) = K
        /\ \A i \in 1 .. K : At(r, i) = Scanned(At(t, i))
    BY <1>1, ScansAre
  <1> HIDE DEF s, r, K
  <1>5. \A i \in 1 .. K - 1 : At(r, i) = At(s, i)
    BY <1>1, <1>3, <1>4
  <1>6. Joined(At(r, K), At(s, K), u)
    BY <1>1, <1>2, <1>3, <1>4
  <1>7. Joined(Concatenation(r), Concatenation(s), u)
    BY <1>3, <1>4, <1>5, <1>6, FlattenRelaid, Zenon
  <1> QED
    BY <1>7 DEF InLog, s, r

LEMMA GrownInLog ==
    ASSUME NEW H, Headers(H), NEW ss \in Seq(TypedSegments(H)), ss # <<>>,
           NEW seg \in TypedSegments(H), Scanned(seg) = <<>>, NEW t, Grown(t, ss, seg)
    PROVE  InLog(t) = InLog(ss)
  <1> DEFINE s == Scans(ss)
             r == Scans(t)
             K == Len(ss)
  <1>1. /\ t \in Seq(TypedSegments(H)) /\ K \in Nat /\ Len(t) = K + 1
        /\ \A i \in 1 .. K : At(t, i) = At(ss, i)
        /\ At(t, K + 1) = seg
    BY AppendedAt
  <1>2. /\ s \in Seq(Seq(H)) /\ Len(s) = K /\ s # <<>>
        /\ \A i \in 1 .. K : At(s, i) = Scanned(At(ss, i))
    BY ScansAre
  <1>3. /\ r \in Seq(Seq(H)) /\ Len(r) = K + 1
        /\ \A i \in 1 .. K + 1 : At(r, i) = Scanned(At(t, i))
    BY <1>1, ScansAre
  <1> HIDE DEF s, r, K
  <1>4. \A i \in 1 .. K : At(r, i) = At(s, i)
    BY <1>1, <1>2, <1>3
  <1>5. At(r, K + 1) = <<>>
    BY <1>1, <1>3
  <1>6. Concatenation(r) = Concatenation(s)
    BY <1>2, <1>3, <1>4, <1>5, FlattenGrown, SMTT(20)
  <1> QED
    BY <1>6 DEF InLog, s, r

(***************************************************************************)
(* The operations of a log.                                                *)
(***************************************************************************)

TypedLog(log, H) ==
    /\ log \in [segments : Seq(TypedSegments(H)), nextOffset : Nat]
    /\ log.segments # <<>>

GoodLog(log, H) ==
    /\ TypedLog(log, H)
    /\ Chain(log.segments, H)
    /\ log.nextOffset = SegmentNextOffset(ActiveSegment(log))

LEMMA LogFields ==
    ASSUME NEW H, NEW log, TypedLog(log, H)
    PROVE  /\ log.segments \in Seq(TypedSegments(H)) /\ log.segments # <<>>
           /\ log.nextOffset \in Nat
           /\ ActiveSegment(log) = Last(log.segments)
           /\ ActiveSegment(log) \in TypedSegments(H)
  <1>1. log.segments \in Seq(TypedSegments(H)) /\ log.segments # <<>> /\ log.nextOffset \in Nat
    BY DEF TypedLog
  <1> QED
    BY <1>1, SequenceAt DEF ActiveSegment, Last

LEMMA MakeLog ==
    ASSUME NEW H, NEW ss \in Seq(TypedSegments(H)), ss # <<>>, NEW o \in Nat,
           NEW l, l = [segments |-> ss, nextOffset |-> o]
    PROVE  TypedLog(l, H) /\ l.segments = ss /\ l.nextOffset = o
  BY DEF TypedLog

LEMMA WithActiveFields ==
    ASSUME NEW H, NEW log, TypedLog(log, H), NEW seg \in TypedSegments(H),
           NEW l, l = WithActive(log, seg)
    PROVE  /\ TypedLog(l, H)
           /\ Relaid(l.segments, log.segments, seg)
           /\ l.nextOffset = log.nextOffset
           /\ ActiveSegment(l) = seg
  <1> DEFINE ss == log.segments
             t == [ss EXCEPT ![Len(ss)] = seg]
  <1>1. l = [log EXCEPT !.segments = t]
    BY DEF WithActive
  <1>2. Relaid(t, ss, seg)
    BY DEF Relaid
  <1>3. ss \in Seq(TypedSegments(H)) /\ ss # <<>>
    BY LogFields
  <1> HIDE DEF ss, t
  <1>4. t \in Seq(TypedSegments(H)) /\ t # <<>> /\ Last(t) = seg
    BY <1>2, <1>3, RelaidAt
  <1>5. l.segments = t /\ l.nextOffset = log.nextOffset
    BY <1>1 DEF TypedLog
  <1>6. TypedLog(l, H)
    BY <1>1, <1>4 DEF TypedLog
  <1> QED
    BY <1>2, <1>4, <1>5, <1>6, SMTT(20) DEF ss, ActiveSegment, Last

LEMMA WithActiveGood ==
    ASSUME NEW H, NEW log, GoodLog(log, H), NEW seg \in GoodSegments(H),
           seg.base = ActiveSegment(log).base,
           NEW l, TypedLog(l, H), Relaid(l.segments, log.segments, seg),
           l.nextOffset = SegmentNextOffset(seg), ActiveSegment(l) = seg
    PROVE  GoodLog(l, H)
  <1>1. seg.base = Last(log.segments).base /\ Chain(log.segments, H)
    BY DEF GoodLog, ActiveSegment, Last
  <1>2. Chain(l.segments, H)
    BY <1>1, ChainRelaid
  <1> QED
    BY <1>2 DEF GoodLog

\* The files of the segments by their names.
LEMMA GreatestIndex ==
    ASSUME NEW K \in Nat, NEW T, T \subseteq 1 .. K, T # {}
    PROVE  \E i \in T : \A j \in T : j <= i
  <1> DEFINE D == {K - i : i \in T}
  <1>1. \A i \in T : i \in 1 .. K /\ K - i \in Nat
    OBVIOUS
  <1>2. D \subseteq Nat /\ D # {}
    BY <1>1
  <1>3. PICK d \in D : \A e \in D : d <= e
    <2> HIDE DEF D
    <2> QED
      BY <1>2, LeastNumber, Zenon
  <1>4. PICK i \in T : d = K - i
    BY <1>3
  <1>5. ASSUME NEW j \in T PROVE j <= i
    <2>1. K - i <= K - j
      BY <1>3, <1>4
    <2> QED
      BY <1>1, <2>1
  <1> QED
    BY <1>5

LEMMA FileNamedIs ==
    ASSUME NEW H, NEW log, TypedLog(log, H), NEW base
    PROVE  /\ FileNamed(log, base) \in Files(H)
           /\ (\A i \in 1 .. Len(log.segments) : At(log.segments, i).base # base)
                 => FileNamed(log, base) = <<>>
           /\ (\E i \in 1 .. Len(log.segments) : At(log.segments, i).base = base)
                 => \E i \in 1 .. Len(log.segments) :
                       /\ At(log.segments, i).base = base
                       /\ FileNamed(log, base) = At(log.segments, i).file
  <1> DEFINE ss == log.segments
             K == Len(ss)
             named == {i \in DOMAIN ss : ss[i].base = base}
             Greatest(i) == i \in named /\ \A j \in named : j <= i
             m == CHOOSE i \in named : \A j \in named : j <= i
  <1>1. ss \in Seq(TypedSegments(H)) /\ K \in Nat /\ DOMAIN ss = 1 .. K
    BY LogFields, SeqLen
  <1>2. FileNamed(log, base) = IF named = {} THEN <<>> ELSE ss[m].file
    BY DEF FileNamed
  <1>3. named = {i \in 1 .. K : At(ss, i).base = base} /\ \A i : ss[i] = At(ss, i)
    BY <1>1 DEF At
  <1>4. named \subseteq 1 .. K
    BY <1>1
  <1>5. named # {} => m \in named
    <2> HIDE DEF named
    <2> SUFFICES ASSUME named # {} PROVE m \in named
      OBVIOUS
    <2>1. \E i \in named : \A j \in named : j <= i
      BY <1>1, <1>4, GreatestIndex, Zenon
    <2> QED
      BY <2>1
  <1> HIDE DEF m, named, ss, K
  <1>6. \A i \in 1 .. K : At(ss, i).file \in Files(H)
    BY <1>1, SequenceAt, TypedFields DEF K
  <1>7. <<>> \in Files(H)
    BY SeqEmpty DEF Files
  <1>8. CASE named = {}
    <2>1. FileNamed(log, base) = <<>>
      BY <1>2, <1>8
    <2>2. ~\E i \in 1 .. K : At(ss, i).base = base
      BY <1>3, <1>8
    <2> QED
      BY <1>7, <2>1, <2>2 DEF ss, K
  <1>9. CASE named # {}
    <2>1. m \in 1 .. K /\ At(ss, m).base = base /\ FileNamed(log, base) = At(ss, m).file
      BY <1>2, <1>3, <1>5, <1>9
    <2> QED
      BY <1>6, <2>1 DEF ss, K
  <1> QED
    BY <1>8, <1>9

\* Rolling changes no batch and no offset.
LEMMA RolledTyped ==
    ASSUME NEW H, Headers(H), NEW log, TypedLog(log, H), NEW l, l = Rolled(log)
    PROVE  TypedLog(l, H) /\ l.nextOffset = log.nextOffset
  <1> DEFINE seg == ActiveSegment(log)
             base == SegmentNextOffset(seg)
             new == NewSegment(base, FileNamed(log, base))
             t == Append(log.segments, new)
  <1>1. l = IF IsFull(seg) THEN [log EXCEPT !.segments = t] ELSE log
    BY DEF Rolled
  <1>2. seg \in TypedSegments(H) /\ log.segments \in Seq(TypedSegments(H))
    BY LogFields
  <1>3. base \in Nat
    BY <1>2, NextOffsetType
  <1>4. FileNamed(log, base) \in Files(H)
    BY FileNamedIs
  <1>5. new \in TypedSegments(H)
    BY <1>3, <1>4, NewSegmentTyped
  <1>6. Grown(t, log.segments, new)
    BY DEF Grown
  <1> HIDE DEF seg, base, new, t
  <1>7. t \in Seq(TypedSegments(H)) /\ t # <<>>
    BY <1>2, <1>5, <1>6, AppendedAt, SMTT(20)
  <1>8. CASE IsFull(seg)
    <2>1. l = [log EXCEPT !.segments = t]
      BY <1>1, <1>8
    <2> QED
      BY <1>7, <2>1 DEF TypedLog
  <1>9. CASE ~IsFull(seg)
    BY <1>1, <1>9
  <1> QED
    BY <1>8, <1>9

LEMMA EmptyFile ==
    ASSUME NEW H, NEW base \in Nat
    PROVE  /\ NewSegment(base, <<>>) \in GoodSegments(H)
           /\ Scanned(NewSegment(base, <<>>)) = <<>>
           /\ NewSegment(base, <<>>).base = base
           /\ SegmentNextOffset(NewSegment(base, <<>>)) = base
  <1> DEFINE f == <<>>
             seg == NewSegment(base, f)
  <1>1. f \in Files(H) /\ Len(f) = 0
    BY SeqEmpty DEF Files
  <1>2. Starts(f) = {}
    BY <1>1 DEF Starts
  <1>3. Whole(f) /\ Ordered(f, base)
    BY <1>1, <1>2 DEF Whole, Boundaries, Ordered
  <1>4. seg \in GoodSegments(H)
    <2> HIDE DEF f
    <2> QED
      BY <1>1, <1>3, NewSegmentTyped
  <1>5. seg.file = f /\ seg.base = base
    BY DEF NewSegment
  <1>6. f \in Files({}) /\ Headers({})
    BY SeqEmpty DEF Files, Headers
  <1> HIDE DEF f
  <1>7. ScanFrom(f, 0) = <<>>
    <2>1. ~BatchAt(f, 0)
      BY <1>1 DEF BatchAt, HeaderAt
    <2>2. 0 \in Nat
      OBVIOUS
    <2> QED
      BY <1>6, <2>1, <2>2, ScanRound, Zenon
  <1>8. Scanned(seg) = <<>> /\ SegmentNextOffset(seg) = base
    <2> HIDE DEF seg
    <2> QED
      BY <1>5, <1>7 DEF Scanned, SegmentNextOffset, Last
  <1> QED
    BY <1>4, <1>5, <1>8 DEF f

LEMMA RolledGood ==
    ASSUME NEW H, Headers(H), NEW log, GoodLog(log, H), NEW l, l = Rolled(log)
    PROVE  /\ GoodLog(l, H) /\ InLog(l.segments) = InLog(log.segments)
           /\ l # log => ActiveSegment(log).base < ActiveSegment(l).base
           /\ IsFull(ActiveSegment(log)) => ActiveSegment(log).base < ActiveSegment(l).base
  <1> DEFINE seg == ActiveSegment(log)
             ss == log.segments
             base == SegmentNextOffset(seg)
             new == NewSegment(base, FileNamed(log, base))
             t == Append(ss, new)
  <1>1. l = IF IsFull(seg) THEN [log EXCEPT !.segments = t] ELSE log
    BY DEF Rolled
  <1>2. /\ seg \in TypedSegments(H) /\ ss \in Seq(TypedSegments(H)) /\ ss # <<>>
        /\ seg = Last(ss) /\ TypedLog(log, H) /\ Chain(ss, H) /\ log.nextOffset = base
    BY LogFields DEF GoodLog
  <1>3. CASE ~IsFull(seg)
    BY <1>1, <1>3
  <1>4. CASE IsFull(seg)
    <2>1. base \in Nat
      BY <1>2, NextOffsetType
    <2>2. seg \in GoodSegments(H)
      BY <1>2, SequenceAt DEF Chain
    <2>3. seg.file # <<>>
      <3>1. seg.currentSize = Len(seg.file) /\ Len(seg.file) \in Nat
        BY <2>2, GoodFields
      <3>2. seg.currentSize >= SegmentMaxBytes /\ SegmentMaxBytes \in Nat \ {0}
        BY <1>4, LogFileAssumption DEF IsFull
      <3>3. Len(seg.file) # 0
        BY <3>1, <3>2
      <3> QED
        BY <3>3, SeqEmpty
    <2>4. base = SegmentNextOffset(Last(ss))
      BY <1>2
    <2> DEFINE e == NewSegment(base, <<>>)
    <2>5. /\ e \in GoodSegments(H) /\ Scanned(e) = <<>> /\ e.base = base
          /\ SegmentNextOffset(e) = base /\ e \in TypedSegments(H)
      BY <2>1, EmptyFile, GoodFields
    <2> DEFINE u == Append(ss, e)
    <2>6. Grown(u, ss, e)
      BY DEF Grown
    <2> HIDE DEF u, e, base, seg, ss
    <2>7. Chain(u, H) /\ \A i \in 1 .. Len(ss) : At(ss, i).base < e.base
      BY <1>2, <2>3, <2>4, <2>5, <2>6, ChainAppended, SMTT(20)
    <2>8. InLog(u) = InLog(ss)
      BY <1>2, <2>5, <2>6, GrownInLog, SMTT(20)
    <2>9. FileNamed(log, base) = <<>>
      <3>1. \A i \in 1 .. Len(ss) : At(ss, i) \in TypedSegments(H)
        BY <1>2, SequenceAt
      <3>2. \A i \in 1 .. Len(ss) : At(ss, i).base \in Nat
        BY <3>1, TypedFields
      <3>3. \A i \in 1 .. Len(ss) : At(ss, i).base # base
        BY <2>1, <2>5, <2>7, <3>2
      <3> QED
        BY <1>2, <3>3, FileNamedIs DEF ss
    <2>10. t = u
      BY <2>9 DEF u, e
    <2>11. l = [log EXCEPT !.segments = u]
      BY <1>1, <1>4, <2>10, SMTT(20)
    <2>12. u \in Seq(TypedSegments(H)) /\ u # <<>> /\ Last(u) = e
      BY <1>2, <2>5, <2>6, AppendedAt
    <2>13. TypedLog(l, H) /\ l.segments = u /\ l.nextOffset = log.nextOffset
      BY <1>2, <2>11, <2>12 DEF TypedLog
    <2>14. GoodLog(l, H)
      BY <1>2, <2>5, <2>7, <2>12, <2>13, SMTT(20) DEF GoodLog, ActiveSegment, Last
    <2>15. seg.base < ActiveSegment(l).base
      <3>1. ActiveSegment(l) = e
        BY <2>12, <2>13, Zenon DEF ActiveSegment, Last
      <3>2. Len(ss) \in 1 .. Len(ss) /\ seg = At(ss, Len(ss))
        BY <1>2, SequenceAt
      <3> QED
        BY <2>7, <3>1, <3>2, Zenon
    <2> QED
      BY <2>8, <2>13, <2>14, <2>15, SMTT(20) DEF ss, seg
  <1> QED
    BY <1>3, <1>4

\* The batch goes to the end of the active segment.
LEMMA AppendActive ==
    ASSUME NEW H, Headers(H), NEW r, GoodLog(r, H), NEW o, o = r.nextOffset,
           NEW blob, Patched(blob, o) \in Files(H),
           NEW c \in H, IsBatch(Patched(blob, o), c), c.base = o,
           NEW old, old = ActiveSegment(r), NEW seg, seg = SegmentAppend(old, o, blob)
    PROVE  /\ seg \in GoodSegments(H) /\ seg.base = old.base
           /\ SegmentNextOffset(seg) = o + c.n
           /\ Joined(Scanned(seg), Scanned(Last(r.segments)), <<c>>)
  <1>1. /\ o = SegmentNextOffset(old) /\ Chain(r.segments, H) /\ old = Last(r.segments)
        /\ r.segments \in Seq(TypedSegments(H)) /\ r.segments # <<>>
    BY LogFields DEF GoodLog
  <1>2. old \in GoodSegments(H)
    BY <1>1, SequenceAt, SMTT(20) DEF Chain
  <1>3. /\ seg \in GoodSegments(H) /\ seg.base = old.base
        /\ SegmentNextOffset(seg) = LastOffset(c) + 1
        /\ Joined(ScanFrom(seg.file, 0), ScanFrom(old.file, 0), <<c>>)
    BY <1>1, <1>2, SegmentAppendGood, SMTT(20)
  <1>4. LastOffset(c) + 1 = o + c.n
    BY DEF Headers, LastOffset
  <1> QED
    BY <1>1, <1>3, <1>4, Zenon DEF Scanned

Advanced(log, n) == [log EXCEPT !.nextOffset = @ + n]

\* What AppendRaw does once it has written the batch to the segment.
LEMMA AdvancedGood ==
    ASSUME NEW H, Headers(H), NEW r, GoodLog(r, H), NEW c \in H,
           NEW seg \in GoodSegments(H), seg.base = ActiveSegment(r).base,
           SegmentNextOffset(seg) = r.nextOffset + c.n,
           Joined(Scanned(seg), Scanned(Last(r.segments)), <<c>>),
           NEW w, w = WithActive(r, seg), NEW l, l = Advanced(w, c.n)
    PROVE  /\ GoodLog(l, H) /\ Joined(InLog(l.segments), InLog(r.segments), <<c>>)
           /\ ActiveSegment(l).base = seg.base /\ l.nextOffset = r.nextOffset + c.n
  <1>1. /\ TypedLog(r, H) /\ r.segments \in Seq(TypedSegments(H)) /\ r.segments # <<>>
        /\ seg \in TypedSegments(H)
    BY LogFields, GoodFields DEF GoodLog
  <1>2. /\ TypedLog(w, H) /\ Relaid(w.segments, r.segments, seg)
        /\ w.nextOffset = r.nextOffset /\ ActiveSegment(w) = seg
    BY <1>1, WithActiveFields
  <1>3. l.segments = w.segments /\ l.nextOffset = r.nextOffset + c.n
    BY <1>2 DEF TypedLog, Advanced
  <1>4. c.n \in Nat
    BY DEF Headers
  <1>5. TypedLog(l, H)
    BY <1>2, <1>4, SMTT(20) DEF TypedLog, Advanced
  <1>6. ActiveSegment(l) = seg
    BY <1>2, <1>3, Zenon DEF ActiveSegment
  <1>7. GoodLog(l, H)
    <2>1. Relaid(l.segments, r.segments, seg) /\ l.nextOffset = SegmentNextOffset(seg)
      BY <1>2, <1>3, Zenon
    <2> QED
      BY <1>5, <1>6, <2>1, WithActiveGood, Zenon
  <1>8. Joined(InLog(w.segments), InLog(r.segments), <<c>>)
    <2>1. <<c>> \in Seq(H)
      OBVIOUS
    <2> QED
      BY <1>1, <1>2, <2>1, RelaidInLog, Zenon
  <1> QED
    BY <1>3, <1>6, <1>7, <1>8, Zenon

\* AppendRaw. What was in the log stays and the batch follows it, with the
\* offset after the last one.
LEMMA AppendRawGood ==
    ASSUME NEW H, Headers(H), NEW log, GoodLog(log, H),
           NEW blob, Patched(blob, log.nextOffset) \in Files(H),
           NEW c \in H, IsBatch(Patched(blob, log.nextOffset), c),
           c.base = log.nextOffset,
           NEW l, l = AppendRaw(log, blob, c.n)
    PROVE  /\ GoodLog(l, H) /\ Joined(InLog(l.segments), InLog(log.segments), <<c>>)
           /\ ActiveSegment(l).base = ActiveSegment(Rolled(log)).base
           /\ l.nextOffset = log.nextOffset + c.n
  <1> DEFINE r == Rolled(log)
             o == r.nextOffset
             old == ActiveSegment(r)
             seg == SegmentAppend(old, o, blob)
             w == WithActive(r, seg)
  <1>1. TypedLog(log, H)
    BY DEF GoodLog
  <1>2. GoodLog(r, H) /\ o = log.nextOffset /\ InLog(r.segments) = InLog(log.segments)
    BY <1>1, RolledGood, RolledTyped, SMTT(20)
  <1>3. l = Advanced(w, c.n)
    BY DEF AppendRaw, Advanced
  <1>4. /\ Patched(blob, o) \in Files(H) /\ IsBatch(Patched(blob, o), c) /\ c.base = o
        /\ old = ActiveSegment(r) /\ seg = SegmentAppend(old, o, blob)
        /\ w = WithActive(r, seg)
    BY <1>2, Zenon
  <1> HIDE DEF r, o, old, seg, w
  <1>5. o = r.nextOffset /\ old.base = ActiveSegment(Rolled(log)).base
    BY DEF o, old, r
  <1>6. /\ seg \in GoodSegments(H) /\ seg.base = old.base
        /\ SegmentNextOffset(seg) = o + c.n
        /\ Joined(Scanned(seg), Scanned(Last(r.segments)), <<c>>)
    BY <1>2, <1>4, <1>5, AppendActive, SMTT(20)
  <1>7. /\ GoodLog(l, H) /\ Joined(InLog(l.segments), InLog(r.segments), <<c>>)
        /\ ActiveSegment(l).base = seg.base /\ l.nextOffset = r.nextOffset + c.n
    BY <1>2, <1>3, <1>4, <1>5, <1>6, AdvancedGood, SMTT(20)
  <1> QED
    BY <1>2, <1>5, <1>6, <1>7, Zenon

\* Where the base offsets can be sorted, Names sorts them.
LEMMA NamesAre ==
    ASSUME NEW H, NEW log, TypedLog(log, H),
           NEW f \in [1 .. Len(log.segments) -> Nat],
           \A i \in 1 .. Len(log.segments) : f[i] = At(log.segments, i).base,
           NEW n \in 1 .. Len(log.segments), NEW s, Sorts(s, n, f, Len(log.segments))
    PROVE  \E C \in 1 .. Len(log.segments) : Sorts(Names(log), C, f, Len(log.segments))
  <1> DEFINE ss == log.segments
             K == Len(ss)
             bases == {ss[i].base : i \in DOMAIN ss}
             Lists == UNION {[1 .. k -> bases] : k \in DOMAIN ss}
             Good(g) == /\ \A i, j \in DOMAIN g : i < j => g[i] < g[j]
                        /\ \A x \in bases : \E i \in DOMAIN g : g[i] = x
             names == CHOOSE g \in Lists : Good(g)
  <1>1. DOMAIN ss = 1 .. K
    BY LogFields, SeqLen
  <1>2. Names(log) = names
    BY DEF Names
  <1>3. \A i \in 1 .. K : ss[i].base = f[i]
    BY DEF At
  <1>4. /\ \A x : x \in bases <=> \E i \in 1 .. K : x = f[i]
        /\ \A g : g \in Lists <=> \E k \in 1 .. K : g \in [1 .. k -> bases]
    BY <1>1, <1>3, Zenon
  <1> HIDE DEF bases, Lists
  <1>5. bases \subseteq Nat
    BY <1>4
  <1>6. s \in [1 .. n -> Nat] /\ Increasing(s) /\ Covers(s, n, f, K)
    BY DEF Sorts
  <1>7. s \in Lists /\ Good(s)
    <2>1. \A i \in 1 .. n : s[i] \in bases
      BY <1>4, <1>6, Zenon DEF Covers, At
    <2>2. s \in [1 .. n -> bases] /\ DOMAIN s = 1 .. n
      BY <1>6, <2>1
    <2>3. ASSUME NEW x \in bases
          PROVE  \E i \in DOMAIN s : s[i] = x
      <3>1. PICK j \in 1 .. K : x = f[j]
        BY <1>4, Zenon
      <3> QED
        BY <1>6, <2>2, <3>1, Zenon DEF Covers, At
    <2> QED
      BY <1>4, <1>6, <2>2, <2>3, Zenon DEF Increasing
  <1> HIDE DEF Good
  <1>8. names \in Lists /\ Good(names)
    BY <1>7, Zenon
  <1> HIDE DEF names
  <1>9. PICK C \in 1 .. K : names \in [1 .. C -> bases]
    BY <1>4, <1>8, Zenon
  <1>10. names \in [1 .. C -> Nat] /\ DOMAIN names = 1 .. C
    <2>1. \A i \in 1 .. C : names[i] \in Nat
      BY <1>5, <1>9, Zenon
    <2> QED
      BY <1>9, <2>1
  <1>11. Sorts(names, C, f, K)
    <2>1. \A i \in 1 .. C : \E j \in 1 .. K : names[i] = f[j]
      BY <1>4, <1>9, Zenon
    <2>2. \A j \in 1 .. K : f[j] \in bases
      BY <1>4, Zenon
    <2>3. \A j \in 1 .. K : \E i \in 1 .. C : names[i] = f[j]
      BY <1>8, <1>10, <2>2, Zenon DEF Good
    <2> QED
      BY <1>8, <1>10, <2>1, <2>3, Zenon DEF Sorts, Covers, Increasing, Good, At
  <1> QED
    BY <1>2, <1>11

Rising(ss) == \A i, j \in 1 .. Len(ss) : i < j => At(ss, i).base < At(ss, j).base

\* Where the names of the segments increase NewCommitLog opens the segments as
\* they were.
LEMMA Reopened ==
    ASSUME NEW H, Headers(H), NEW log, TypedLog(log, H), Rising(log.segments),
           NEW l, l = NewCommitLog(log)
    PROVE  /\ DOMAIN l.segments = 1 .. Len(log.segments)
           /\ \A i \in 1 .. Len(log.segments) :
                 At(l.segments, i)
                   = NewSegment(At(log.segments, i).base, At(log.segments, i).file)
           /\ l.nextOffset = SegmentNextOffset(Last(l.segments))
           /\ TypedLog(l, H)
  <1> DEFINE ss == log.segments
             K == Len(ss)
             b == [i \in 1 .. K |-> At(ss, i).base]
             names == Names(log)
             opened == [i \in DOMAIN names |->
                           NewSegment(names[i], FileNamed(log, names[i]))]
  <1>1. l = [segments |-> opened, nextOffset |-> SegmentNextOffset(Last(opened))]
    BY DEF NewCommitLog, Last
  <1>2. K \in Nat \ {0} /\ \A i \in 1 .. K : At(ss, i).base \in Nat /\ At(ss, i).file \in Files(H)
    <2>1. ss \in Seq(TypedSegments(H)) /\ ss # <<>>
      BY LogFields
    <2>2. K \in Nat \ {0} /\ \A i \in 1 .. K : At(ss, i) \in TypedSegments(H)
      BY <2>1, SequenceAt
    <2> QED
      BY <2>2, TypedFields
  <1>3. b \in [1 .. K -> Nat] /\ Increasing(b) /\ \A i \in 1 .. K : b[i] = At(ss, i).base
    BY <1>2 DEF Rising, Increasing
  <1> HIDE DEF b
  <1>4. names = b
    <2>1. Sorts(b, K, b, K) /\ K \in 1 .. K
      <3>1. K \in 1 .. K
        BY <1>2
      <3> QED
        BY <1>3, <3>1, Zenon DEF Sorts, Covers
    <2>2. PICK C \in 1 .. K : Sorts(names, C, b, K)
      BY <1>3, <2>1, NamesAre, Zenon
    <2> QED
      BY <1>2, <1>3, <2>2, SortUnique
  <1>5. DOMAIN names = 1 .. K /\ \A i \in 1 .. K : names[i] = At(ss, i).base
    BY <1>3, <1>4
  <1> HIDE DEF names
  <1>6. ASSUME NEW i \in 1 .. K
        PROVE  FileNamed(log, At(ss, i).base) = At(ss, i).file
    <2>1. PICK j \in 1 .. K : /\ At(ss, j).base = At(ss, i).base
                              /\ FileNamed(log, At(ss, i).base) = At(ss, j).file
      BY FileNamedIs
    <2>2. i = j
      <3>1. i < j => At(ss, i).base < At(ss, j).base
        BY DEF Rising
      <3>2. j < i => At(ss, j).base < At(ss, i).base
        BY DEF Rising
      <3>3. ~(i < j) /\ ~(j < i)
        BY <1>2, <2>1, <3>1, <3>2, SMTT(20)
      <3> QED
        BY <1>2, <3>3
    <2> QED
      BY <2>1, <2>2
  <1>7. \A i \in 1 .. K : opened[i] = NewSegment(At(ss, i).base, At(ss, i).file)
    BY <1>5, <1>6
  <1>8. l.segments = opened /\ l.nextOffset = SegmentNextOffset(Last(opened))
    BY <1>1
  <1>9. DOMAIN opened = 1 .. K
    BY <1>5
  <1> HIDE DEF opened
  <1>10. opened \in Seq(TypedSegments(H)) /\ opened # <<>>
    <2>0. opened = [i \in 1 .. K |-> opened[i]]
      BY <1>9 DEF opened
    <2>1. \A i \in 1 .. K : NewSegment(At(ss, i).base, At(ss, i).file) \in TypedSegments(H)
      BY <1>2, NewSegmentTyped
    <2>2. opened \in [1 .. K -> TypedSegments(H)]
      BY <1>7, <2>0, <2>1, Zenon
    <2> QED
      BY <1>2, <1>9, <2>2
  <1>11. TypedLog(l, H)
    BY <1>1, <1>10, MakeLog, SequenceAt, NextOffsetType
  <1> QED
    BY <1>7, <1>8, <1>9, <1>11 DEF At

LEMMA SameEnd ==
    ASSUME NEW s, NEW t, s.base = t.base, Scanned(s) = Scanned(t)
    PROVE  SegmentNextOffset(s) = SegmentNextOffset(t)
  BY DEF SegmentNextOffset, Scanned, Last

LEMMA ChainReopened ==
    ASSUME NEW H, NEW ss, Chain(ss, H), NEW t \in Seq(TypedSegments(H)),
           DOMAIN t = 1 .. Len(ss),
           \A i \in 1 .. Len(ss) : At(t, i) = NewSegment(At(ss, i).base, At(ss, i).file)
    PROVE  /\ Chain(t, H)
           /\ InLog(t) = InLog(ss)
           /\ SegmentNextOffset(Last(t)) = SegmentNextOffset(Last(ss))
           /\ Last(t).base = Last(ss).base
  <1> DEFINE K == Len(ss)
  <1>1. /\ ss \in Seq(GoodSegments(H)) /\ K \in Nat \ {0} /\ Last(ss) = At(ss, K)
        /\ \A i \in 1 .. K : At(ss, i) \in GoodSegments(H)
    BY SequenceAt, Zenon DEF Chain
  <1>2. Len(t) = K
    BY <1>1, SeqLen
  <1>3. t # <<>> /\ Last(t) = At(t, K)
    BY <1>1, <1>2, SeqEmpty, SequenceAt, SMTT(20)
  <1>4. ASSUME NEW i \in 1 .. K
        PROVE  /\ At(t, i) \in GoodSegments(H)
               /\ At(t, i).base = At(ss, i).base /\ At(t, i).file = At(ss, i).file
    <2>1. /\ At(ss, i).base \in Nat /\ At(ss, i).file \in Files(H)
          /\ Whole(At(ss, i).file) /\ Ordered(At(ss, i).file, At(ss, i).base)
      BY <1>1, GoodFields, SMTT(20)
    <2>2. NewSegment(At(ss, i).base, At(ss, i).file) \in GoodSegments(H)
      BY <2>1, NewSegmentTyped
    <2>3. At(t, i) = NewSegment(At(ss, i).base, At(ss, i).file)
      OBVIOUS
    <2>4. At(t, i).base = At(ss, i).base /\ At(t, i).file = At(ss, i).file
      BY <2>3 DEF NewSegment
    <2> QED
      BY <2>2, <2>3, <2>4
  <1>5. \A i \in 1 .. K : /\ Scanned(At(t, i)) = Scanned(At(ss, i))
                          /\ SegmentNextOffset(At(t, i)) = SegmentNextOffset(At(ss, i))
    <2>1. \A i \in 1 .. K : Scanned(At(t, i)) = Scanned(At(ss, i))
      BY <1>4 DEF Scanned
    <2> QED
      BY <1>4, <2>1, SameEnd, SMTT(20)
  <1>6. t \in Seq(GoodSegments(H))
    <2>1. \A i \in 1 .. K : t[i] \in GoodSegments(H)
      BY <1>4 DEF At
    <2>2. t \in [1 .. K -> GoodSegments(H)]
      BY <1>2, <2>1, SeqLen
    <2> QED
      BY <1>1, <2>2
  <1>7. \A i \in 1 .. K - 1 : i \in 1 .. K /\ i + 1 \in 1 .. K
    BY <1>1
  <1>8. 1 \in 1 .. K /\ K \in 1 .. K
    BY <1>1
  <1> HIDE DEF K
  <1>9. At(t, 1).base = 0
    BY <1>4, <1>8 DEF Chain
  <1>10. \A i \in 1 .. K - 1 : /\ At(t, i).file # <<>>
                               /\ At(t, i + 1).base = SegmentNextOffset(At(t, i))
    BY <1>4, <1>5, <1>7, SMTT(20) DEF Chain, K
  <1>11. \A i, j \in 1 .. K : i < j => At(t, i).base < At(t, j).base
    BY <1>4 DEF Chain, K
  <1>12. Chain(t, H)
    BY <1>2, <1>3, <1>6, <1>9, <1>10, <1>11 DEF Chain
  <1>13. Scans(t) = Scans(ss)
    BY <1>2, <1>5, SMTT(20) DEF Scans, K
  <1> QED
    BY <1>1, <1>3, <1>4, <1>5, <1>8, <1>12, <1>13, SMTT(20) DEF InLog

\* A restart keeps a good log as it is, but for its index.
LEMMA NewCommitLogGood ==
    ASSUME NEW H, Headers(H), NEW log, GoodLog(log, H), NEW l, l = NewCommitLog(log)
    PROVE  /\ GoodLog(l, H)
           /\ InLog(l.segments) = InLog(log.segments)
           /\ l.nextOffset = log.nextOffset
           /\ ActiveSegment(l).base = ActiveSegment(log).base
  <1>1. TypedLog(log, H) /\ Chain(log.segments, H) /\ Rising(log.segments)
    BY DEF GoodLog, Chain, Rising
  <1>2. TypedLog(l, H) /\ l.segments \in Seq(TypedSegments(H))
    BY <1>1, Reopened, LogFields, SMTT(20)
  <1>3. /\ DOMAIN l.segments = 1 .. Len(log.segments)
        /\ \A i \in 1 .. Len(log.segments) :
              At(l.segments, i) = NewSegment(At(log.segments, i).base, At(log.segments, i).file)
        /\ l.nextOffset = SegmentNextOffset(Last(l.segments))
    BY <1>1, Reopened
  <1>4. /\ Chain(l.segments, H) /\ InLog(l.segments) = InLog(log.segments)
        /\ SegmentNextOffset(Last(l.segments)) = SegmentNextOffset(Last(log.segments))
        /\ Last(l.segments).base = Last(log.segments).base
    BY <1>1, <1>2, <1>3, ChainReopened, Zenon
  <1> QED
    BY <1>1, <1>2, <1>3, <1>4, SMTT(20) DEF GoodLog, ActiveSegment, Last

LEMMA EmptyLogGood ==
    ASSUME NEW H, Headers(H)
    PROVE  GoodLog(EmptyLog, H) /\ InLog(EmptyLog.segments) = <<>> /\ EmptyLog.nextOffset = 0
  <1> DEFINE seg == NewSegment(0, <<>>)
             ss == <<seg>>
  <1>1. /\ seg \in GoodSegments(H) /\ seg \in TypedSegments(H) /\ seg.base = 0
        /\ Scanned(seg) = <<>> /\ SegmentNextOffset(seg) = 0
    <2>1. 0 \in Nat
      OBVIOUS
    <2> QED
      BY <2>1, EmptyFile, GoodFields
  <1>2. EmptyLog = [segments |-> ss, nextOffset |-> 0]
    BY DEF EmptyLog
  <1> HIDE DEF seg
  <1>3. /\ ss \in Seq(GoodSegments(H)) /\ ss \in Seq(TypedSegments(H)) /\ ss # <<>>
        /\ Len(ss) = 1 /\ At(ss, 1) = seg /\ Last(ss) = seg
    BY <1>1 DEF At, Last
  <1> HIDE DEF ss
  <1>4. Chain(ss, H)
    BY <1>1, <1>3, SMTT(20) DEF Chain
  <1>5. TypedLog(EmptyLog, H) /\ EmptyLog.segments = ss /\ EmptyLog.nextOffset = 0
    BY <1>2, <1>3, MakeLog, SMTT(20)
  <1>6. GoodLog(EmptyLog, H)
    BY <1>1, <1>3, <1>4, <1>5, ZenonT(30) DEF GoodLog, ActiveSegment, Last
  <1>7. InLog(ss) = <<>>
    <2>1. InLog(ss) \in Seq(H) /\ \A b : b \notin Range(InLog(ss))
      <3>1. \A b : b \notin Range(<<>>)
        BY DEF Range
      <3>2. \A i \in 1 .. 1 : At(ss, i) = seg
        BY <1>3
      <3> QED
        BY <1>1, <1>3, <3>1, <3>2, InLogSet, Zenon
    <2>2. InLog(ss) # <<>> => InLog(ss)[1] \in Range(InLog(ss))
      BY <2>1, SeqEmpty, SeqLen, SMTT(20) DEF Range
    <2> QED
      BY <2>1, <2>2
  <1> QED
    BY <1>5, <1>6, <1>7

\* WalkBatchHeadersFrom(0) finds what the segments hold.
LEMMA WalkIsInLog ==
    ASSUME NEW H, Headers(H), NEW l, GoodLog(l, H)
    PROVE  WalkBatchHeadersFrom(l, 0) = InLog(l.segments)
  <1> DEFINE ss == l.segments
             below == {i \in DOMAIN l.segments : l.segments[i].base <= 0}
             first == IF below = {} THEN 1
                      ELSE CHOOSE i \in below : \A j \in below : j <= i
             walks == [i \in 1 .. Len(l.segments) - first + 1 |->
                          WalkBatchHeaders(l.segments[first + i - 1].file, 0)]
  <1>1. WalkBatchHeadersFrom(l, 0) = Concatenation(walks)
    BY DEF WalkBatchHeadersFrom
  <1>2. /\ ss \in Seq(TypedSegments(H)) /\ ss # <<>> /\ Chain(ss, H)
        /\ Len(ss) \in Nat \ {0} /\ DOMAIN ss = 1 .. Len(ss)
        /\ \A i \in 1 .. Len(ss) : At(ss, i) \in TypedSegments(H)
    BY LogFields, SequenceAt, SeqLen, SMTT(20) DEF GoodLog
  <1>3. \A i \in 1 .. Len(ss) : /\ At(ss, i).base \in Nat /\ At(ss, i).file \in Files(H)
                                /\ ss[i] = At(ss, i)
    BY <1>2, TypedFields DEF At
  <1>4. below = {1}
    <2>1. 1 \in 1 .. Len(ss) /\ At(ss, 1).base = 0
      BY <1>2 DEF Chain
    <2>2. ASSUME NEW i \in 1 .. Len(ss), i # 1
          PROVE  ~(At(ss, i).base <= 0)
      <3>1. 1 < i
        BY <1>2, <2>2
      <3>2. At(ss, 1).base < At(ss, i).base
        BY <1>2, <2>1, <3>1, SMTT(20) DEF Chain
      <3> QED
        BY <1>3, <2>1, <3>2, SMTT(20)
    <2> QED
      BY <1>2, <1>3, <2>1, <2>2
  <1>5. first = 1
    <2> HIDE DEF below
    <2> QED
      BY <1>4
  <1> HIDE DEF first
  <1>6. walks = [i \in 1 .. Len(ss) |-> WalkBatchHeaders(ss[i].file, 0)]
    <2>1. Len(ss) - first + 1 = Len(ss) /\ \A i \in 1 .. Len(ss) : first + i - 1 = i
      BY <1>2, <1>5, SMTT(20)
    <2> QED
      BY <2>1
  <1>7. \A i \in 1 .. Len(ss) : WalkBatchHeaders(ss[i].file, 0) = Scanned(At(ss, i))
    <2>1. ASSUME NEW i \in 1 .. Len(ss)
          PROVE  \A p \in Starts(At(ss, i).file) : Cell(At(ss, i).file, p).base >= 0
      <3> TAKE p \in Starts(At(ss, i).file)
      <3>1. At(ss, i).file \in Files(H) /\ p \in Nat /\ p < Len(At(ss, i).file)
        BY <1>3, SeqLen DEF Starts, Files
      <3>2. Cell(At(ss, i).file, p) \in H
        BY <3>1, CellTypes DEF Starts
      <3> QED
        BY <3>2 DEF Headers
    <2>2. ASSUME NEW i \in 1 .. Len(ss)
          PROVE  WalkBatchHeaders(At(ss, i).file, 0) = ScanFrom(At(ss, i).file, 0)
      BY <1>3, <2>1, WalkAll, Zenon
    <2> QED
      BY <1>3, <2>2, Zenon DEF Scanned
  <1>8. walks = Scans(ss)
    BY <1>6, <1>7, Zenon DEF Scans
  <1> QED
    BY <1>1, <1>8 DEF InLog
=============================================================================
