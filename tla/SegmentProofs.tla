---------------------------- MODULE SegmentProofs ----------------------------
(***************************************************************************)
(* What LogFile computes in one segment: the scans, searches and loops     *)
(* over a segment file of any length, and what writing to it preserves.    *)
(*                                                                         *)
(* The loops are recursive functions. That such a function exists, and     *)
(* what it returns, follows from the least element of a set of numbers,    *)
(* taken of the number of rounds that are left.                            *)
(***************************************************************************)
EXTENDS LogFile, Functions, WellFoundedInduction, TLAPS

\* A set of numbers has a least element.
LEMMA LeastNumber ==
    ASSUME NEW T, T \subseteq Nat, T # {}
    PROVE  \E x \in T : \A y \in T : x <= y
  <1>1. PICK x \in T : \A y \in T : ~(<<y, x>> \in OpToRel(<, Nat))
    BY NatLessThanWellFounded, WFMin, Zenon
  <1>2. \A y \in T : ~(y < x)
    BY <1>1, Zenon DEF OpToRel
  <1> QED
    BY <1>2

(***************************************************************************)
(* Sorted names.                                                           *)
(***************************************************************************)

At(ss, i) == ss[i]

Increasing(s) == \A i, j \in DOMAIN s : i < j => s[i] < s[j]

\* The elements of s are those of b.
Covers(s, n, b, K) ==
    /\ \A i \in 1 .. n : \E j \in 1 .. K : At(s, i) = At(b, j)
    /\ \A j \in 1 .. K : \E i \in 1 .. n : At(s, i) = At(b, j)

Sorts(s, n, b, K) ==
    /\ s \in [1 .. n -> Nat] /\ Increasing(s) /\ Covers(s, n, b, K)

\* There is only one way to sort.
LEMMA SortUnique ==
    ASSUME NEW K \in Nat, NEW b \in [1 .. K -> Nat], Increasing(b),
           NEW n \in Nat, NEW s, Sorts(s, n, b, K)
    PROVE  n = K /\ s = b
  <1> USE DEF At
  <1>1. /\ s \in [1 .. n -> Nat] /\ Covers(s, n, b, K)
        /\ \A i, j \in 1 .. n : i < j => s[i] < s[j]
        /\ \A i, j \in 1 .. K : i < j => b[i] < b[j]
        /\ \A i \in 1 .. n : s[i] \in Nat
        /\ \A i \in 1 .. K : b[i] \in Nat
    BY DEF Sorts, Increasing
  <1>2. \A i, j \in Nat : i < j \/ i = j \/ j < i
    OBVIOUS
  <1> DEFINE Bad == {k \in Nat : k \in 1 .. n /\ k \in 1 .. K /\ s[k] # b[k]}
  <1>3. Bad = {}
    <2> SUFFICES ASSUME Bad # {} PROVE FALSE
      OBVIOUS
    <2>1. PICK k \in Bad : \A j \in Bad : k <= j
      <3>1. Bad \subseteq Nat
        OBVIOUS
      <3> HIDE DEF Bad
      <3> QED
        BY <3>1, LeastNumber, Zenon
    <2>2. k \in Nat /\ k \in 1 .. n /\ k \in 1 .. K /\ s[k] # b[k]
      BY <2>1
    <2>3. \A j \in Nat : j < k /\ j # 0 => j \in 1 .. n /\ j \in 1 .. K /\ ~(k <= j)
      BY <2>2
    <2>4. \A j \in Nat : j < k /\ j # 0 => s[j] = b[j]
      BY <2>1, <2>3, Zenon
    <2>5. CASE s[k] < b[k]
      <3>1. PICK j \in 1 .. K : s[k] = b[j]
        BY <1>1, <2>2, Zenon DEF Covers
      <3>2. j < k
        BY <1>1, <2>2, <2>5, <3>1
      <3>3. s[j] = b[j] /\ j \in 1 .. n
        BY <2>3, <2>4, <3>1, <3>2
      <3>4. s[j] < s[k] /\ s[j] = s[k] /\ s[k] \in Nat
        BY <1>1, <2>2, <3>1, <3>2, <3>3
      <3> QED
        BY <3>4
    <2>6. CASE b[k] < s[k]
      <3>1. PICK j \in 1 .. n : s[j] = b[k]
        BY <1>1, <2>2, Zenon DEF Covers
      <3>2. j < k
        BY <1>1, <2>2, <2>6, <3>1
      <3>3. s[j] = b[j] /\ j \in 1 .. K
        BY <2>3, <2>4, <3>1, <3>2
      <3>4. b[j] < b[k] /\ b[j] = b[k] /\ b[k] \in Nat
        BY <1>1, <2>2, <3>1, <3>2, <3>3, Zenon
      <3> QED
        BY <3>4
    <2> QED
      BY <1>1, <1>2, <2>2, <2>5, <2>6
  <1>4. \A k \in 1 .. n : k \in 1 .. K => s[k] = b[k]
    BY <1>3
  <1> HIDE DEF Bad
  <1>5. ~(n < K)
    <2> SUFFICES ASSUME n < K PROVE FALSE
      OBVIOUS
    <2>1. n + 1 \in 1 .. K /\ \A i \in 1 .. n : i \in 1 .. K /\ i < n + 1
      OBVIOUS
    <2>2. PICK j \in 1 .. n : s[j] = b[n + 1]
      BY <1>1, <2>1, Zenon DEF Covers
    <2>3. b[j] < b[n + 1] /\ b[j] = b[n + 1] /\ b[j] \in Nat
      BY <1>1, <1>4, <2>1, <2>2
    <2> QED
      BY <2>3
  <1>6. ~(K < n)
    <2> SUFFICES ASSUME K < n PROVE FALSE
      OBVIOUS
    <2>1. K + 1 \in 1 .. n /\ \A i \in 1 .. K : i \in 1 .. n /\ i < K + 1
      OBVIOUS
    <2>2. PICK j \in 1 .. K : s[K + 1] = b[j]
      BY <1>1, <2>1, Zenon DEF Covers
    <2>3. s[j] < s[K + 1] /\ s[j] = s[K + 1] /\ s[j] \in Nat
      BY <1>1, <1>4, <2>1, <2>2
    <2> QED
      BY <2>3
  <1>7. n = K
    BY <1>5, <1>6
  <1> QED
    BY <1>1, <1>4, <1>7

(***************************************************************************)
(* What is built into the provers about sequences, as facts to cite.       *)
(***************************************************************************)

LEMMA SeqEmpty ==
    ASSUME NEW S
    PROVE  <<>> \in Seq(S) /\ Len(<<>>) = 0
           /\ \A s \in Seq(S) : s # <<>> => Len(s) \in Nat \ {0}
  OBVIOUS

LEMMA SeqLen ==
    ASSUME NEW S, NEW s \in Seq(S)
    PROVE  Len(s) \in Nat /\ s \in [1 .. Len(s) -> S] /\ DOMAIN s = 1 .. Len(s)
  OBVIOUS

LEMMA SeqElement ==
    ASSUME NEW S, NEW s \in Seq(S), NEW i \in 1 .. Len(s)
    PROVE  s[i] \in S
  OBVIOUS

LEMMA SeqAppend ==
    ASSUME NEW S, NEW s \in Seq(S), NEW x \in S
    PROVE  /\ Append(s, x) \in Seq(S) /\ Append(s, x) # <<>>
           /\ Len(Append(s, x)) = Len(s) + 1
           /\ \A i \in 1 .. Len(s) : Append(s, x)[i] = s[i]
           /\ Append(s, x)[Len(s) + 1] = x
  OBVIOUS

LEMMA SeqConcat ==
    ASSUME NEW S, NEW s \in Seq(S), NEW t \in Seq(S)
    PROVE  /\ s \o t \in Seq(S) /\ Len(s \o t) = Len(s) + Len(t)
           /\ \A i \in 1 .. Len(s) + Len(t) :
                 (s \o t)[i] = IF i <= Len(s) THEN s[i] ELSE t[i - Len(s)]
  OBVIOUS

LEMMA SeqSame ==
    ASSUME NEW S, NEW s \in Seq(S), NEW t \in Seq(S), Len(s) = Len(t),
           \A i \in 1 .. Len(s) : s[i] = t[i]
    PROVE  s = t
  OBVIOUS

LEMMA SeqNothing ==
    ASSUME NEW S, NEW s \in Seq(S)
    PROVE  s \o <<>> = s /\ <<>> \o s = s
  OBVIOUS

LEMMA SeqAssoc ==
    ASSUME NEW S, NEW s \in Seq(S), NEW t \in Seq(S), NEW u \in Seq(S)
    PROVE  (s \o t) \o u = s \o (t \o u)
  OBVIOUS

LEMMA SeqExcept ==
    ASSUME NEW S, NEW s \in Seq(S), NEW i \in 1 .. Len(s), NEW x \in S
    PROVE  /\ [s EXCEPT ![i] = x] \in Seq(S)
           /\ Len([s EXCEPT ![i] = x]) = Len(s)
           /\ \A j \in 1 .. Len(s) : [s EXCEPT ![i] = x][j] = IF j = i THEN x ELSE s[j]
  OBVIOUS

LEMMA SeqAppendIs ==
    ASSUME NEW S, NEW s \in Seq(S), NEW x \in S
    PROVE  Append(s, x) = s \o <<x>>
  OBVIOUS

LEMMA SeqRange ==
    ASSUME NEW S, NEW s \in Seq(S), NEW t \in Seq(S)
    PROVE  Range(s \o t) = Range(s) \cup Range(t)
  <1>1. \A i \in 1 .. Len(t) : Len(s) + i \in 1 .. Len(s \o t) /\ (s \o t)[Len(s) + i] = t[i]
    OBVIOUS
  <1>2. Range(s) \subseteq Range(s \o t)
    BY DEF Range
  <1>3. Range(t) \subseteq Range(s \o t)
    <2>1. DOMAIN t = 1 .. Len(t) /\ DOMAIN (s \o t) = 1 .. Len(s \o t)
      OBVIOUS
    <2> DEFINE u == s \o t
    <2>2. \A i \in DOMAIN t : \E j \in DOMAIN u : t[i] = u[j]
      BY <1>1, <2>1, Zenon
    <2> HIDE DEF u
    <2>3. Range(t) \subseteq Range(u)
      BY <2>2, Zenon DEF Range
    <2> QED
      BY <2>3 DEF u
  <1>4. Range(s \o t) \subseteq Range(s) \cup Range(t)
    BY DEF Range
  <1> QED
    BY <1>2, <1>3, <1>4

LEMMA SeqPart ==
    ASSUME NEW S, NEW s, NEW m \in Int, NEW n \in Int, \A i \in m .. n : s[i] \in S
    PROVE  /\ SubSeq(s, m, n) \in Seq(S)
           /\ Len(SubSeq(s, m, n)) = IF m <= n THEN n - m + 1 ELSE 0
           /\ \A i \in 1 .. n - m + 1 : SubSeq(s, m, n)[i] = s[m + i - 1]
  OBVIOUS

(***************************************************************************)
(* Loops. v ranges over the values L.D of the loop's variables: the loop   *)
(* ends where L.stop[v] with L.value[v], and goes on with L.step[v].       *)
(* left[v] bounds the rounds that are left.                                *)
(***************************************************************************)

Loop(L, left) ==
    /\ left \in [L.D -> Nat]
    /\ \A v \in L.D : ~L.stop[v] => L.step[v] \in L.D /\ left[L.step[v]] < left[v]

\* What holds where a loop ends, and before a round if it holds after it, holds
\* for all values of its variables.
LEMMA LoopInduction ==
    ASSUME NEW L, NEW left, Loop(L, left),
           NEW I,
           \A v \in L.D : L.stop[v] => v \in I,
           \A v \in L.D : ~L.stop[v] /\ L.step[v] \in I => v \in I
    PROVE  L.D \subseteq I
  <1> SUFFICES ASSUME L.D \ I # {} PROVE FALSE
    OBVIOUS
  <1> DEFINE T == {left[v] : v \in L.D \ I}
  <1>1. T \subseteq Nat /\ T # {}
    BY DEF Loop
  <1>2. PICK m \in T : \A k \in T : m <= k
    BY <1>1, LeastNumber, Zenon
  <1>3. PICK v \in L.D \ I : m = left[v]
    BY <1>2
  <1>4. ~L.stop[v] /\ L.step[v] \in L.D /\ left[L.step[v]] < left[v]
    BY <1>3 DEF Loop
  <1>5. L.step[v] \notin I
    BY <1>3, <1>4
  <1>6. left[L.step[v]] \in T
    BY <1>4, <1>5
  <1>7. left[v] \in Nat /\ left[L.step[v]] \in Nat
    BY <1>4, <1>3 DEF Loop
  <1> QED
    BY <1>2, <1>3, <1>4, <1>6, <1>7

\* What the function g that runs a loop returns for v: if L.keep[v], L.add[v] is
\* put in front of what the rest of the loop returns.
Round(g, L, v) ==
    IF L.stop[v] THEN L.value[v]
    ELSE IF L.keep[v] THEN L.add[v] \o g[L.step[v]] ELSE g[L.step[v]]

Runs(g, L) ==
    /\ g = [v \in L.D |-> g[v]]
    /\ \A v \in L.D : g[v] = Round(g, L, v)

\* The function that runs a loop exists: for every bound on the rounds there is
\* one that is right up to it, and those agree.
LEMMA LoopExists ==
    ASSUME NEW L, NEW left, Loop(L, left)
    PROVE  \E g : Runs(g, L)
  <1> DEFINE D == L.D
             R(g, k) == \A v \in D : left[v] < k => g[v] = Round(g, L, v)
             T == {k \in Nat : ~ \E g : R(g, k)}
  <1>0. ASSUME NEW g, NEW h, NEW v, L.stop[v] \/ g[L.step[v]] = h[L.step[v]]
        PROVE  Round(g, L, v) = Round(h, L, v)
    BY <1>0 DEF Round
  <1>1. T = {}
    <2> SUFFICES ASSUME T # {} PROVE FALSE
      OBVIOUS
    <2>1. PICK k \in T : \A j \in T : k <= j
      BY LeastNumber, Zenon
    <2>2. k # 0
      <3>1. R(left, 0)
        BY DEF Loop
      <3> QED
        BY <2>1, <3>1
    <2>3. k - 1 \in Nat /\ k - 1 \notin T
      BY <2>1, <2>2
    <2>4. PICK g : R(g, k - 1)
      BY <2>3
    <2> DEFINE h == [v \in D |-> Round(g, L, v)]
    <2>5. R(h, k)
      <3> SUFFICES ASSUME NEW v \in D, left[v] < k
                   PROVE  h[v] = Round(h, L, v)
        OBVIOUS
      <3>1. ASSUME ~L.stop[v] PROVE g[L.step[v]] = h[L.step[v]]
        <4>1. L.step[v] \in D /\ left[L.step[v]] < k - 1
          BY <2>1, <3>1 DEF Loop
        <4> QED
          BY <2>4, <4>1
      <3>2. Round(g, L, v) = Round(h, L, v)
        <4> HIDE DEF h
        <4> QED
          BY <1>0, <3>1
      <3> QED
        BY <3>2
    <2> QED
      BY <2>1, <2>5, Zenon
  <1>2. \A k \in Nat : \E g : R(g, k)
    BY <1>1
  <1> DEFINE G(k) == CHOOSE g : R(g, k)
  <1>3. \A k \in Nat : R(G(k), k)
    BY <1>2
  \* Functions right up to two bounds agree below both.
  <1>4. ASSUME NEW j \in Nat, NEW k \in Nat, NEW v \in D, left[v] < j, left[v] < k
        PROVE  G(j)[v] = G(k)[v]
    <2> DEFINE I == {w \in D : left[w] < j /\ left[w] < k => G(j)[w] = G(k)[w]}
    <2> HIDE DEF G
    <2>1. \A w \in D : L.stop[w] => w \in I
      BY <1>0, <1>3
    <2>2. \A w \in D : ~L.stop[w] /\ L.step[w] \in I => w \in I
      <3> SUFFICES ASSUME NEW w \in D, ~L.stop[w], L.step[w] \in I,
                          left[w] < j, left[w] < k
                   PROVE  G(j)[w] = G(k)[w]
        OBVIOUS
      <3>1. left[L.step[w]] < j /\ left[L.step[w]] < k
        BY DEF Loop
      <3>2. G(j)[w] = Round(G(j), L, w) /\ G(k)[w] = Round(G(k), L, w)
        BY <1>3
      <3> QED
        BY <1>0, <3>1, <3>2
    <2>3. D \subseteq I
      <3> HIDE DEF I
      <3> QED
        BY <2>1, <2>2, LoopInduction
    <2> QED
      BY <1>4, <2>3
  <1> DEFINE f == [v \in D |-> G(left[v] + 1)[v]]
  <1>5. ASSUME NEW v \in D
        PROVE  f[v] = Round(f, L, v)
    <2> HIDE DEF G
    <2>1. left[v] \in Nat
      BY DEF Loop
    <2>2. f[v] = Round(G(left[v] + 1), L, v)
      BY <1>3, <2>1
    <2>3. ASSUME ~L.stop[v]
          PROVE  G(left[v] + 1)[L.step[v]] = f[L.step[v]]
      <3>1. /\ L.step[v] \in D
            /\ left[L.step[v]] \in Nat
            /\ left[L.step[v]] < left[v]
        BY <2>3 DEF Loop
      <3> QED
        BY <1>4, <2>1, <3>1
    <2> HIDE DEF f
    <2> QED
      BY <1>0, <2>2, <2>3
  <1>6. f = [v \in D |-> f[v]]
    OBVIOUS
  <1> HIDE DEF f
  <1> QED
    BY <1>5, <1>6 DEF Runs

\* A loop that only looks for the round to end in.
Searches(g, L) ==
    /\ g = [v \in L.D |-> g[v]]
    /\ \A v \in L.D : g[v] = IF L.stop[v] THEN L.value[v] ELSE g[L.step[v]]

LEMMA SearchExists ==
    ASSUME NEW L, NEW left, Loop(L, left)
    PROVE  \E g : Searches(g, L)
  <1> DEFINE M == [D |-> L.D, stop |-> L.stop, value |-> L.value,
                   keep |-> [v \in L.D |-> FALSE], add |-> <<>>, step |-> L.step]
  <1>1. Loop(M, left)
    BY DEF Loop
  <1>2. PICK g : Runs(g, M)
    <2> HIDE DEF M
    <2> QED
      BY <1>1, LoopExists
  <1>3. Searches(g, L)
    BY <1>2 DEF Runs, Round, Searches
  <1> QED
    BY <1>3

\* What holds when a search begins, and after a round if before it, holds where
\* it ends.
LEMMA SearchEnds ==
    ASSUME NEW L, NEW left, Loop(L, left),
           NEW I, I \subseteq L.D, \A v \in I : ~L.stop[v] => L.step[v] \in I,
           NEW g, Searches(g, L), NEW x \in I
    PROVE  \E v \in I : L.stop[v] /\ g[x] = L.value[v]
  <1> DEFINE J == {w \in L.D : w \in I => \E v \in I : L.stop[v] /\ g[w] = L.value[v]}
  <1>1. \A w \in L.D : L.stop[w] => w \in J
    BY DEF Searches
  <1>2. \A w \in L.D : ~L.stop[w] /\ L.step[w] \in J => w \in J
    BY Zenon DEF Searches
  <1>3. L.D \subseteq J
    <2> HIDE DEF J
    <2> QED
      BY <1>1, <1>2, LoopInduction
  <1> QED
    BY <1>3

(***************************************************************************)
(* Files and scans. H is the set of headers in use; a file is a sequence   *)
(* of headers and record cells.                                            *)
(***************************************************************************)

Headers(H) == \A h \in H : h.base \in Nat /\ h.n \in Nat \ {0}

Files(H) == Seq(H \cup {Body})

\* The positions of the headers.
Starts(f) == {p \in 0 .. Len(f) - 1 : Cell(f, p).n > 0}

\* A cell is a header if and only if its n is positive.
LEMMA CellTypes ==
    ASSUME NEW H, Headers(H), NEW f \in Files(H), NEW p \in Nat, p < Len(f)
    PROVE  /\ Cell(f, p) \in H \cup {Body}
           /\ Cell(f, p).n \in Nat
           /\ Cell(f, p).n > 0 <=> Cell(f, p) \in H
           /\ HeaderAt(f, p) <=> p \in Starts(f)
           /\ Total(Cell(f, p)) \in Nat
           /\ p + Total(Cell(f, p)) \in Nat
           /\ p < p + Total(Cell(f, p))
  <1>1. Cell(f, p) \in H \cup {Body}
    BY DEF Files, Cell
  <1>2. Body.n = 0
    BY DEF Body
  <1> QED
    BY <1>1, <1>2, SMTT(20) DEF Headers, HeaderAt, Starts, Total

\* One round of a scan.
LEMMA ScanRound ==
    ASSUME NEW H, Headers(H), NEW f \in Files(H), NEW p \in Nat
    PROVE  ScanFrom(f, p) = IF BatchAt(f, p)
                            THEN <<Cell(f, p)>> \o ScanFrom(f, p + Total(Cell(f, p)))
                            ELSE <<>>
  <1> DEFINE L == [D |-> Nat,
                   stop |-> [q \in Nat |-> ~BatchAt(f, q)],
                   value |-> [q \in Nat |-> <<>>],
                   keep |-> [q \in Nat |-> TRUE],
                   add |-> [q \in Nat |-> <<Cell(f, q)>>],
                   step |-> [q \in Nat |-> q + Total(Cell(f, q))]]
             left == [q \in Nat |-> IF q <= Len(f) THEN Len(f) - q ELSE 0]
             F(g) == [q \in Nat |-> IF BatchAt(f, q)
                                    THEN <<Cell(f, q)>> \o g[q + Total(Cell(f, q))]
                                    ELSE <<>>]
  <1>1. ASSUME NEW q \in Nat, BatchAt(f, q)
        PROVE  /\ q + Total(Cell(f, q)) \in Nat
               /\ q < q + Total(Cell(f, q))
               /\ q + Total(Cell(f, q)) <= Len(f)
    BY <1>1, CellTypes DEF BatchAt, HeaderAt
  <1>2. Len(f) \in Nat
    BY DEF Files
  <1>3. Loop(L, left)
    <2>1. left \in [L.D -> Nat]
      BY <1>2
    <2> SUFFICES ASSUME NEW v \in Nat, BatchAt(f, v)
                 PROVE  L.step[v] \in L.D /\ left[L.step[v]] < left[v]
      BY <2>1, Zenon DEF Loop
    <2> QED
      BY <1>1, <1>2
  <1>4. PICK g : Runs(g, L)
    <2> HIDE DEF L, left
    <2> QED
      BY <1>3, LoopExists
  <1>5. g = F(g)
    BY <1>4, Zenon DEF Runs, Round
  <1> DEFINE scan == CHOOSE h : h = F(h)
  <1>6. scan = F(scan)
    <2> HIDE DEF F
    <2> QED
      BY <1>5
  <1>7. \A q \in Nat : ScanFrom(f, q) = scan[q]
    BY DEF ScanFrom
  <1>8. \A q \in Nat : F(scan)[q] = IF BatchAt(f, q)
                                    THEN <<Cell(f, q)>> \o scan[q + Total(Cell(f, q))]
                                    ELSE <<>>
    <2> HIDE DEF scan
    <2> QED
      OBVIOUS
  <1> HIDE DEF scan
  <1>9. scan[p] = IF BatchAt(f, p)
                  THEN <<Cell(f, p)>> \o scan[p + Total(Cell(f, p))]
                  ELSE <<>>
    <2> HIDE DEF F
    <2> QED
      BY <1>6, <1>8
  <1> QED
    BY <1>1, <1>7, <1>9, Zenon

\* What holds where a scan ends, and at a batch if behind it, holds everywhere.
LEMMA ScanInduction ==
    ASSUME NEW H, Headers(H), NEW f \in Files(H), NEW I,
           \A p \in Nat : ~BatchAt(f, p) => p \in I,
           \A p \in Nat : BatchAt(f, p) /\ p + Total(Cell(f, p)) \in I => p \in I
    PROVE  Nat \subseteq I
  <1> DEFINE L == [D |-> Nat, stop |-> [q \in Nat |-> ~BatchAt(f, q)],
                   step |-> [q \in Nat |-> q + Total(Cell(f, q))]]
             left == [q \in Nat |-> IF q <= Len(f) THEN Len(f) - q ELSE 0]
  <1>1. ASSUME NEW q \in Nat, BatchAt(f, q)
        PROVE  /\ q + Total(Cell(f, q)) \in Nat
               /\ q < q + Total(Cell(f, q))
               /\ q + Total(Cell(f, q)) <= Len(f)
    BY <1>1, CellTypes DEF BatchAt, HeaderAt
  <1>2. Len(f) \in Nat
    BY DEF Files
  <1>3. Loop(L, left)
    <2>1. left \in [L.D -> Nat]
      BY <1>2
    <2> SUFFICES ASSUME NEW v \in Nat, BatchAt(f, v)
                 PROVE  L.step[v] \in L.D /\ left[L.step[v]] < left[v]
      BY <2>1, Zenon DEF Loop
    <2> QED
      BY <1>1, <1>2
  <1>4. /\ \A v \in L.D : L.stop[v] => v \in I
        /\ \A v \in L.D : ~L.stop[v] /\ L.step[v] \in I => v \in I
    BY Zenon
  <1>5. L.D \subseteq I
    <2> HIDE DEF L, left
    <2> QED
      BY <1>3, <1>4, LoopInduction
  <1> QED
    BY <1>5

\* A scan returns headers.
LEMMA ScanType ==
    ASSUME NEW H, Headers(H), NEW f \in Files(H), NEW p \in Nat
    PROVE  ScanFrom(f, p) \in Seq(H)
  <1> DEFINE I == {q \in Nat : ScanFrom(f, q) \in Seq(H)}
  <1>1. \A q \in Nat : ~BatchAt(f, q) => q \in I
    BY ScanRound, SeqEmpty, Zenon
  <1>2. ASSUME NEW q \in Nat, BatchAt(f, q), q + Total(Cell(f, q)) \in I
        PROVE  q \in I
    <2>1. Cell(f, q) \in H
      BY <1>2, CellTypes DEF BatchAt, HeaderAt
    <2>2. ScanFrom(f, q) = <<Cell(f, q)>> \o ScanFrom(f, q + Total(Cell(f, q)))
      BY <1>2, ScanRound
    <2>3. <<Cell(f, q)>> \in Seq(H)
      BY <2>1
    <2> QED
      BY <1>2, <2>2, <2>3, SeqConcat, SMTT(20)
  <1>3. Nat \subseteq I
    <2> HIDE DEF I
    <2> QED
      BY <1>1, <1>2, ScanInduction
  <1> QED
    BY <1>3

\* A walk from an offset no batch is below reports what a scan passes.
LEMMA WalkAll ==
    ASSUME NEW H, Headers(H), NEW f \in Files(H),
           NEW o, \A p \in Starts(f) : Cell(f, p).base >= o
    PROVE  WalkBatchHeaders(f, o) = ScanFrom(f, 0)
  <1> DEFINE F(g) == [p \in Nat |-> IF BatchAt(f, p)
                         THEN (IF Cell(f, p).base >= o THEN <<Cell(f, p)>> ELSE <<>>)
                                  \o g[p + Total(Cell(f, p))]
                         ELSE <<>>]
             s == [p \in Nat |-> ScanFrom(f, p)]
             walk == CHOOSE h : h = F(h)
  <1>1. ASSUME NEW p \in Nat, BatchAt(f, p)
        PROVE  Cell(f, p).base >= o /\ p + Total(Cell(f, p)) \in Nat
    <2>1. p \in Starts(f)
      BY <1>1, SeqLen DEF BatchAt, HeaderAt, Starts, Files
    <2> QED
      BY <1>1, <2>1, CellTypes DEF BatchAt, HeaderAt
  <1>2. s = F(s)
    <2>1. \A p \in Nat : s[p] = F(s)[p]
      BY <1>1, ScanRound, Zenon
    <2> QED
      BY <2>1, Zenon
  <1>3. walk = F(walk)
    <2> HIDE DEF F, s
    <2> QED
      BY <1>2
  <1>4. ASSUME NEW p \in Nat
        PROVE  walk[p] = IF BatchAt(f, p)
                         THEN <<Cell(f, p)>> \o walk[p + Total(Cell(f, p))] ELSE <<>>
    <2>1. F(walk)[p] = IF BatchAt(f, p)
                       THEN <<Cell(f, p)>> \o walk[p + Total(Cell(f, p))] ELSE <<>>
      <3> HIDE DEF walk
      <3> QED
        BY <1>1
    <2> HIDE DEF F, walk
    <2> QED
      BY <1>3, <2>1
  <1> HIDE DEF walk
  <1> DEFINE I == {p \in Nat : walk[p] = ScanFrom(f, p)}
  <1>5. \A p \in Nat : ~BatchAt(f, p) => p \in I
    BY <1>4, ScanRound, Zenon
  <1>6. \A p \in Nat : BatchAt(f, p) /\ p + Total(Cell(f, p)) \in I => p \in I
    BY <1>4, ScanRound, Zenon
  <1>7. Nat \subseteq I
    <2> HIDE DEF I
    <2> QED
      BY <1>5, <1>6, ScanInduction
  <1>8. WalkBatchHeaders(f, o) = walk[0]
    BY DEF WalkBatchHeaders, walk
  <1> QED
    BY <1>7, <1>8

(***************************************************************************)
(* Whole files: every batch is all there and followed by another one or    *)
(* the end of the file.                                                    *)
(***************************************************************************)

Boundaries(f) == Starts(f) \cup {Len(f)}

Whole(f) ==
    /\ 0 \in Boundaries(f)
    /\ \A p \in Starts(f) :
          /\ p + Total(Cell(f, p)) \in Boundaries(f)
          /\ \A q \in Starts(f) : p < q => p + Total(Cell(f, p)) <= q

LEMMA BoundaryTypes ==
    ASSUME NEW H, Headers(H), NEW f \in Files(H)
    PROVE  /\ Len(f) \in Nat
           /\ Boundaries(f) \subseteq 0 .. Len(f)
           /\ \A p \in Starts(f) : /\ p \in Nat /\ p < Len(f) /\ HeaderAt(f, p)
                                   /\ Cell(f, p) \in H
                                   /\ Total(Cell(f, p)) \in Nat
                                   /\ p < p + Total(Cell(f, p))
  <1>1. Len(f) \in Nat
    BY DEF Files
  <1>2. \A p \in Starts(f) : p \in Nat /\ p < Len(f)
    BY <1>1 DEF Starts
  <1> QED
    BY <1>1, <1>2, CellTypes DEF Boundaries, Starts

\* In a whole file a scan from a boundary ends at the end of the file.
LEMMA WholeScans ==
    ASSUME NEW H, Headers(H), NEW f \in Files(H), Whole(f), NEW p \in Boundaries(f)
    PROVE  /\ p = Len(f) => ~BatchAt(f, p) /\ ScanFrom(f, p) = <<>>
           /\ p # Len(f) => /\ p \in Starts(f)
                            /\ BatchAt(f, p)
                            /\ Cell(f, p) \in H
                            /\ p + Total(Cell(f, p)) \in Boundaries(f)
                            /\ ScanFrom(f, p)
                                 = <<Cell(f, p)>> \o ScanFrom(f, p + Total(Cell(f, p)))
  <1>1. p \in Nat /\ Len(f) \in Nat /\ p <= Len(f)
    BY BoundaryTypes
  <1>2. CASE p = Len(f)
    <2>1. ~BatchAt(f, p)
      BY <1>1, <1>2 DEF BatchAt, HeaderAt
    <2> QED
      BY <1>1, <1>2, <2>1, ScanRound, Zenon
  <1>3. CASE p # Len(f)
    <2>1. p \in Starts(f)
      BY <1>3 DEF Boundaries
    <2>2. p + Total(Cell(f, p)) \in Boundaries(f)
      BY <2>1 DEF Whole
    <2>3. BatchAt(f, p)
      BY <2>1, <2>2, BoundaryTypes DEF BatchAt
    <2> QED
      BY <1>1, <1>3, <2>1, <2>2, <2>3, ScanRound, BoundaryTypes
  <1> QED
    BY <1>2, <1>3

\* What holds at the end of a whole file, and at a batch if behind it, holds at
\* all of its batches.
LEMMA WholeInduction ==
    ASSUME NEW H, Headers(H), NEW f \in Files(H), Whole(f), NEW I,
           Len(f) \in I,
           \A p \in Starts(f) : p + Total(Cell(f, p)) \in I => p \in I
    PROVE  Boundaries(f) \subseteq I
  <1> DEFINE J == {p \in Nat : p \in Boundaries(f) => p \in I}
  <1>1. \A p \in Nat : ~BatchAt(f, p) => p \in J
    BY WholeScans, Zenon
  <1>2. ASSUME NEW p \in Nat, BatchAt(f, p), p + Total(Cell(f, p)) \in J,
               p \in Boundaries(f)
        PROVE  p \in I
    <2>1. p \in Starts(f) /\ p + Total(Cell(f, p)) \in Boundaries(f)
      BY <1>2, WholeScans, Zenon
    <2> QED
      BY <1>2, <2>1
  <1>3. Nat \subseteq J
    <2>1. \A p \in Nat : BatchAt(f, p) /\ p + Total(Cell(f, p)) \in J => p \in J
      BY <1>2
    <2> HIDE DEF J
    <2> QED
      BY <1>1, <2>1, ScanInduction
  <1> QED
    BY <1>3, BoundaryTypes

\* A scan goes through a whole file to what is behind it.
LEMMA ScanThrough ==
    ASSUME NEW H, Headers(H), NEW f \in Files(H), Whole(f), NEW t \in Files(H)
    PROVE  ScanFrom(f \o t, 0) = ScanFrom(f, 0) \o ScanFrom(f \o t, Len(f))
  <1> DEFINE g == f \o t
             rest == ScanFrom(g, Len(f))
             I == {p \in Nat : ScanFrom(g, p) = ScanFrom(f, p) \o rest}
  <1>1. g \in Files(H) /\ Len(f) \in Nat /\ Len(g) = Len(f) + Len(t) /\ Len(t) \in Nat
    BY SeqConcat DEF Files
  <1>2. rest \in Seq(H)
    BY <1>1, ScanType
  <1>3. Len(f) \in I
    <2>1. Len(f) \in Boundaries(f)
      BY DEF Boundaries
    <2>2. ScanFrom(f, Len(f)) = <<>>
      BY <2>1, WholeScans, Zenon
    <2> QED
      BY <1>1, <1>2, <2>2, SeqNothing
  <1>4. ASSUME NEW p \in Starts(f), p + Total(Cell(f, p)) \in I
        PROVE  p \in I
    <2>1. /\ p \in Nat /\ p < Len(f) /\ Cell(f, p) \in H
          /\ p + Total(Cell(f, p)) \in Nat
      BY BoundaryTypes
    <2>2. BatchAt(f, p) /\ ScanFrom(f, p) = <<Cell(f, p)>> \o ScanFrom(f, p + Total(Cell(f, p)))
      BY <2>1, WholeScans DEF Boundaries
    <2>3. Cell(g, p) = Cell(f, p)
      BY <2>1, <1>1, SeqConcat DEF Files, Cell
    <2>4. BatchAt(g, p)
      BY <1>1, <2>1, <2>2, <2>3 DEF BatchAt, HeaderAt
    <2>5. ScanFrom(g, p) = <<Cell(f, p)>> \o (ScanFrom(f, p + Total(Cell(f, p))) \o rest)
      BY <1>1, <1>4, <2>1, <2>3, <2>4, ScanRound, Zenon
    <2>6. <<Cell(f, p)>> \in Seq(H) /\ ScanFrom(f, p + Total(Cell(f, p))) \in Seq(H)
      BY <2>1, ScanType
    <2>7. (<<Cell(f, p)>> \o ScanFrom(f, p + Total(Cell(f, p)))) \o rest
             = <<Cell(f, p)>> \o (ScanFrom(f, p + Total(Cell(f, p))) \o rest)
      BY <1>2, <2>6, SeqAssoc
    <2> QED
      BY <2>1, <2>2, <2>5, <2>7, Zenon
  <1>5. 0 \in I
    <2> HIDE DEF I
    <2>1. Boundaries(f) \subseteq I
      BY <1>3, <1>4, WholeInduction
    <2> QED
      BY <2>1 DEF Whole
  <1> QED
    BY <1>5

\* One round of a scan of a whole file.
LEMMA WholeRound ==
    ASSUME NEW H, Headers(H), NEW f \in Files(H), Whole(f), NEW q \in Starts(f)
    PROVE  /\ q \in Nat /\ Cell(f, q) \in H /\ Total(Cell(f, q)) \in Nat
           /\ q + Total(Cell(f, q)) \in Nat
           /\ q + Total(Cell(f, q)) \in Boundaries(f)
           /\ q < q + Total(Cell(f, q)) /\ q + Total(Cell(f, q)) <= Len(f)
           /\ BatchAt(f, q)
           /\ ScanFrom(f, q) = <<Cell(f, q)>> \o ScanFrom(f, q + Total(Cell(f, q)))
           /\ ScanFrom(f, q + Total(Cell(f, q))) \in Seq(H)
           /\ <<Cell(f, q)>> \in Seq(H)
           /\ \A r \in Starts(f) : q <= r <=> r = q \/ q + Total(Cell(f, q)) <= r
  <1>1. /\ q \in Nat /\ q < Len(f) /\ Cell(f, q) \in H
        /\ Total(Cell(f, q)) \in Nat /\ q < q + Total(Cell(f, q))
    BY BoundaryTypes
  <1>2. q + Total(Cell(f, q)) \in Boundaries(f)
    BY DEF Whole
  <1>3. q + Total(Cell(f, q)) \in Nat /\ q + Total(Cell(f, q)) <= Len(f)
    BY <1>2, BoundaryTypes
  <1>4. q \in Boundaries(f) /\ q # Len(f)
    BY <1>1 DEF Boundaries
  <1>5. /\ BatchAt(f, q)
        /\ ScanFrom(f, q) = <<Cell(f, q)>> \o ScanFrom(f, q + Total(Cell(f, q)))
    BY <1>4, WholeScans
  <1>6. <<Cell(f, q)>> \in Seq(H) /\ ScanFrom(f, q + Total(Cell(f, q))) \in Seq(H)
    BY <1>1, <1>3, ScanType
  <1>7. \A r \in Starts(f) : q <= r <=> r = q \/ q + Total(Cell(f, q)) <= r
    BY <1>1, BoundaryTypes DEF Whole
  <1> QED
    BY <1>1, <1>2, <1>3, <1>5, <1>6, <1>7

Last(s) == s[Len(s)]

\* A sequence with an element in front of it.
LEMMA InFront ==
    ASSUME NEW S, NEW x \in S, NEW s \in Seq(S)
    PROVE  /\ <<x>> \o s # <<>>
           /\ Len(<<x>> \o s) = Len(s) + 1
           /\ (<<x>> \o s)[1] = x
           /\ \A i \in 1 .. Len(s) : (<<x>> \o s)[i + 1] = s[i]
           /\ Range(<<x>> \o s) = {x} \cup Range(s)
           /\ Last(<<x>> \o s) = IF s = <<>> THEN x ELSE Last(s)
  <1> DEFINE t == <<x>> \o s
  <1>1. <<x>> \in Seq(S) /\ Len(<<x>>) = 1 /\ <<x>>[1] = x
    OBVIOUS
  <1>2. DOMAIN s = 1 .. Len(s) /\ Len(s) \in Nat /\ (s = <<>> <=> Len(s) = 0)
    BY SeqLen, SeqEmpty
  <1>3. /\ t \in Seq(S)
        /\ Len(t) = 1 + Len(s)
        /\ \A i \in 1 .. 1 + Len(s) : t[i] = IF i <= 1 THEN <<x>>[i] ELSE s[i - 1]
    BY <1>1, SeqConcat
  <1>4. DOMAIN t = 1 .. Len(s) + 1
    BY <1>2, <1>3, SeqLen
  <1>5. t[1] = x /\ \A i \in 1 .. Len(s) : t[i + 1] = s[i]
    BY <1>1, <1>2, <1>3
  <1>6. \A i \in 1 .. Len(s) + 1 : i = 1 \/ \E j \in 1 .. Len(s) : i = j + 1
    <2> SUFFICES ASSUME NEW i \in 1 .. Len(s) + 1, i # 1
                 PROVE  \E j \in 1 .. Len(s) : i = j + 1
      OBVIOUS
    <2>1. i - 1 \in 1 .. Len(s) /\ i = (i - 1) + 1
      BY <1>2
    <2> QED
      BY <2>1
  <1>7. Range(t) = {x} \cup Range(s)
    <2> HIDE DEF t
    <2>1. ASSUME NEW i \in DOMAIN t PROVE t[i] \in {x} \cup Range(s)
      <3>1. CASE i = 1
        BY <1>5, <3>1
      <3>2. CASE i # 1
        <4>1. PICK j \in 1 .. Len(s) : i = j + 1
          BY <1>4, <1>6, <3>2
        <4>2. t[i] = s[j] /\ j \in DOMAIN s
          BY <1>2, <1>5, <4>1
        <4> QED
          BY <4>2 DEF Range
      <3> QED
        BY <3>1, <3>2
    <2>2. \A j \in 1 .. Len(s) : j + 1 \in DOMAIN t
      BY <1>2, <1>4
    <2>3. 1 \in DOMAIN t
      BY <1>2, <1>4
    <2>4. x \in Range(t)
      BY <1>5, <2>3 DEF Range
    <2>5. \A j \in DOMAIN s : s[j] \in Range(t)
      BY <1>2, <1>5, <2>2 DEF Range
    <2>6. Range(s) \subseteq Range(t)
      BY <2>5 DEF Range
    <2>7. Range(t) \subseteq {x} \cup Range(s)
      BY <2>1 DEF Range
    <2> QED
      BY <2>4, <2>6, <2>7
  <1>8. Last(t) = IF s = <<>> THEN x ELSE Last(s)
    <2> HIDE DEF t
    <2> QED
      BY <1>2, <1>3, <1>5 DEF Last
  <1>9. t # <<>>
    <2> HIDE DEF t
    <2> QED
      BY <1>2, <1>3
  <1> QED
    BY <1>2, <1>3, <1>5, <1>7, <1>8, <1>9

\* The headers a scan of a whole file returns are those at the boundaries from
\* its start on.
LEMMA ScanHeaders ==
    ASSUME NEW H, Headers(H), NEW f \in Files(H), Whole(f), NEW p \in Boundaries(f)
    PROVE  Range(ScanFrom(f, p)) = {Cell(f, q) : q \in {r \in Starts(f) : p <= r}}
  <1> DEFINE From(q) == {Cell(f, r) : r \in {x \in Starts(f) : q <= x}}
             I == {q \in Nat : Range(ScanFrom(f, q)) = From(q)}
  <1>1. Len(f) \in I
    <2>1. Len(f) \in Boundaries(f) /\ Len(f) \in Nat
      BY BoundaryTypes DEF Boundaries
    <2>2. ScanFrom(f, Len(f)) = <<>>
      BY <2>1, WholeScans, Zenon
    <2>3. From(Len(f)) = {}
      BY BoundaryTypes
    <2>4. Range(<<>>) = {}
      BY DEF Range
    <2> QED
      BY <2>1, <2>2, <2>3, <2>4
  <1>2. ASSUME NEW q \in Starts(f), q + Total(Cell(f, q)) \in I
        PROVE  q \in I
    <2> DEFINE n == q + Total(Cell(f, q))
               s == ScanFrom(f, n)
    <2>1. /\ q \in Nat /\ n \in Nat /\ Cell(f, q) \in H
          /\ ScanFrom(f, q) = <<Cell(f, q)>> \o s /\ s \in Seq(H)
          /\ \A r \in Starts(f) : q <= r <=> r = q \/ n <= r
      BY WholeRound
    <2>2. Range(ScanFrom(f, q)) = {Cell(f, q)} \cup Range(s)
      BY <2>1, InFront
    <2>3. From(q) = {Cell(f, q)} \cup From(n)
      BY <2>1
    <2> QED
      BY <1>2, <2>1, <2>2, <2>3, Zenon
  <1>3. Boundaries(f) \subseteq I
    <2> HIDE DEF I
    <2> QED
      BY <1>1, <1>2, WholeInduction
  <1> QED
    BY <1>3

\* A whole file that is not empty has a last batch: it ends the file, and a scan
\* ends with it.
LEMMA ScanLast ==
    ASSUME NEW H, Headers(H), NEW f \in Files(H), Whole(f), f # <<>>
    PROVE  \E p \in Starts(f) :
              /\ p + Total(Cell(f, p)) = Len(f)
              /\ \A q \in Starts(f) : q <= p
              /\ ScanFrom(f, 0) # <<>>
              /\ Last(ScanFrom(f, 0)) = Cell(f, p)
  <1> DEFINE Ends(q, p) == /\ p + Total(Cell(f, p)) = Len(f)
                           /\ \A r \in Starts(f) : r <= p
                           /\ ScanFrom(f, q) # <<>>
                           /\ Last(ScanFrom(f, q)) = Cell(f, p)
             I == {q \in Nat : q = Len(f) \/ \E p \in Starts(f) : Ends(q, p)}
  <1>1. Len(f) \in I
    BY BoundaryTypes
  <1>2. ASSUME NEW q \in Starts(f), q + Total(Cell(f, q)) \in I
        PROVE  q \in I
    <2> DEFINE n == q + Total(Cell(f, q))
               s == ScanFrom(f, n)
    <2>1. /\ q \in Nat /\ n \in Nat /\ Cell(f, q) \in H /\ n \in Boundaries(f)
          /\ ScanFrom(f, q) = <<Cell(f, q)>> \o s /\ s \in Seq(H)
          /\ \A r \in Starts(f) : q <= r <=> r = q \/ n <= r
      BY WholeRound
    <2>2. /\ ScanFrom(f, q) # <<>>
          /\ Last(ScanFrom(f, q)) = IF s = <<>> THEN Cell(f, q) ELSE Last(s)
      BY <2>1, InFront
    <2>3. CASE n = Len(f)
      <3>1. s = <<>>
        BY <2>1, <2>3, WholeScans, Zenon
      <3>2. \A r \in Starts(f) : r <= q
        BY <2>1, <2>3, BoundaryTypes
      <3> QED
        BY <2>1, <2>2, <2>3, <3>1, <3>2, Zenon
    <2>4. CASE n # Len(f)
      BY <1>2, <2>1, <2>2, <2>4, Zenon
    <2> QED
      BY <2>3, <2>4
  <1>3. Boundaries(f) \subseteq I
    <2> HIDE DEF I
    <2> QED
      BY <1>1, <1>2, WholeInduction
  <1>4. 0 # Len(f)
    BY SeqEmpty DEF Files
  <1> QED
    BY <1>3, <1>4 DEF Whole

(***************************************************************************)
(* Files in order: the first batch has offset from, each one the offset    *)
(* after the one before it.                                                *)
(***************************************************************************)

Ordered(f, from) ==
    /\ f # <<>> => Cell(f, 0).base = from
    /\ \A p \in Starts(f) :
          /\ from <= Cell(f, p).base
          /\ p + Total(Cell(f, p)) \in Starts(f)
                => Cell(f, p + Total(Cell(f, p))).base = LastOffset(Cell(f, p)) + 1
          /\ \A q \in Starts(f) : p < q => LastOffset(Cell(f, p)) < Cell(f, q).base

Contiguous(s) == \A i \in 1 .. Len(s) - 1 : s[i + 1].base = LastOffset(s[i]) + 1

\* The batches a scan of a whole, ordered file returns are contiguous.
LEMMA ScanContiguous ==
    ASSUME NEW H, Headers(H), NEW f \in Files(H), Whole(f), NEW from, Ordered(f, from),
           NEW p \in Boundaries(f)
    PROVE  /\ Contiguous(ScanFrom(f, p))
           /\ ScanFrom(f, p) # <<>> => p \in Starts(f) /\ ScanFrom(f, p)[1] = Cell(f, p)
  <1> DEFINE I == {q \in Nat : /\ Contiguous(ScanFrom(f, q))
                               /\ ScanFrom(f, q) # <<>> =>
                                     q \in Starts(f) /\ ScanFrom(f, q)[1] = Cell(f, q)}
  <1>1. Len(f) \in I
    <2>1. Len(f) \in Boundaries(f) /\ Len(f) \in Nat
      BY BoundaryTypes DEF Boundaries
    <2>2. ScanFrom(f, Len(f)) = <<>>
      BY <2>1, WholeScans, Zenon
    <2>3. Contiguous(<<>>)
      BY DEF Contiguous
    <2> QED
      BY <2>1, <2>2, <2>3
  <1>2. ASSUME NEW q \in Starts(f), q + Total(Cell(f, q)) \in I
        PROVE  q \in I
    <2> DEFINE n == q + Total(Cell(f, q))
               s == ScanFrom(f, n)
               t == ScanFrom(f, q)
    <2>1. /\ q \in Nat /\ n \in Nat /\ Cell(f, q) \in H /\ n \in Boundaries(f)
          /\ t = <<Cell(f, q)>> \o s /\ s \in Seq(H)
      BY WholeRound
    <2>2. /\ t # <<>> /\ Len(t) = Len(s) + 1 /\ t[1] = Cell(f, q)
          /\ \A i \in 1 .. Len(s) : t[i + 1] = s[i]
      BY <2>1, InFront
    <2>3. Contiguous(s) /\ (s # <<>> => n \in Starts(f) /\ s[1] = Cell(f, n))
      BY <1>2
    <2>4. n \in Starts(f) => Cell(f, n).base = LastOffset(Cell(f, q)) + 1
      BY DEF Ordered
    <2>5. Len(s) \in Nat /\ (Len(s) > 0 => s # <<>>)
      BY <2>1, SeqEmpty, SeqLen
    <2> HIDE DEF s, t, n
    <2>6. Contiguous(t)
      <3> SUFFICES ASSUME NEW i \in 1 .. Len(s)
                   PROVE  t[i + 1].base = LastOffset(t[i]) + 1
        BY <2>2, <2>5 DEF Contiguous
      <3>1. CASE i = 1
        BY <2>2, <2>3, <2>4, <2>5, <3>1
      <3>2. CASE i # 1
        <4>1. i - 1 \in 1 .. Len(s) - 1 /\ (i - 1) + 1 = i /\ i - 1 \in 1 .. Len(s)
          BY <2>5, <3>2
        <4>2. s[(i - 1) + 1].base = LastOffset(s[i - 1]) + 1
          BY <2>3, <4>1 DEF Contiguous
        <4>3. t[i + 1] = s[i] /\ t[(i - 1) + 1] = s[i - 1]
          BY <2>2, <4>1
        <4> QED
          BY <4>1, <4>2, <4>3
      <3> QED
        BY <3>1, <3>2
    <2> QED
      BY <2>1, <2>2, <2>6, Zenon DEF t
  <1>3. Boundaries(f) \subseteq I
    <2> HIDE DEF I
    <2> QED
      BY <1>1, <1>2, WholeInduction
  <1> QED
    BY <1>3

\* The next offset of a segment whose file is whole and in order.
LEMMA SegmentEnd ==
    ASSUME NEW H, Headers(H), NEW seg, seg.file \in Files(H), Whole(seg.file),
           seg.base \in Nat, Ordered(seg.file, seg.base)
    PROVE  LET f == seg.file
               end == SegmentNextOffset(seg) IN
           /\ end \in Nat
           /\ seg.base <= end
           /\ f = <<>> => end = seg.base
           /\ f # <<>> => seg.base < end
           /\ \A p \in Starts(f) : LastOffset(Cell(f, p)) < end
           /\ \A p \in Starts(f) : p + Total(Cell(f, p)) = Len(f)
                                      => LastOffset(Cell(f, p)) + 1 = end
  <1> DEFINE f == seg.file
             end == SegmentNextOffset(seg)
  <1>1. CASE f = <<>>
    <2>1. Len(f) = 0 /\ Starts(f) = {}
      BY <1>1, SeqEmpty DEF Starts, Files
    <2>2. ScanFrom(f, 0) = <<>>
      BY <2>1, WholeScans, Zenon DEF Whole
    <2> QED
      BY <1>1, <2>1, <2>2 DEF SegmentNextOffset, Last
  <1>2. CASE f # <<>>
    <2>1. PICK p \in Starts(f) : /\ p + Total(Cell(f, p)) = Len(f)
                                 /\ \A q \in Starts(f) : q <= p
                                 /\ ScanFrom(f, 0) # <<>>
                                 /\ Last(ScanFrom(f, 0)) = Cell(f, p)
      BY <1>2, ScanLast
    <2>2. end = LastOffset(Cell(f, p)) + 1
      BY <2>1 DEF SegmentNextOffset, Last
    <2>3. \A q \in Starts(f) : q \in Nat /\ Cell(f, q).base \in Nat /\ Cell(f, q).n \in Nat \ {0}
      BY BoundaryTypes DEF Headers
    <2>4. seg.base <= Cell(f, p).base
      BY DEF Ordered
    <2>5. seg.base < end /\ end \in Nat
      BY <2>2, <2>3, <2>4 DEF LastOffset
    <2>6. \A q \in Starts(f) : LastOffset(Cell(f, q)) < end
      <3> SUFFICES ASSUME NEW q \in Starts(f), q # p
                   PROVE  LastOffset(Cell(f, q)) < end
        BY <2>2, <2>3 DEF LastOffset
      <3>1. LastOffset(Cell(f, q)) < Cell(f, p).base
        BY <2>1, <2>3 DEF Ordered
      <3> QED
        BY <2>2, <2>3, <3>1 DEF LastOffset
    <2>7. \A q \in Starts(f) : q + Total(Cell(f, q)) = Len(f) => q = p
      BY <2>1, <2>3, BoundaryTypes DEF Whole
    <2> QED
      BY <1>2, <2>2, <2>5, <2>6, <2>7
  <1> QED
    BY <1>1, <1>2

(***************************************************************************)
(* Writing to a file.                                                      *)
(***************************************************************************)

IsBatch(t, b) == Len(t) = Total(b) /\ t[1] = b /\ \A i \in 2 .. Len(t) : t[i] = Body

\* The cells of a batch.
LEMMA CellsOfBatch ==
    ASSUME NEW H, Headers(H), NEW b \in H
    PROVE  Cells(b) \in Files(H) /\ IsBatch(Cells(b), b)
  <1> DEFINE n == b.n
             r == [i \in 1 .. n |-> Body]
             t == <<b>> \o r
  <1>1. n \in Nat \ {0}
    BY DEF Headers
  <1> HIDE DEF n
  <1>2. r \in Seq(H \cup {Body}) /\ Len(r) = n /\ \A i \in 1 .. n : r[i] = Body
    BY <1>1
  <1> HIDE DEF r
  <1>3. <<b>> \in Seq(H \cup {Body}) /\ b \in H \cup {Body}
    OBVIOUS
  <1>4. /\ t \in Seq(H \cup {Body})
        /\ Len(t) = Len(r) + 1
        /\ t[1] = b
        /\ \A i \in 1 .. Len(r) : t[i + 1] = r[i]
    BY <1>2, <1>3, InFront, SeqConcat
  <1> HIDE DEF t
  <1>5. ASSUME NEW i \in 2 .. n + 1 PROVE t[i] = Body
    <2>1. i - 1 \in 1 .. n /\ (i - 1) + 1 = i
      BY <1>1
    <2> QED
      BY <1>2, <1>4, <2>1
  <1>6. Cells(b) = t
    BY DEF Cells, t, r, n
  <1>7. IsBatch(t, b)
    BY <1>1, <1>2, <1>4, <1>5 DEF IsBatch, Total, n
  <1> QED
    BY <1>4, <1>6, <1>7 DEF Files

\* The cells of a batch whose BaseOffset is patched.
LEMMA PatchedCells ==
    ASSUME NEW H, Headers(H), NEW b \in H, NEW t \in Files(H), IsBatch(t, b),
           NEW o, [b EXCEPT !.base = o] \in H
    PROVE  Patched(t, o) \in Files(H) /\ IsBatch(Patched(t, o), [b EXCEPT !.base = o])
  <1> DEFINE c == [b EXCEPT !.base = o]
             u == [t EXCEPT ![1] = c]
  <1>1. b.n \in Nat \ {0} /\ Total(c) = Total(b)
    BY DEF Headers, Total
  <1>2. t[1] = b
    BY DEF IsBatch
  <1>3. Patched(t, o) = u
    BY <1>2 DEF Patched
  <1>4. c \in H \cup {Body}
    OBVIOUS
  <1> HIDE DEF c
  <1>5. /\ u \in Seq(H \cup {Body})
        /\ Len(u) = Len(t)
        /\ \A j \in 1 .. Len(t) : u[j] = IF j = 1 THEN c ELSE t[j]
    <2>1. 1 \in 1 .. Len(t) /\ t \in Seq(H \cup {Body})
      BY <1>1 DEF Files, IsBatch, Total
    <2> QED
      BY <1>4, <2>1, SeqExcept
  <1> HIDE DEF u
  <1>6. IsBatch(u, c)
    BY <1>1, <1>5, SMTT(20) DEF IsBatch, Total
  <1> QED
    BY <1>3, <1>5, <1>6 DEF c, Files

\* File g is f with t written behind it.
Joined(g, f, t) == g = f \o t

LEMMA JoinedCells ==
    ASSUME NEW H, NEW f \in Files(H), NEW t \in Files(H), NEW g, Joined(g, f, t)
    PROVE  /\ g \in Files(H)
           /\ Len(f) \in Nat /\ Len(t) \in Nat
           /\ Len(g) = Len(f) + Len(t)
           /\ \A i \in 1 .. Len(g) : g[i] = IF i <= Len(f) THEN f[i] ELSE t[i - Len(f)]
  <1>1. f \in Seq(H \cup {Body}) /\ t \in Seq(H \cup {Body})
    BY DEF Files
  <1> QED
    BY <1>1, SeqConcat DEF Files, Joined

LEMMA JoinedLength ==
    ASSUME NEW H, NEW f \in Files(H), NEW t \in Files(H), NEW g, Joined(g, f, t)
    PROVE  /\ g \in Files(H) /\ Len(f) \in Nat /\ Len(t) \in Nat
           /\ Len(g) = Len(f) + Len(t)
  BY JoinedCells

\* A batch behind a whole file.
LEMMA AppendBatch ==
    ASSUME NEW H, Headers(H), NEW f \in Files(H), Whole(f), NEW b \in H,
           NEW t \in Files(H), IsBatch(t, b), NEW g, Joined(g, f, t)
    PROVE  /\ g \in Files(H)
           /\ Len(g) = Len(f) + Total(b)
           /\ Starts(g) = Starts(f) \cup {Len(f)}
           /\ \A p \in Starts(f) : Cell(g, p) = Cell(f, p)
           /\ Cell(g, Len(f)) = b
           /\ Whole(g)
  <1>1. /\ Len(f) \in Nat /\ Len(t) = Total(b) /\ Total(b) \in Nat /\ Total(b) > 1
        /\ b.n \in Nat /\ b.n > 0
    BY BoundaryTypes DEF IsBatch, Headers, Total
  <1>2. /\ g \in Files(H)
        /\ Len(g) = Len(f) + Total(b)
        /\ \A i \in 1 .. Len(f) + Total(b) :
              g[i] = IF i <= Len(f) THEN f[i] ELSE t[i - Len(f)]
    BY <1>1, JoinedCells
  <1>3. \A p \in 0 .. Len(f) - 1 : Cell(g, p) = Cell(f, p)
    BY <1>1, <1>2 DEF Cell
  <1>4. Cell(g, Len(f)) = b
    BY <1>1, <1>2 DEF IsBatch, Cell
  <1>5. \A p \in Len(f) + 1 .. Len(g) - 1 : Cell(g, p).n = 0
    <2> SUFFICES ASSUME NEW p \in Len(f) + 1 .. Len(g) - 1
                 PROVE  Cell(g, p) = Body
      BY DEF Body
    <2>1. p + 1 - Len(f) \in 2 .. Len(t) /\ Cell(g, p) = t[p + 1 - Len(f)]
      BY <1>1, <1>2 DEF Cell
    <2> QED
      BY <2>1 DEF IsBatch
  <1>6. Starts(g) = Starts(f) \cup {Len(f)}
    <2>1. \A p \in Starts(g) : p \in Starts(f) \cup {Len(f)}
      <3> SUFFICES ASSUME NEW p \in 0 .. Len(g) - 1, Cell(g, p).n > 0,
                          p \notin 0 .. Len(f) - 1
                   PROVE  p = Len(f)
        BY <1>3 DEF Starts
      <3>1. p \notin Len(f) + 1 .. Len(g) - 1
        BY <1>5
      <3> QED
        BY <1>1, <1>2, <3>1
    <2>2. \A p \in Starts(f) : p \in Starts(g)
      BY <1>1, <1>2, <1>3 DEF Starts
    <2>3. Len(f) \in Starts(g)
      BY <1>1, <1>2, <1>4 DEF Starts
    <2> QED
      BY <2>1, <2>2, <2>3
  <1>7. \A p \in Starts(f) : Cell(g, p) = Cell(f, p)
    BY <1>3 DEF Starts
  <1>8. Whole(g)
    <2>1. 0 \in Boundaries(g)
      BY <1>6 DEF Whole, Boundaries
    <2>2. ASSUME NEW p \in Starts(g)
          PROVE  /\ p + Total(Cell(g, p)) \in Boundaries(g)
                 /\ \A q \in Starts(g) : p < q => p + Total(Cell(g, p)) <= q
      <3>1. CASE p = Len(f)
        BY <1>1, <1>2, <1>4, <1>6, <3>1, BoundaryTypes DEF Boundaries
      <3>2. CASE p \in Starts(f)
        <4>1. /\ p + Total(Cell(f, p)) \in Boundaries(f)
              /\ p + Total(Cell(f, p)) <= Len(f)
              /\ \A q \in Starts(f) : p < q => p + Total(Cell(f, p)) <= q
          BY <3>2, WholeRound, Zenon DEF Whole
        <4>2. Total(Cell(g, p)) = Total(Cell(f, p))
          BY <1>7, <3>2
        <4> QED
          BY <1>6, <4>1, <4>2 DEF Boundaries
      <3> QED
        BY <1>6, <3>1, <3>2
    <2> QED
      BY <2>1, <2>2 DEF Whole
  <1> QED
    BY <1>2, <1>4, <1>6, <1>7, <1>8

\* A scan finds it last.
LEMMA AppendScan ==
    ASSUME NEW H, Headers(H), NEW f \in Files(H), Whole(f), NEW b \in H,
           NEW t \in Files(H), IsBatch(t, b), NEW g, Joined(g, f, t)
    PROVE  Joined(ScanFrom(g, 0), ScanFrom(f, 0), <<b>>)
  <1>1. /\ g \in Files(H) /\ Len(g) = Len(f) + Total(b)
        /\ Len(f) \in Starts(g) /\ Cell(g, Len(f)) = b
        /\ Whole(g)
    BY AppendBatch
  <1>2. /\ ScanFrom(g, Len(f)) = <<b>> \o ScanFrom(g, Len(g))
        /\ Len(g) \in Boundaries(g)
    BY <1>1, WholeRound, SMTT(20) DEF Boundaries
  <1>3. ScanFrom(g, Len(g)) = <<>>
    BY <1>1, <1>2, WholeScans, Zenon
  <1>4. ScanFrom(g, Len(f)) = <<b>>
    BY <1>2, <1>3, SeqNothing
  <1>5. ScanFrom(g, 0) = ScanFrom(f, 0) \o ScanFrom(g, Len(f))
    BY ScanThrough DEF Joined
  <1> QED
    BY <1>4, <1>5 DEF Joined

\* A batch with the next offset keeps the file in order.
LEMMA AppendOrdered ==
    ASSUME NEW H, Headers(H), NEW seg, NEW f \in Files(H), f = seg.file, Whole(f),
           seg.base \in Nat, Ordered(f, seg.base),
           NEW b \in H, b.base = SegmentNextOffset(seg),
           NEW t \in Files(H), IsBatch(t, b), NEW g, Joined(g, f, t)
    PROVE  Ordered(g, seg.base)
  <1> DEFINE end == SegmentNextOffset(seg)
  <1>1. /\ g \in Files(H) /\ Len(g) = Len(f) + Total(b)
        /\ Starts(g) = Starts(f) \cup {Len(f)}
        /\ \A p \in Starts(f) : Cell(g, p) = Cell(f, p)
        /\ Cell(g, Len(f)) = b
    BY AppendBatch
  <1>2. /\ end \in Nat /\ seg.base <= end /\ (f = <<>> => end = seg.base)
        /\ \A p \in Starts(f) : LastOffset(Cell(f, p)) < end
        /\ \A p \in Starts(f) : p + Total(Cell(f, p)) = Len(f)
                                   => LastOffset(Cell(f, p)) + 1 = end
    BY SegmentEnd, Zenon
  <1>3. \A p \in Starts(f) : p \in Nat /\ p < Len(f) /\ p + Total(Cell(f, p)) \in Boundaries(f)
    BY BoundaryTypes DEF Whole
  <1>4. Len(f) \in Nat /\ Total(b) \in Nat /\ Total(b) > 0
    BY BoundaryTypes DEF Headers, Total
  <1> HIDE DEF end
  <1>5. Cell(g, 0).base = seg.base
    <2>1. CASE f = <<>>
      <3>1. Len(f) = 0
        BY <2>1
      <3> QED
        BY <1>1, <1>2, <2>1, <3>1 DEF end
    <2>2. CASE f # <<>>
      <3>1. 0 \in Starts(f)
        BY <2>2, SeqEmpty DEF Whole, Boundaries, Files
      <3>2. Cell(g, 0) = Cell(f, 0)
        BY <1>1, <3>1
      <3> QED
        BY <2>2, <3>2 DEF Ordered
    <2> QED
      BY <2>1, <2>2
  <1>6. ASSUME NEW p \in Starts(g)
        PROVE  /\ seg.base <= Cell(g, p).base
               /\ p + Total(Cell(g, p)) \in Starts(g)
                     => Cell(g, p + Total(Cell(g, p))).base = LastOffset(Cell(g, p)) + 1
               /\ \A q \in Starts(g) : p < q => LastOffset(Cell(g, p)) < Cell(g, q).base
    <2>1. CASE p = Len(f)
      <3>1. Cell(g, p) = b
        BY <1>1, <2>1
      <3>2. \A q \in Starts(g) : q <= p /\ q \in Nat
        BY <1>1, <1>3, <1>4, <2>1
      <3>3. p + Total(b) \notin Starts(g)
        BY <1>4, <2>1, <3>2
      <3> QED
        BY <1>2, <1>3, <1>4, <2>1, <3>1, <3>2, <3>3 DEF end
    <2>2. CASE p \in Starts(f)
      <3> DEFINE n == p + Total(Cell(f, p))
      <3>1. Cell(g, p) = Cell(f, p)
        BY <1>1, <2>2
      <3>2. seg.base <= Cell(f, p).base
        BY <2>2 DEF Ordered
      <3>3. n \in Starts(g) => Cell(g, n).base = LastOffset(Cell(f, p)) + 1
        <4>1. CASE n \in Starts(f)
          <5>1. Cell(g, n) = Cell(f, n) /\ Cell(f, n).base = LastOffset(Cell(f, p)) + 1
            BY <1>1, <2>2, <4>1 DEF Ordered
          <5> QED
            BY <5>1
        <4>2. CASE n = Len(f)
          <5>1. LastOffset(Cell(f, p)) + 1 = b.base /\ Cell(g, n) = b
            BY <1>1, <1>2, <2>2, <4>2 DEF end
          <5> QED
            BY <5>1
        <4> QED
          BY <1>3, <2>2, <4>1, <4>2 DEF Boundaries
      <3>4. ASSUME NEW q \in Starts(g), p < q
            PROVE  LastOffset(Cell(f, p)) < Cell(g, q).base
        <4>1. CASE q \in Starts(f)
          BY <1>1, <2>2, <3>4, <4>1, SMTT(20) DEF Ordered
        <4>2. CASE q = Len(f)
          BY <1>1, <1>2, <2>2, <4>2 DEF end
        <4> QED
          BY <1>1, <4>1, <4>2, SMTT(20)
      <3> QED
        BY <3>1, <3>2, <3>3, <3>4
    <2> QED
      BY <1>1, <2>1, <2>2
  <1> QED
    BY <1>5, <1>6 DEF Ordered

(***************************************************************************)
(* Segments: their types, whatever the disk did to the files, and what is  *)
(* right about them as long as every write succeeds.                       *)
(***************************************************************************)

SegmentRecords(H) ==
    [base : Nat, file : Files(H), currentSize : Nat,
     index : Seq([rel : Nat, pos : Nat]), lastIndexedPosition : Nat]

TypedSegments(H) ==
    {seg \in SegmentRecords(H) :
        /\ seg.currentSize <= Len(seg.file)
        /\ \A i \in DOMAIN seg.index : seg.index[i].pos <= Len(seg.file)}

\* An index entry points to a batch and has its offset.
IndexRight(seg) ==
    \A i \in DOMAIN seg.index :
        /\ seg.index[i].pos \in Starts(seg.file)
        /\ seg.index[i].rel = Cell(seg.file, seg.index[i].pos).base - seg.base

GoodSegments(H) ==
    {seg \in TypedSegments(H) :
        /\ Whole(seg.file)
        /\ Ordered(seg.file, seg.base)
        /\ seg.currentSize = Len(seg.file)
        /\ IndexRight(seg)}

LEMMA TypedFields ==
    ASSUME NEW H, NEW seg \in TypedSegments(H)
    PROVE  /\ seg \in SegmentRecords(H) /\ seg.base \in Nat /\ seg.file \in Files(H)
           /\ Len(seg.file) \in Nat
           /\ seg.currentSize \in Nat /\ seg.currentSize <= Len(seg.file)
           /\ seg.index \in Seq([rel : Nat, pos : Nat])
           /\ DOMAIN seg.index = 1 .. Len(seg.index) /\ Len(seg.index) \in Nat
           /\ \A i \in DOMAIN seg.index : /\ seg.index[i].pos \in 0 .. Len(seg.file)
                                          /\ seg.index[i].rel \in Nat
  <1>1. /\ seg \in SegmentRecords(H)
        /\ seg.currentSize <= Len(seg.file)
        /\ \A i \in DOMAIN seg.index : seg.index[i].pos <= Len(seg.file)
    BY DEF TypedSegments
  <1>2. /\ seg.base \in Nat /\ seg.file \in Files(H) /\ seg.currentSize \in Nat
        /\ seg.index \in Seq([rel : Nat, pos : Nat])
    BY <1>1 DEF SegmentRecords
  <1>3. Len(seg.file) \in Nat
    BY <1>2 DEF Files
  <1>4. /\ DOMAIN seg.index = 1 .. Len(seg.index) /\ Len(seg.index) \in Nat
        /\ \A i \in DOMAIN seg.index : seg.index[i] \in [rel : Nat, pos : Nat]
    BY <1>2, SeqLen, SeqElement, Zenon
  <1>5. \A i \in DOMAIN seg.index : /\ seg.index[i].pos \in 0 .. Len(seg.file)
                                    /\ seg.index[i].rel \in Nat
    BY <1>1, <1>3, <1>4
  <1> QED
    BY <1>1, <1>2, <1>3, <1>4, <1>5

LEMMA NewSegmentTyped ==
    ASSUME NEW H, NEW base \in Nat, NEW f \in Files(H)
    PROVE  /\ NewSegment(base, f) \in TypedSegments(H)
           /\ Whole(f) /\ Ordered(f, base) => NewSegment(base, f) \in GoodSegments(H)
  <1>1. Len(f) \in Nat
    BY DEF Files
  <1>2. <<>> \in Seq([rel : Nat, pos : Nat])
    BY SeqEmpty
  <1>3. NewSegment(base, f) \in SegmentRecords(H)
    BY <1>1, <1>2 DEF NewSegment, SegmentRecords
  <1> QED
    BY <1>1, <1>3 DEF NewSegment, TypedSegments, GoodSegments, IndexRight

\* The next offset is one, whatever is in the file.
LEMMA NextOffsetType ==
    ASSUME NEW H, Headers(H), NEW seg \in TypedSegments(H)
    PROVE  SegmentNextOffset(seg) \in Nat
  <1> DEFINE s == ScanFrom(seg.file, 0)
  <1>1. s \in Seq(H) /\ seg.base \in Nat
    BY ScanType DEF TypedSegments, SegmentRecords
  <1> HIDE DEF s
  <1>2. s # <<>> => Last(s) \in H
    BY <1>1, SeqEmpty, SeqElement DEF Last
  <1> QED
    BY <1>1, <1>2 DEF SegmentNextOffset, s, Headers, LastOffset, Last

LEMMA RelativeType ==
    ASSUME NEW seg, seg.base \in Nat, NEW base \in Nat
    PROVE  Relative(seg, base) \in Nat
  <1>1. 2^30 \in Nat
    OBVIOUS
  <1> QED
    BY <1>1 DEF Relative

\* The fields of a segment after an append.
LEMMA SegmentAppendFields ==
    ASSUME NEW H, NEW seg \in SegmentRecords(H), NEW o \in Nat, NEW blob,
           Patched(blob, o) \in Files(H), NEW s, s = SegmentAppend(seg, o, blob)
    PROVE  /\ s \in SegmentRecords(H)
           /\ s.base = seg.base
           /\ Joined(s.file, seg.file, Patched(blob, o))
           /\ s.currentSize = seg.currentSize + Len(Patched(blob, o))
           /\ \/ s.index = seg.index
              \/ s.index = Append(seg.index, [rel |-> Relative(seg, o),
                                              pos |-> Len(seg.file)])
  <1> DEFINE t == Patched(blob, o)
             w == Written(seg, t)
             e == [rel |-> Relative(seg, o), pos |-> Len(seg.file)]
             d == Indexed(w, o, Len(seg.file))
  <1>1. /\ seg.base \in Nat /\ seg.file \in Files(H) /\ Len(seg.file) \in Nat
        /\ seg.currentSize \in Nat /\ seg.index \in Seq([rel : Nat, pos : Nat])
        /\ seg.lastIndexedPosition \in Nat
    BY DEF SegmentRecords, Files
  <1>2. t \in Files(H) /\ Len(t) \in Nat
    BY DEF Files
  <1> DEFINE g == seg.file \o t
  <1>3. Joined(g, seg.file, t) /\ g \in Files(H)
    <2>1. Joined(g, seg.file, t)
      BY DEF Joined
    <2> HIDE DEF t, g
    <2> QED
      BY <1>1, <1>2, <2>1, JoinedLength
  <1> HIDE DEF t
  <1>4. /\ w.base = seg.base /\ w.file = g
        /\ w.currentSize = seg.currentSize + Len(t) /\ w.index = seg.index
        /\ w.lastIndexedPosition = seg.lastIndexedPosition
        /\ w \in SegmentRecords(H)
    <2>1. w = [seg EXCEPT !.file = g, !.currentSize = seg.currentSize + Len(t)]
      BY DEF Written
    <2> HIDE DEF w, g
    <2>2. seg.currentSize + Len(t) \in Nat
      BY <1>1, <1>2
    <2>3. w \in SegmentRecords(H)
      BY <1>3, <2>1, <2>2, Zenon DEF SegmentRecords
    <2>4. /\ w.base = seg.base /\ w.file = g
          /\ w.currentSize = seg.currentSize + Len(t) /\ w.index = seg.index
          /\ w.lastIndexedPosition = seg.lastIndexedPosition
      BY <2>1 DEF SegmentRecords
    <2> QED
      BY <2>3, <2>4
  <1> HIDE DEF g
  <1>5. /\ e \in [rel : Nat, pos : Nat] /\ Relative(w, o) = Relative(seg, o)
        /\ Append(seg.index, e) \in Seq([rel : Nat, pos : Nat])
    BY <1>1, <1>4, RelativeType DEF Relative
  <1> HIDE DEF w
  <1>6. /\ d.base = w.base /\ d.file = w.file /\ d.currentSize = w.currentSize
        /\ d.index = Append(w.index, e)
        /\ d \in SegmentRecords(H)
    <2>1. d = [w EXCEPT !.index = Append(w.index, e),
                        !.lastIndexedPosition = Len(seg.file)]
      BY <1>5 DEF Indexed
    <2>2. Append(w.index, e) \in Seq([rel : Nat, pos : Nat])
      BY <1>4, <1>5
    <2> HIDE DEF d, e
    <2> QED
      BY <1>1, <1>4, <2>1, <2>2, Zenon DEF SegmentRecords
  <1>7. s = w \/ s = d
    BY DEF SegmentAppend, w, t
  <1> HIDE DEF d, e
  <1>8. CASE s = w
    BY <1>3, <1>4, <1>8 DEF t
  <1>9. CASE s = d
    BY <1>3, <1>4, <1>6, <1>9 DEF t, e
  <1> QED
    BY <1>7, <1>8, <1>9

\* An append leaves a segment's types right, whatever was in its file.
LEMMA SegmentAppendTyped ==
    ASSUME NEW H, NEW seg \in TypedSegments(H), NEW o \in Nat, NEW blob,
           Patched(blob, o) \in Files(H)
    PROVE  SegmentAppend(seg, o, blob) \in TypedSegments(H)
  <1> DEFINE s == SegmentAppend(seg, o, blob)
             t == Patched(blob, o)
             e == [rel |-> Relative(seg, o), pos |-> Len(seg.file)]
  <1>1. /\ seg \in SegmentRecords(H) /\ seg.file \in Files(H)
        /\ seg.index \in Seq([rel : Nat, pos : Nat]) /\ seg.currentSize \in Nat
    BY TypedFields
  <1>2. /\ s \in SegmentRecords(H)
        /\ Joined(s.file, seg.file, t)
        /\ s.currentSize = seg.currentSize + Len(t)
        /\ s.index = seg.index \/ s.index = Append(seg.index, e)
    BY <1>1, SegmentAppendFields
  <1> HIDE DEF s, t, e
  <1>3. /\ Len(s.file) = Len(seg.file) + Len(t)
        /\ Len(seg.file) \in Nat /\ Len(t) \in Nat
    <2>1. t \in Files(H)
      BY DEF t
    <2>2. seg.file \in Files(H) /\ Joined(s.file, seg.file, t)
      BY <1>1, <1>2
    <2> QED
      BY <2>1, <2>2, JoinedLength
  <1>4. s.currentSize <= Len(s.file)
    BY <1>2, <1>3, TypedFields
  <1>5. ASSUME NEW i \in DOMAIN s.index PROVE s.index[i].pos <= Len(s.file)
    <2>1. ASSUME NEW j \in DOMAIN seg.index
          PROVE  seg.index[j].pos <= Len(s.file)
      <3>1. seg.index[j].pos \in 0 .. Len(seg.file)
        BY TypedFields
      <3> QED
        BY <1>3, <3>1
    <2>2. CASE s.index = seg.index
      BY <2>1, <2>2
    <2>3. CASE s.index = Append(seg.index, e)
      <3>1. /\ DOMAIN s.index = 1 .. Len(seg.index) + 1
            /\ DOMAIN seg.index = 1 .. Len(seg.index)
            /\ s.index[i] = IF i <= Len(seg.index) THEN seg.index[i] ELSE e
        BY <1>1, <2>3
      <3>2. e.pos = Len(seg.file)
        BY DEF e
      <3> QED
        BY <1>1, <1>3, <2>1, <3>1, <3>2
    <2> QED
      BY <1>2, <2>2, <2>3
  <1> QED
    BY <1>2, <1>4, <1>5 DEF TypedSegments, s

LEMMA GoodFields ==
    ASSUME NEW H, NEW seg \in GoodSegments(H)
    PROVE  /\ seg \in TypedSegments(H) /\ seg.base \in Nat /\ seg.file \in Files(H)
           /\ Len(seg.file) \in Nat
           /\ Whole(seg.file) /\ Ordered(seg.file, seg.base)
           /\ seg.currentSize = Len(seg.file)
           /\ IndexRight(seg)
  <1>1. /\ seg \in TypedSegments(H) /\ Whole(seg.file) /\ Ordered(seg.file, seg.base)
        /\ seg.currentSize = Len(seg.file) /\ IndexRight(seg)
    BY DEF GoodSegments
  <1> QED
    BY <1>1, TypedFields

\* The append of a batch to a good segment.
LEMMA SegmentAppendGood ==
    ASSUME NEW H, Headers(H), NEW seg \in GoodSegments(H),
           NEW o, o = SegmentNextOffset(seg),
           NEW blob, Patched(blob, o) \in Files(H),
           NEW c \in H, IsBatch(Patched(blob, o), c), c.base = o,
           NEW s, s = SegmentAppend(seg, o, blob)
    PROVE  /\ s \in GoodSegments(H)
           /\ s.base = seg.base
           /\ s.file # <<>>
           /\ SegmentNextOffset(s) = LastOffset(c) + 1
           /\ Joined(ScanFrom(s.file, 0), ScanFrom(seg.file, 0), <<c>>)
  <1> DEFINE f == seg.file
             t == Patched(blob, o)
             g == s.file
             e == [rel |-> Relative(seg, o), pos |-> Len(seg.file)]
  <1>1. /\ seg \in TypedSegments(H) /\ seg.base \in Nat /\ f \in Files(H)
        /\ Len(f) \in Nat /\ Whole(f) /\ Ordered(f, seg.base)
        /\ seg.currentSize = Len(f) /\ IndexRight(seg) /\ seg \in SegmentRecords(H)
    BY GoodFields, TypedFields
  <1>2. o \in Nat /\ seg.base <= o
    BY <1>1, SegmentEnd
  <1>3. t \in Files(H) /\ IsBatch(t, c)
    BY SMTT(20)
  <1>4. /\ s \in TypedSegments(H)
        /\ s.base = seg.base
        /\ Joined(g, f, t)
        /\ s.currentSize = seg.currentSize + Len(t)
        /\ s.index = seg.index \/ s.index = Append(seg.index, e)
    BY <1>1, <1>2, <1>3, SegmentAppendFields, SegmentAppendTyped, SMTT(20)
  <1> HIDE DEF t, g
  <1>5. /\ g \in Files(H) /\ Len(g) = Len(f) + Total(c) /\ Whole(g)
        /\ Starts(g) = Starts(f) \cup {Len(f)}
        /\ \A p \in Starts(f) : Cell(g, p) = Cell(f, p)
        /\ Cell(g, Len(f)) = c
    BY <1>1, <1>3, <1>4, AppendBatch
  <1>6. Ordered(g, seg.base)
    BY <1>1, <1>3, <1>4, AppendOrdered, Zenon
  <1>7. s.currentSize = Len(g)
    BY <1>1, <1>3, <1>4, <1>5 DEF IsBatch
  <1>8. ASSUME NEW i \in DOMAIN s.index
        PROVE  /\ s.index[i].pos \in Starts(g)
               /\ s.index[i].rel = Cell(g, s.index[i].pos).base - seg.base
    <2>1. ASSUME NEW j \in DOMAIN seg.index
          PROVE  /\ seg.index[j].pos \in Starts(g)
                 /\ seg.index[j].rel = Cell(g, seg.index[j].pos).base - seg.base
      <3>1. /\ seg.index[j].pos \in Starts(f)
            /\ seg.index[j].rel = Cell(f, seg.index[j].pos).base - seg.base
        BY <1>1 DEF IndexRight
      <3> QED
        BY <1>5, <3>1, SMTT(20)
    <2>2. e.pos \in Starts(g) /\ e.rel = Cell(g, e.pos).base - seg.base
      BY <1>2, <1>5, SMTT(20) DEF Relative
    <2> HIDE DEF e
    <2>3. CASE s.index = seg.index
      BY <2>1, <2>3
    <2>4. CASE s.index = Append(seg.index, e)
      <3>1. seg.index \in Seq([rel : Nat, pos : Nat]) /\ DOMAIN seg.index = 1 .. Len(seg.index)
        BY <1>1, TypedFields
      <3>2. \/ i \in DOMAIN seg.index /\ s.index[i] = seg.index[i]
            \/ s.index[i] = e
        BY <2>4, <3>1, SMTT(20)
      <3> QED
        BY <2>1, <2>2, <3>2, SMTT(20)
    <2> QED
      BY <1>4, <2>3, <2>4, SMTT(20)
  <1>9. IndexRight(s)
    BY <1>4, <1>8 DEF IndexRight, g
  <1>10. s \in GoodSegments(H)
    BY <1>4, <1>5, <1>6, <1>7, <1>9, SMTT(20) DEF GoodSegments, g
  <1>11. Joined(ScanFrom(g, 0), ScanFrom(f, 0), <<c>>)
    BY <1>1, <1>3, <1>4, AppendScan, SMTT(20)
  <1>12. SegmentNextOffset(s) = LastOffset(c) + 1
    <2>1. Len(f) \in Starts(g) /\ Len(f) + Total(Cell(g, Len(f))) = Len(g)
      BY <1>5
    <2>2. s.base \in Nat /\ Ordered(s.file, s.base) /\ s.file \in Files(H) /\ Whole(s.file)
      BY <1>10, GoodFields
    <2> QED
      BY <1>5, <2>1, <2>2, SegmentEnd, Zenon DEF g
  <1>13. g # <<>>
    BY <1>1, <1>5, BoundaryTypes DEF Total, Headers
  <1> QED
    BY <1>4, <1>10, <1>11, <1>12, <1>13, SMTT(20) DEF g

=============================================================================
