------------------------- MODULE CdnDownloader_proof -------------------------
EXTENDS CdnDownloader, WellFoundedInduction, FiniteSetTheorems, SequenceTheorems, TLAPS

-----------------------------------------------------------------------------
(* Numbers *)

\* A number is put together again from quotient and remainder.
LEMMA Divides ==
  ASSUME NEW a \in Nat, NEW p \in Nat \ {0}
  PROVE  /\ a \div p \in Nat /\ a % p \in 0 .. p - 1
         /\ p * (a \div p) \in Nat /\ a = p * (a \div p) + (a % p)
  OBVIOUS

\* A set of naturals has a least member, by induction on the numbers below one.
LEMMA Smallest ==
  ASSUME NEW T, T \subseteq Nat, T # {}
  PROVE  \E x \in T : \A y \in T : x <= y
  <1>1. PICK x \in T : \A y \in T : ~ (<<y, x>> \in OpToRel(<, Nat))
    BY NatLessThanWellFounded, WFMin
  <1>2. \A y \in T : ~ (y < x)
    BY <1>1 DEF OpToRel
  <1> QED
    BY <1>2

\* The members of a set of positions in their order: there is such a sequence, by induction
\* on the number of members.
LEMMA OrderExists ==
  ASSUME NEW S, S \subseteq Nat, IsFiniteSet(S)
  PROVE  \E q \in [1 .. Cardinality(S) -> S] : \A j, k \in DOMAIN q : j < k => q[j] < q[k]
  <1> DEFINE Good(R) == \E q \in [1 .. Cardinality(R) -> R] : \A j, k \in DOMAIN q : j < k => q[j] < q[k]
             Bad == {n \in Nat : \E R \in SUBSET Nat : IsFiniteSet(R) /\ Cardinality(R) = n /\ ~Good(R)}
  <1> SUFFICES ASSUME ~Good(S) PROVE FALSE
    OBVIOUS
  <1>1. Bad # {}
    BY FS_CardinalityType
  <1>2. PICK n \in Bad : \A m \in Bad : n <= m
    <2> HIDE DEF Bad
    <2>1. Bad \subseteq Nat
      BY DEF Bad
    <2> QED
      BY <1>1, <2>1, Smallest
  <1>3. PICK R \in SUBSET Nat : IsFiniteSet(R) /\ Cardinality(R) = n /\ ~Good(R)
    BY <1>2
  <1>4. R # {}
    <2> SUFFICES ASSUME R = {} PROVE Good(R)
      BY <1>3
    <2>1. Cardinality(R) = 0
      BY FS_EmptySet
    <2>2. [x \in 1 .. 0 |-> x] \in [1 .. 0 -> R]
      OBVIOUS
    <2> QED
      BY <2>1, <2>2
  <1>5. PICK x \in R : \A y \in R : x <= y
    BY <1>4, Smallest
  <1> DEFINE U == R \ {x}
  <1>6. IsFiniteSet(U) /\ Cardinality(U) = n - 1 /\ n \in Nat /\ n >= 1 /\ U \in SUBSET Nat
    BY <1>3, <1>4, <1>5, FS_RemoveElement, FS_EmptySet, FS_CardinalityType
  <1>7. Good(U)
    <2> HIDE DEF Good
    <2>1. n - 1 \notin Bad
      BY <1>2, <1>6
    <2> QED
      BY <1>6, <2>1
  <1>8. PICK q \in [1 .. n - 1 -> U] : \A j, k \in 1 .. n - 1 : j < k => q[j] < q[k]
    BY <1>6, <1>7
  <1> DEFINE r == [i \in 1 .. n |-> IF i = 1 THEN x ELSE q[i - 1]]
  <1>9. r \in [1 .. n -> R]
    BY <1>6, <1>8
  <1>10. \A y \in U : x < y
    BY <1>5
  <1>11. \A j, k \in 1 .. n : j < k => r[j] < r[k]
    <2> SUFFICES ASSUME NEW j \in 1 .. n, NEW k \in 1 .. n, j < k PROVE r[j] < r[k]
      OBVIOUS
    <2>1. k - 1 \in 1 .. n - 1 /\ r[k] = q[k - 1]
      BY <1>6
    <2>2. CASE j = 1
      BY <1>8, <1>10, <2>1, <2>2
    <2>3. CASE j # 1
      BY <1>6, <1>8, <2>1, <2>3
    <2> QED
      BY <2>2, <2>3
  <1> QED
    BY <1>3, <1>9, <1>11

\* InOrder(S) is such a sequence.
LEMMA InOrderFacts ==
  ASSUME NEW S, S \subseteq Nat, IsFiniteSet(S)
  PROVE  /\ InOrder(S) \in [1 .. Cardinality(S) -> S] /\ InOrder(S) \in Seq(S)
         /\ Len(InOrder(S)) = Cardinality(S) /\ Cardinality(S) \in Nat
  <1>1. InOrder(S) \in [1 .. Cardinality(S) -> S]
    BY OrderExists DEF InOrder
  <1>2. Cardinality(S) \in Nat
    BY FS_CardinalityType
  <1> QED
    BY <1>1, <1>2

\* The lesser and the greater of two numbers.
LEMMA MinMax ==
  ASSUME NEW a \in Int, NEW b \in Int
  PROVE  /\ Min({a, b}) = IF a <= b THEN a ELSE b
         /\ Max({a, b}) = IF a <= b THEN b ELSE a
  <1>1. \E x \in {a, b} : \A y \in {a, b} : x <= y
    OBVIOUS
  <1>2. \E x \in {a, b} : \A y \in {a, b} : x >= y
    OBVIOUS
  <1>3. Min({a, b}) \in {a, b} /\ Min({a, b}) <= a /\ Min({a, b}) <= b
    BY <1>1 DEF Min
  <1>4. Max({a, b}) \in {a, b} /\ Max({a, b}) >= a /\ Max({a, b}) >= b
    BY <1>2 DEF Max
  <1> QED
    BY <1>3, <1>4

\* The least member of a set of naturals.
LEMMA MinFacts ==
  ASSUME NEW T, T \subseteq Nat, T # {}
  PROVE  Min(T) \in T /\ \A y \in T : Min(T) <= y
  BY Smallest DEF Min

\* g starts with w and goes on by step.
Steps(g, w, n, step) == g[0] = w /\ \A i \in 1 .. n : g[i] = step[<<g[i - 1], i>>]

\* A function that is defined by recursion on the numbers up to n exists: there is one for
\* every shorter interval, and each is made from the one before it.
LEMMA Recursion ==
  ASSUME NEW W, NEW w \in W, NEW n \in Nat, NEW step \in [W \X (1 .. n) -> W]
  PROVE  \E g \in [0 .. n -> W] : Steps(g, w, n, step)
  <1> DEFINE Made(k) == \E g \in [0 .. k -> W] : g[0] = w /\ \A i \in 1 .. k : g[i] = step[<<g[i - 1], i>>]
             Bad == {k \in Nat : k <= n /\ ~Made(k)}
  <1> SUFFICES ASSUME ~Made(n) PROVE FALSE
    BY DEF Steps
  <1> HIDE DEF Made
  <1>0. n \in Bad
    OBVIOUS
  <1>1. PICK k \in Bad : \A j \in Bad : k <= j
    <2> HIDE DEF Bad
    <2>1. Bad \subseteq Nat
      BY DEF Bad
    <2> QED
      BY <1>0, <2>1, Smallest
  <1>2. k \in Nat /\ k <= n /\ ~Made(k)
    OBVIOUS
  <1>3. k # 0
    <2>1. [i \in 0 .. 0 |-> w] \in [0 .. 0 -> W] /\ [i \in 0 .. 0 |-> w][0] = w /\ 1 .. 0 = {}
      OBVIOUS
    <2>2. Made(0)
      BY <2>1 DEF Made
    <2> QED
      BY <1>2, <2>2
  <1>4. Made(k - 1)
    <2>1. k - 1 \in Nat /\ k - 1 <= n /\ ~(k <= k - 1)
      BY <1>2, <1>3
    <2>2. k - 1 \notin Bad
      BY <1>1, <2>1
    <2> QED
      BY <2>1, <2>2
  <1>5. PICK h \in [0 .. k - 1 -> W] : h[0] = w /\ \A i \in 1 .. k - 1 : h[i] = step[<<h[i - 1], i>>]
    BY <1>4 DEF Made
  <1>6. step[<<h[k - 1], k>>] \in W
    BY <1>2, <1>3, <1>5
  <1> DEFINE g == [i \in 0 .. k |-> IF i = k THEN step[<<h[k - 1], k>>] ELSE h[i]]
  <1>7. g \in [0 .. k -> W]
    BY <1>2, <1>5, <1>6
  <1>8. g[0] = w
    BY <1>2, <1>3, <1>5
  <1>9. ASSUME NEW i \in 1 .. k PROVE g[i] = step[<<g[i - 1], i>>]
    <2>1. i - 1 \in 0 .. k /\ i \in 0 .. k /\ i - 1 # k /\ g[i - 1] = h[i - 1]
      BY <1>2
    <2>2. CASE i = k
      BY <1>2, <2>1, <2>2
    <2>3. CASE i # k
      <3>1. i \in 1 .. k - 1
        BY <1>2, <2>3
      <3>2. g[i] = h[i]
        BY <2>1, <2>3
      <3> QED
        BY <1>5, <2>1, <3>1, <3>2
    <2> QED
      BY <2>2, <2>3
  <1> HIDE DEF g
  <1> QED
    BY <1>2, <1>7, <1>8, <1>9 DEF Made, Steps

\* What the first member has and each member leaves to the next one, the last one has.
LEMMA Reaches ==
  ASSUME NEW W, NEW n \in Nat, NEW h, h[0] \in W, \A i \in 1 .. n : h[i - 1] \in W => h[i] \in W
  PROVE  h[n] \in W
  <1> DEFINE Bad == {k \in Nat : k <= n /\ h[k] \notin W}
  <1> SUFFICES ASSUME n \in Bad PROVE FALSE
    OBVIOUS
  <1>1. PICK k \in Bad : \A j \in Bad : k <= j
    <2>1. Bad \subseteq Nat
      OBVIOUS
    <2> HIDE DEF Bad
    <2> QED
      BY <2>1, Smallest
  <1>2. k \in Nat /\ k <= n /\ h[k] \notin W /\ k # 0
    OBVIOUS
  <1>3. k - 1 \in Nat /\ k - 1 <= n /\ ~(k <= k - 1) /\ k \in 1 .. n
    BY <1>2
  <1>4. h[k - 1] \in W
    BY <1>1, <1>3
  <1> QED
    BY <1>2, <1>3, <1>4

-----------------------------------------------------------------------------
(* The downloader and its sources *)

\* A SegmentInfo, with a number of peers.
Infos == [seg : Segs, ready : BOOLEAN, pos : 0 .. SegPos, end : 0 .. SegPos,
          late : SUBSET Ids, disk : BOOLEAN, np2p : Nat, nsource : Int]
Windows == [beg : 0 .. SegCount, end : 0 .. SegCount, segs : Seq(Infos), tseg : {NULL, FREED} \union Segs]
Worlds == [dl : Windows, src : [Sources -> SourceType]]

\* The window and the sources fit together: WindowMatches, with the types; the window has no
\* more segments than it may have, and no peer is asked for more than its own window.
Fit(D) ==
  /\ D \in Worlds
  /\ D.dl.end - D.dl.beg <= Window
  /\ Len(D.dl.segs) = D.dl.end - D.dl.beg
  /\ \A i \in DOMAIN D.dl.segs : D.dl.segs[i].seg = D.dl.beg + i - 1
  /\ \A s \in Sources : D.src[s].ctx >= 0 => Live(D, D.src[s].ctx)
  /\ \A s \in Peers : Len(D.src[s].queue) <= PeerWindow

\* What the constants are.
LEMMA Constants ==
  /\ SegCount \in Nat /\ PPB \in Nat /\ PPB >= 1 /\ Window \in Nat /\ Window >= 1
  /\ SegPos \in Nat /\ SegPos >= 1 /\ SegPos = 2 * PPB /\ PeerWindow \in Nat
  /\ \A g \in Segs : SegLen[g] \in 1 .. SegPos /\ SegLen[g] \in Nat
  /\ NULL = -1 /\ FULL = -2 /\ FREED = -3 /\ NULL \notin Segs /\ FULL \notin Segs /\ FREED \notin Segs
  /\ Segs \subseteq Nat /\ Ids \subseteq Nat /\ Segs = 0 .. SegCount - 1 /\ Ids = 0 .. End - 1
  <1>1. SegCount \in Nat /\ PPB \in Nat /\ PPB >= 1 /\ Window \in Nat /\ Window >= 1 /\ PeerWindow \in Nat
        /\ SegLen \in [Segs -> 1 .. SegPos]
    BY DownloadAssumption
  <1>2. SegPos \in Nat /\ SegPos >= 1 /\ SegPos = 2 * PPB
    BY <1>1 DEF SegPos
  <1>3. Segs \subseteq Nat /\ Ids \subseteq Nat /\ Segs = 0 .. SegCount - 1 /\ Ids = 0 .. End - 1
    BY <1>1, <1>2 DEF Segs, Ids, End
  <1>4. \A g \in Segs : SegLen[g] \in 1 .. SegPos /\ SegLen[g] \in Nat
    BY <1>1, <1>2
  <1>5. NULL = -1 /\ FULL = -2 /\ FREED = -3
    BY DEF NULL, FULL, FREED
  <1> QED
    BY <1>1, <1>2, <1>3, <1>4, <1>5

\* The window of a downloader that fits.
LEMMA WindowFacts ==
  ASSUME NEW D, Fit(D)
  PROVE  /\ D.dl.beg \in Nat /\ D.dl.end \in Nat /\ D.dl.beg <= D.dl.end /\ D.dl.end <= SegCount
         /\ D.dl.segs \in Seq(Infos) /\ DOMAIN D.dl.segs = 1 .. D.dl.end - D.dl.beg
         /\ D.dl.tseg \in {NULL, FREED} \union Segs
         /\ \A i \in DOMAIN D.dl.segs : D.dl.segs[i] \in Infos
         /\ \A s \in Sources : D.src[s] \in SourceType
         /\ D.src \in [Sources -> SourceType]
  <1>1. D.dl \in Windows /\ D.src \in [Sources -> SourceType]
    BY DEF Fit, Worlds
  <1>2. D.dl.beg \in 0 .. SegCount /\ D.dl.end \in 0 .. SegCount /\ D.dl.segs \in Seq(Infos) /\ D.dl.tseg \in {NULL, FREED} \union Segs
    BY <1>1 DEF Windows
  <1>3. Len(D.dl.segs) \in Nat /\ DOMAIN D.dl.segs = 1 .. Len(D.dl.segs)
    BY <1>2
  <1>4. Len(D.dl.segs) = D.dl.end - D.dl.beg
    BY DEF Fit
  <1>5. D.dl.beg \in Nat /\ D.dl.end \in Nat /\ D.dl.beg <= D.dl.end /\ D.dl.end <= SegCount
    BY <1>2, <1>3, <1>4, Constants
  <1>6. \A i \in DOMAIN D.dl.segs : D.dl.segs[i] \in Infos
    BY <1>2
  <1> QED
    BY <1>1, <1>2, <1>3, <1>4, <1>5, <1>6

\* The segments of the window are those from its beginning to its end.
LEMMA LiveFacts ==
  ASSUME NEW D, Fit(D), NEW c \in Int
  PROVE  /\ Live(D, c) <=> D.dl.beg <= c /\ c < D.dl.end
         /\ Live(D, c) => At(D, c) \in DOMAIN D.dl.segs /\ Info(D, c) = D.dl.segs[At(D, c)]
                          /\ Info(D, c) \in Infos /\ Info(D, c).seg = c /\ c \in Segs
  <1>1. /\ D.dl.beg \in Nat /\ D.dl.end \in Nat /\ D.dl.end <= SegCount
        /\ DOMAIN D.dl.segs = 1 .. D.dl.end - D.dl.beg
        /\ \A i \in DOMAIN D.dl.segs : D.dl.segs[i] \in Infos /\ D.dl.segs[i].seg = D.dl.beg + i - 1
    BY WindowFacts DEF Fit
  <1>2. Live(D, c) <=> D.dl.beg <= c /\ c < D.dl.end
    <2> DEFINE x == D.dl.beg
               z == D.dl.end
    <2>1. x \in Nat /\ z \in Nat /\ DOMAIN D.dl.segs = 1 .. z - x
      BY <1>1
    <2>2. At(D, c) = c - x + 1
      BY DEF At
    <2> HIDE DEF x, z
    <2>3. c - x + 1 \in 1 .. z - x <=> x <= c /\ c < z
      BY <2>1
    <2> QED
      BY <2>1, <2>2, <2>3 DEF Live, x, z
  <1>3. ASSUME Live(D, c)
        PROVE  At(D, c) \in DOMAIN D.dl.segs /\ Info(D, c) = D.dl.segs[At(D, c)]
               /\ Info(D, c) \in Infos /\ Info(D, c).seg = c /\ c \in Segs
    <2>1. At(D, c) \in DOMAIN D.dl.segs /\ Info(D, c) = D.dl.segs[At(D, c)] /\ At(D, c) = c - D.dl.beg + 1
      BY <1>3 DEF Live, Info, At
    <2>2. Info(D, c) \in Infos /\ Info(D, c).seg = c
      <3> DEFINE k == At(D, c)
      <3>1. k \in DOMAIN D.dl.segs /\ Info(D, c) = D.dl.segs[k] /\ k = c - D.dl.beg + 1
        BY <2>1
      <3> HIDE DEF k
      <3>2. D.dl.segs[k] \in Infos /\ D.dl.segs[k].seg = D.dl.beg + k - 1
        BY <1>1, <3>1
      <3>3. D.dl.beg + k - 1 = c
        BY <1>1, <3>1
      <3> QED
        BY <3>1, <3>2, <3>3
    <2>3. c \in Segs
      BY <1>1, <1>2, <1>3, Constants
    <2> QED
      BY <2>1, <2>2, <2>3
  <1> QED
    BY <1>2, <1>3

\* One SegmentInfo, source or timeout_seg_ is changed.
PutSeg(D, i, v) == [D EXCEPT !.dl = [D.dl EXCEPT !.segs = [D.dl.segs EXCEPT ![i] = v]]]
PutSrc(D, s, w) == [D EXCEPT !.src = [D.src EXCEPT ![s] = w]]
PutLate(D, t)   == [D EXCEPT !.dl = [D.dl EXCEPT !.tseg = t]]

\* What such a change leaves.
LEMMA SegPut ==
  ASSUME NEW D, Fit(D), NEW i \in DOMAIN D.dl.segs, NEW v \in Infos, v.seg = D.dl.segs[i].seg
  PROVE  LET E == PutSeg(D, i, v)
         IN  /\ Fit(E) /\ E.src = D.src /\ E.dl.beg = D.dl.beg /\ E.dl.end = D.dl.end /\ E.dl.tseg = D.dl.tseg
             /\ DOMAIN E.dl.segs = DOMAIN D.dl.segs /\ E.dl.segs[i] = v
             /\ \A j \in DOMAIN D.dl.segs : j # i => E.dl.segs[j] = D.dl.segs[j]
  <1> DEFINE q == [D.dl.segs EXCEPT ![i] = v]
             d == [D.dl EXCEPT !.segs = q]
             E == PutSeg(D, i, v)
  <1>1. D.dl.segs \in Seq(Infos) /\ D.dl \in Windows /\ D.src \in [Sources -> SourceType] /\ D \in Worlds
    BY WindowFacts DEF Fit, Worlds
  <1>2. q \in Seq(Infos) /\ Len(q) = Len(D.dl.segs) /\ DOMAIN q = DOMAIN D.dl.segs /\ q[i] = v
        /\ \A j \in DOMAIN D.dl.segs : j # i => q[j] = D.dl.segs[j]
    BY <1>1
  <1>3. E = [D EXCEPT !.dl = d]
    BY DEF PutSeg
  <1> HIDE DEF q
  <1>4. d \in Windows /\ d.segs = q /\ d.beg = D.dl.beg /\ d.end = D.dl.end /\ d.tseg = D.dl.tseg
    BY <1>1, <1>2 DEF Windows
  <1> HIDE DEF d
  <1>5. E \in Worlds /\ E.dl = d /\ E.src = D.src
    BY <1>1, <1>3, <1>4 DEF Worlds
  <1> HIDE DEF E
  <1>6. \A c : Live(E, c) <=> Live(D, c)
    BY <1>2, <1>4, <1>5 DEF Live, At
  <1>7. Fit(E)
    BY <1>2, <1>4, <1>5, <1>6 DEF Fit
  <1> QED
    BY <1>2, <1>4, <1>5, <1>7 DEF E

LEMMA SrcPut ==
  ASSUME NEW D, Fit(D), NEW s \in Sources, NEW w \in SourceType, w.ctx >= 0 => Live(D, w.ctx),
         s \in Peers => Len(w.queue) <= PeerWindow
  PROVE  LET E == PutSrc(D, s, w)
         IN  /\ Fit(E) /\ E.dl = D.dl /\ E.src[s] = w
             /\ \A t \in Sources : t # s => E.src[t] = D.src[t]
  <1> DEFINE S == [D.src EXCEPT ![s] = w]
             E == PutSrc(D, s, w)
  <1>1. D.dl \in Windows /\ D.src \in [Sources -> SourceType] /\ D \in Worlds
    BY DEF Fit, Worlds
  <1>2. S \in [Sources -> SourceType] /\ S[s] = w /\ \A t \in Sources : t # s => S[t] = D.src[t]
    BY <1>1
  <1>3. E = [D EXCEPT !.src = S]
    BY DEF PutSrc
  <1> HIDE DEF S
  <1>4. E \in Worlds /\ E.dl = D.dl /\ E.src = S
    BY <1>1, <1>2, <1>3 DEF Worlds
  <1> HIDE DEF E
  <1>5. \A c : Live(E, c) <=> Live(D, c)
    BY <1>4 DEF Live, At
  <1>6. \A t \in Sources : E.src[t].ctx >= 0 => Live(E, E.src[t].ctx)
    BY <1>2, <1>4, <1>5 DEF Fit
  <1>7. Peers \subseteq Sources
    BY DEF Sources
  <1>8. \A t \in Peers : Len(E.src[t].queue) <= PeerWindow
    BY <1>2, <1>4, <1>7 DEF Fit
  <1>9. Fit(E)
    BY <1>4, <1>6, <1>8 DEF Fit
  <1> QED
    BY <1>2, <1>4, <1>9 DEF E

LEMMA LatePut ==
  ASSUME NEW D, Fit(D), NEW t \in {NULL, FREED} \union Segs
  PROVE  LET E == PutLate(D, t)
         IN  /\ Fit(E) /\ E.src = D.src /\ E.dl.beg = D.dl.beg /\ E.dl.end = D.dl.end /\ E.dl.tseg = t
             /\ E.dl.segs = D.dl.segs
  <1> DEFINE d == [D.dl EXCEPT !.tseg = t]
             E == PutLate(D, t)
  <1>1. D.dl \in Windows /\ D.src \in [Sources -> SourceType] /\ D \in Worlds
    BY DEF Fit, Worlds
  <1>2. d \in Windows /\ d.segs = D.dl.segs /\ d.beg = D.dl.beg /\ d.end = D.dl.end /\ d.tseg = t
    BY <1>1 DEF Windows
  <1>3. E = [D EXCEPT !.dl = d]
    BY DEF PutLate
  <1> HIDE DEF d
  <1>4. E \in Worlds /\ E.dl = d /\ E.src = D.src
    BY <1>1, <1>2, <1>3 DEF Worlds
  <1> HIDE DEF E
  <1>5. \A c : Live(E, c) <=> Live(D, c)
    BY <1>2, <1>4 DEF Live, At
  <1>6. Fit(E)
    BY <1>2, <1>4, <1>5 DEF Fit
  <1> QED
    BY <1>2, <1>4, <1>6 DEF E

-----------------------------------------------------------------------------
(* CdnDownloader::get_task *)

\* A SegmentInfo that counts k sources more.
Counted(v, u, k) == v \in Infos /\ v = [u EXCEPT !.nsource = u.nsource + k]

\* A segment of the window that has something to do.
Busy(D, c) == c \in Segs /\ Live(D, c) /\ ~Empty(Info(D, c))

\* Only the source s and what the segments hand out and count may differ.
Near(E, D, s) ==
  /\ Fit(E) /\ E.dl.beg = D.dl.beg /\ E.dl.end = D.dl.end /\ DOMAIN E.dl.segs = DOMAIN D.dl.segs
  /\ \A t \in Sources : t # s => E.src[t] = D.src[t]

\* The source keeps everything but its context.
SameWork(w, u) == w.queue = u.queue /\ w.st = u.st /\ w.zero = u.zero /\ w.map = u.map

\* Counting keeps a SegmentInfo what it is.
LEMMA CountOne ==
  ASSUME NEW u \in Infos, NEW k \in Int
  PROVE  /\ Counted([u EXCEPT !.nsource = u.nsource + k], u, k)
         /\ [u EXCEPT !.nsource = u.nsource + k].seg = u.seg
         /\ [u EXCEPT !.nsource = u.nsource + k] \in Infos
         /\ Empty([u EXCEPT !.nsource = u.nsource + k]) <=> Empty(u)
  BY DEF Counted, Infos, Empty

\* The source gives up its segment when that is gone or has nothing left to do.
LEMMA FinishFacts ==
  ASSUME NEW D, Fit(D), NEW s \in Sources
  PROVE  LET E == Finish(D, s)
             c == D.src[s].ctx
         IN  \/ E = D /\ (c = NULL \/ Busy(D, c))
             \/ /\ c # NULL /\ Near(E, D, s) /\ E.dl.tseg = D.dl.tseg
                /\ ~Busy(D, c)
                /\ SameWork(E.src[s], D.src[s]) /\ E.src[s].ctx = NULL
                /\ \A i \in DOMAIN D.dl.segs :
                     Counted(E.dl.segs[i], D.dl.segs[i], IF D.dl.segs[i].seg = c THEN -1 ELSE 0)
  <1> DEFINE c == D.src[s].ctx
             E == Finish(D, s)
             w == [D.src[s] EXCEPT !.ctx = NULL]
             u == D.dl.segs[At(D, c)]
             v == [u EXCEPT !.nsource = u.nsource + (-1)]
  <1>1. D.src[s] \in SourceType /\ c \in {NULL, FULL} \union Segs /\ c \in Int
    BY WindowFacts, Constants DEF SourceType
  <1>2. w \in SourceType /\ w.ctx = NULL /\ SameWork(w, D.src[s]) /\ ~(w.ctx >= 0)
        /\ w.queue = D.src[s].queue
    <2> DEFINE z == D.src[s]
    <2>1. w = [z EXCEPT !.ctx = NULL] /\ z \in SourceType
      BY <1>1
    <2> HIDE DEF z, w
    <2>2. w \in SourceType
      BY <2>1 DEF SourceType
    <2>3. w.ctx = NULL /\ w.queue = z.queue /\ w.st = z.st /\ w.zero = z.zero /\ w.map = z.map
      BY <2>1 DEF SourceType
    <2>4. ~(w.ctx >= 0)
      BY <2>3, Constants
    <2> QED
      BY <2>2, <2>3, <2>4 DEF SameWork, z
  <1>3. s \in Peers => Len(w.queue) <= PeerWindow
    BY <1>2 DEF Fit
  <1>4. Live(D, c) => c \in Segs
    BY <1>1, LiveFacts
  <1>5. CASE c = NULL \/ (Live(D, c) /\ ~Empty(Info(D, c)))
    <2>1. E = D
      BY <1>5 DEF Finish
    <2> QED
      BY <1>4, <1>5, <2>1 DEF Busy
  <1>6. CASE ~(c = NULL \/ (Live(D, c) /\ ~Empty(Info(D, c)))) /\ ~Live(D, c)
    <2>1. E = PutSrc(D, s, w)
      BY <1>6 DEF Finish, PutSrc
    <2> HIDE DEF E, w
    <2>2. /\ Fit(E) /\ E.dl = D.dl /\ E.src[s] = w /\ \A t \in Sources : t # s => E.src[t] = D.src[t]
      BY <1>2, <1>3, <2>1, SrcPut
    <2>3. \A i \in DOMAIN D.dl.segs : D.dl.segs[i] \in Infos
      BY WindowFacts
    <2>4. \A i \in DOMAIN D.dl.segs : D.dl.segs[i].seg # c
      <3> SUFFICES ASSUME NEW i \in DOMAIN D.dl.segs, D.dl.segs[i].seg = c PROVE FALSE
        OBVIOUS
      <3>1. c = D.dl.beg + i - 1 /\ i \in 1 .. D.dl.end - D.dl.beg /\ D.dl.beg \in Nat /\ D.dl.end \in Nat
        BY WindowFacts DEF Fit
      <3>2. D.dl.beg <= c /\ c < D.dl.end
        BY <3>1
      <3> QED
        BY <1>1, <1>6, <3>2, LiveFacts
    <2>5. \A i \in DOMAIN D.dl.segs : Counted(E.dl.segs[i], D.dl.segs[i], 0)
      BY <2>2, <2>3 DEF Counted, Infos
    <2> QED
      BY <1>2, <1>6, <2>2, <2>4, <2>5 DEF Near, E, Busy
  <1>7. CASE ~(c = NULL \/ (Live(D, c) /\ ~Empty(Info(D, c)))) /\ Live(D, c)
    <2> DEFINE F == PutSeg(D, At(D, c), v)
    <2>1. E = PutSrc(F, s, w)
      <3>2. D \in [dl : Windows, src : [Sources -> SourceType]] /\ D.dl \in Windows
        BY DEF Fit, Worlds
      <3>1. E = [[D EXCEPT !.src[s].ctx = NULL] EXCEPT !.dl.segs[At(D, c)].nsource = @ - 1]
        BY <1>7 DEF Finish
      <3>3. At(D, c) \in DOMAIN D.dl.segs /\ u \in Infos
        BY <1>1, <1>7, LiveFacts
      <3>4. v = [u EXCEPT !.nsource = @ - 1]
        BY <3>3 DEF Infos
      <3>5. [D.dl.segs EXCEPT ![At(D, c)].nsource = @ - 1] = [D.dl.segs EXCEPT ![At(D, c)] = v]
        BY <3>3, <3>4
      <3>6. F.src = D.src /\ F = [D EXCEPT !.dl = [D.dl EXCEPT !.segs = [D.dl.segs EXCEPT ![At(D, c)] = v]]]
        BY <3>2 DEF PutSeg
      <3> QED
        BY <3>1, <3>2, <3>5, <3>6 DEF PutSrc
    <2>2. At(D, c) \in DOMAIN D.dl.segs /\ u \in Infos /\ u.seg = c /\ Info(D, c) = u
      BY <1>1, <1>7, LiveFacts
    <2> HIDE DEF E, w, F
    <2>3. Counted(v, u, -1) /\ v.seg = u.seg /\ v \in Infos
      <3>1. -1 \in Int /\ u \in Infos
        BY <2>2
      <3> HIDE DEF u
      <3> QED
        BY <3>1, CountOne
    <2> DEFINE k == At(D, c)
    <2> HIDE DEF v, k
    <2>4. /\ Fit(F) /\ F.src = D.src /\ F.dl.beg = D.dl.beg /\ F.dl.end = D.dl.end /\ F.dl.tseg = D.dl.tseg
          /\ DOMAIN F.dl.segs = DOMAIN D.dl.segs /\ F.dl.segs[k] = v
          /\ \A j \in DOMAIN D.dl.segs : j # k => F.dl.segs[j] = D.dl.segs[j]
      BY <2>2, <2>3, SegPut DEF k, F
    <2>5. /\ Fit(E) /\ E.dl = F.dl /\ E.src[s] = w /\ \A t \in Sources : t # s => E.src[t] = F.src[t]
      BY <1>2, <1>3, <2>1, <2>4, SrcPut
    <2>6. \A i \in DOMAIN D.dl.segs : D.dl.segs[i] \in Infos /\ (D.dl.segs[i].seg = c => i = k)
      <3>1. \A i \in DOMAIN D.dl.segs : D.dl.segs[i] \in Infos /\ D.dl.segs[i].seg = D.dl.beg + i - 1 /\ i \in Nat
        BY WindowFacts DEF Fit
      <3>2. D.dl.beg \in Nat /\ k \in DOMAIN D.dl.segs /\ D.dl.segs[k].seg = c
        BY <2>2, WindowFacts DEF k
      <3> QED
        BY <3>1, <3>2
    <2>7. \A i \in DOMAIN D.dl.segs :
            Counted(E.dl.segs[i], D.dl.segs[i], IF D.dl.segs[i].seg = c THEN -1 ELSE 0)
      <3> SUFFICES ASSUME NEW i \in DOMAIN D.dl.segs
                   PROVE Counted(E.dl.segs[i], D.dl.segs[i], IF D.dl.segs[i].seg = c THEN -1 ELSE 0)
        OBVIOUS
      <3>1. CASE i = k
        BY <2>2, <2>3, <2>4, <2>5, <3>1 DEF k
      <3>2. CASE i # k
        <4>1. E.dl.segs[i] = D.dl.segs[i] /\ D.dl.segs[i].seg # c /\ D.dl.segs[i] \in Infos
          BY <2>4, <2>5, <2>6, <3>2
        <4> QED
          BY <4>1 DEF Counted, Infos
      <3> QED
        BY <3>1, <3>2
    <2> QED
      BY <1>2, <1>7, <2>4, <2>5, <2>7 DEF Near, E, Busy
  <1> QED
    BY <1>5, <1>6, <1>7

\* timeout_seg_ is then a segment that has something to do, or NULL.
LEMMA NextLateFacts ==
  ASSUME NEW D, Fit(D)
  PROVE  LET E == NextLate(D)
         IN  /\ Fit(E) /\ E.src = D.src /\ E.dl.beg = D.dl.beg /\ E.dl.end = D.dl.end /\ E.dl.segs = D.dl.segs
             /\ E.dl.tseg = NULL \/ Busy(E, E.dl.tseg)
             /\ D.dl.tseg = NULL => E = D
  <1> DEFINE E == NextLate(D)
             t == D.dl.tseg
             late == {i \in DOMAIN D.dl.segs : D.dl.segs[i].nsource = 0 /\ D.dl.segs[i].late # {}}
             x == IF late = {} THEN NULL ELSE D.dl.segs[Min(late)].seg
  <1>1. CASE t = NULL \/ (Live(D, t) /\ ~Empty(Info(D, t)))
    <2>1. E = D
      BY <1>1 DEF NextLate
    <2>2. t \in {NULL, FREED} \union Segs /\ t \in Int
      BY WindowFacts, Constants
    <2> QED
      BY <1>1, <2>1, <2>2, LiveFacts DEF Busy
  <1>2. CASE ~(t = NULL \/ (Live(D, t) /\ ~Empty(Info(D, t))))
    <2>1. E = PutLate(D, x)
      BY <1>2 DEF NextLate, PutLate
    <2>2. late # {} => Min(late) \in late
      <3> HIDE DEF late
      <3>1. late \subseteq Nat
        BY WindowFacts DEF late
      <3> QED
        BY <3>1, MinFacts
    <2>3. late # {} => /\ Min(late) \in DOMAIN D.dl.segs /\ D.dl.segs[Min(late)].late # {}
                       /\ D.dl.segs[Min(late)] \in Infos
      BY <2>2, WindowFacts
    <2> DEFINE k == Min(late)
    <2> HIDE DEF E, k, late
    <2>4. late # {} => /\ k \in DOMAIN D.dl.segs /\ D.dl.segs[k].late # {} /\ D.dl.segs[k] \in Infos
      BY <2>3 DEF k
    <2>5. late # {} => D.dl.segs[k].seg \in Segs
      BY <2>4 DEF Infos
    <2>6. x = IF late = {} THEN NULL ELSE D.dl.segs[k].seg
      BY DEF k
    <2> HIDE DEF x
    <2>7. /\ Fit(E) /\ E.src = D.src /\ E.dl.beg = D.dl.beg /\ E.dl.end = D.dl.end /\ E.dl.tseg = x
          /\ E.dl.segs = D.dl.segs
      BY <2>1, <2>5, <2>6, LatePut
    <2>8. CASE late = {}
      BY <1>2, <2>6, <2>7, <2>8 DEF E
    <2>9. CASE late # {}
      <3>1. x = D.dl.beg + k - 1 /\ k \in Nat /\ D.dl.beg \in Nat
        BY <2>4, <2>6, <2>9, WindowFacts DEF Fit
      <3>2. At(E, x) = k
        BY <2>7, <3>1 DEF At
      <3>3. Live(E, x) /\ Info(E, x) = D.dl.segs[k]
        BY <2>4, <2>7, <2>9, <3>2 DEF Live, Info
      <3>4. Busy(E, x)
        BY <2>4, <2>5, <2>6, <2>9, <3>3 DEF Busy, Empty
      <3> QED
        BY <1>2, <2>7, <3>4 DEF E
    <2> QED
      BY <2>8, <2>9
  <1> QED
    BY <1>1, <1>2

\* The priority is a number, so that a best segment exists when there are candidates.
LEMMA BestFacts ==
  ASSUME NEW D, Fit(D), NEW s, Candidates(D, s) # {}
  PROVE  /\ Best(D, s) \in Candidates(D, s) /\ Best(D, s) \in DOMAIN D.dl.segs
         /\ Busy(D, D.dl.segs[Best(D, s)].seg) /\ Best(D, s) = At(D, D.dl.segs[Best(D, s)].seg)
         /\ has_segment(D.src, s, D.dl.segs[Best(D, s)].seg)
  <1> DEFINE C == Candidates(D, s)
             T == {prio(D, i) : i \in C}
             B == {i \in C : \A j \in C : prio(D, i) <= prio(D, j)}
  <1>1. /\ DOMAIN D.dl.segs \subseteq Nat /\ D.dl.beg \in Nat
        /\ \A i \in DOMAIN D.dl.segs : /\ D.dl.segs[i] \in Infos /\ D.dl.segs[i].seg = D.dl.beg + i - 1
                                       /\ i \in Nat
    BY WindowFacts DEF Fit
  <1>2. C \subseteq DOMAIN D.dl.segs
    BY DEF Candidates
  <1>3. \A i \in DOMAIN D.dl.segs : prio(D, i) \in Nat
    <2> TAKE i \in DOMAIN D.dl.segs
    <2>1. SizeMax + 1 \in Nat /\ SizeMax + 1 > 0
      BY DEF SizeMax
    <2>2. D.dl.segs[i].np2p \in Nat /\ D.dl.segs[i].nsource \in Int
      BY <1>1 DEF Infos
    <2>3. ((i - 1) * 3 + D.dl.segs[i].np2p) + D.dl.segs[i].nsource \in Int
      BY <1>1, <2>2
    <2> QED
      BY <2>1, <2>3 DEF prio
  <1> HIDE DEF C
  <1>4. T \subseteq Nat /\ T # {}
    BY <1>2, <1>3 DEF C
  <1>5. PICK x \in T : \A y \in T : x <= y
    BY <1>4, Smallest
  <1>6. B # {} /\ B \subseteq Nat
    BY <1>1, <1>2, <1>5
  <1>7. Best(D, s) = Min(B)
    BY DEF Best, C
  <1> DEFINE b == Best(D, s)
  <1> HIDE DEF B
  <1>8. b \in B
    BY <1>6, <1>7, MinFacts
  <1> HIDE DEF b
  <1>9. b \in C /\ b \in DOMAIN D.dl.segs
    BY <1>2, <1>8 DEF B
  <1>10. ~Empty(D.dl.segs[b]) /\ has_segment(D.src, s, D.dl.segs[b].seg)
    BY <1>9 DEF C, Candidates
  <1> DEFINE g == D.dl.segs[b].seg
  <1>11. g \in Segs /\ b = At(D, g)
    <2>1. D.dl.segs[b] \in Infos /\ g = D.dl.beg + b - 1 /\ b \in Nat
      BY <1>1, <1>9
    <2>2. g \in Segs
      BY <2>1 DEF Infos
    <2> HIDE DEF g
    <2> QED
      BY <1>1, <2>1, <2>2 DEF At
  <1>12. Busy(D, g)
    BY <1>9, <1>10, <1>11 DEF Busy, Live, Info
  <1> QED
    BY <1>9, <1>10, <1>11, <1>12 DEF b, C

\* The source works for another segment.
Turn(u, g) == [u EXCEPT !.ctx = g]

\* The segment chosen has something to do.  Without timeout_seg_ it is the one the source
\* works for, which it is counted for.
LEMMA ChooseFacts ==
  ASSUME NEW D, Fit(D), NEW s \in Sources,
         D.dl.tseg = NULL \/ Busy(D, D.dl.tseg), D.src[s].ctx = NULL \/ Busy(D, D.src[s].ctx)
  PROVE  LET r == Choose(D, s)
             E == r.d
             c == r.seg
         IN  /\ Near(E, D, s) /\ E.dl.tseg = D.dl.tseg /\ SameWork(E.src[s], D.src[s])
             /\ c = NULL \/ (Busy(E, c) /\ E.src[s].ctx # NULL)
             /\ c = NULL => E = D /\ D.src[s].ctx = NULL
             /\ D.dl.tseg = NULL => E.src[s].ctx = c
             /\ D.dl.tseg = NULL =>
                  \A i \in DOMAIN D.dl.segs :
                    Counted(E.dl.segs[i], D.dl.segs[i], IF D.src[s].ctx = NULL /\ D.dl.segs[i].seg = c THEN 1 ELSE 0)
  <1> DEFINE r == Choose(D, s)
             E == r.d
             c == r.seg
             x == D.src[s].ctx
             t == D.dl.tseg
  <1>1. D.src[s] \in SourceType /\ x \in {NULL, FULL} \union Segs /\ t \in {NULL, FREED} \union Segs
        /\ \A i \in DOMAIN D.dl.segs : D.dl.segs[i] \in Infos
    BY WindowFacts DEF SourceType
  <1>2. ASSUME NEW g \in Segs, Live(D, g)
        PROVE  Turn(D.src[s], g) \in SourceType /\ Turn(D.src[s], g).ctx = g /\ SameWork(Turn(D.src[s], g), D.src[s])
               /\ (Turn(D.src[s], g).ctx >= 0 => Live(D, Turn(D.src[s], g).ctx))
               /\ (s \in Peers => Len(Turn(D.src[s], g).queue) <= PeerWindow)
    <2> DEFINE z == D.src[s]
               w == Turn(z, g)
    <2>1. w = [z EXCEPT !.ctx = g] /\ z \in SourceType
      BY <1>1 DEF Turn
    <2> HIDE DEF z, w
    <2>2. w \in SourceType
      BY <2>1 DEF SourceType
    <2>3. w.ctx = g /\ w.queue = z.queue /\ w.st = z.st /\ w.zero = z.zero /\ w.map = z.map
      BY <2>1 DEF SourceType
    <2>4. s \in Peers => Len(z.queue) <= PeerWindow
      BY DEF Fit, z
    <2>5. Turn(D.src[s], g) = w
      BY DEF w, z
    <2> QED
      BY <1>2, <2>2, <2>3, <2>4, <2>5 DEF SameWork, z
  <1>3. ASSUME NEW F, Fit(F), F.dl = D.dl, \A y \in Sources : y # s => F.src[y] = D.src[y]
        PROVE  /\ Near(F, D, s) /\ F.dl.tseg = D.dl.tseg
               /\ \A i \in DOMAIN D.dl.segs : Counted(F.dl.segs[i], D.dl.segs[i], 0)
               /\ \A g : Busy(D, g) => Busy(F, g)
    <2>1. \A i \in DOMAIN D.dl.segs : Counted(F.dl.segs[i], D.dl.segs[i], 0)
      BY <1>1, <1>3 DEF Counted, Infos
    <2> QED
      BY <1>3, <2>1 DEF Near, Busy, Live, Info, At
  <1>4. CASE t # NULL /\ has_segment(D.src, s, t)
    <2>1. t \in Segs /\ Live(D, t) /\ Busy(D, t) /\ t # NULL
      BY <1>4 DEF Busy
    <2>2. c = t
      BY <1>4 DEF Choose
    <2>3. CASE x = NULL
      <3>1. E = PutSrc(D, s, Turn(D.src[s], t))
        BY <1>4, <2>3 DEF Choose, PutSrc, Turn
      <3> DEFINE w == Turn(D.src[s], t)
      <3> HIDE DEF E, w
      <3>a. w \in SourceType /\ w.ctx = t /\ SameWork(w, D.src[s]) /\ (w.ctx >= 0 => Live(D, w.ctx))
            /\ (s \in Peers => Len(w.queue) <= PeerWindow)
        BY <1>2, <2>1 DEF w
      <3>b. E = PutSrc(D, s, w)
        BY <3>1 DEF w
      <3>2. Fit(E) /\ E.dl = D.dl /\ E.src[s] = w /\ \A y \in Sources : y # s => E.src[y] = D.src[y]
        BY <3>a, <3>b, SrcPut
      <3>3. Near(E, D, s) /\ E.dl.tseg = D.dl.tseg /\ Busy(E, t)
        BY <1>3, <2>1, <3>2
      <3> QED
        BY <1>4, <2>1, <2>2, <2>3, <3>a, <3>2, <3>3 DEF E
    <2>4. CASE x # NULL
      <3>1. E = D
        BY <1>4, <2>4 DEF Choose
      <3> HIDE DEF E
      <3>2. Near(E, D, s) /\ E.dl.tseg = D.dl.tseg
        BY <1>3, <3>1
      <3> QED
        BY <1>4, <2>1, <2>2, <2>4, <3>1, <3>2 DEF E, SameWork
    <2> QED
      BY <2>3, <2>4
  <1>5. CASE ~(t # NULL /\ has_segment(D.src, s, t)) /\ x # NULL
    <2>1. E = D /\ c = x
      BY <1>5 DEF Choose
    <2> HIDE DEF E
    <2>2. /\ Near(E, D, s) /\ E.dl.tseg = D.dl.tseg /\ Busy(D, x)
          /\ \A i \in DOMAIN D.dl.segs : Counted(E.dl.segs[i], D.dl.segs[i], 0)
      BY <1>3, <1>5, <2>1
    <2> QED
      BY <1>5, <2>1, <2>2 DEF E, SameWork
  <1>6. CASE ~(t # NULL /\ has_segment(D.src, s, t)) /\ x = NULL /\ Candidates(D, s) = {}
    <2>1. E = D /\ c = NULL
      BY <1>6 DEF Choose
    <2> HIDE DEF E
    <2>2. /\ Near(E, D, s) /\ E.dl.tseg = D.dl.tseg
          /\ \A i \in DOMAIN D.dl.segs : Counted(E.dl.segs[i], D.dl.segs[i], 0)
      BY <1>3, <2>1
    <2>3. \A i \in DOMAIN D.dl.segs : D.dl.segs[i].seg # NULL
      BY <1>1, Constants DEF Infos
    <2> QED
      BY <1>6, <2>1, <2>2, <2>3 DEF E, SameWork
  <1>7. CASE ~(t # NULL /\ has_segment(D.src, s, t)) /\ x = NULL /\ Candidates(D, s) # {}
    <2> DEFINE i0 == Best(D, s)
               u == D.dl.segs[i0]
               g == u.seg
               v == [u EXCEPT !.nsource = u.nsource + 1]
               F == PutSrc(D, s, Turn(D.src[s], g))
    <2>1. i0 \in DOMAIN D.dl.segs /\ u \in Infos /\ Busy(D, g) /\ i0 = At(D, g)
      BY <1>1, <1>7, BestFacts
    <2>2. c = g
      BY <1>7 DEF Choose
    <2>3. E = PutSeg(F, i0, v)
      <3>1. E = [D EXCEPT !.src[s].ctx = g, !.dl.segs[i0].nsource = @ + 1]
        BY <1>7 DEF Choose
      <3>2. D \in [dl : Windows, src : [Sources -> SourceType]] /\ D.dl \in Windows
        BY DEF Fit, Worlds
      <3>3. v = [u EXCEPT !.nsource = @ + 1]
        BY <2>1 DEF Infos
      <3>4. [D.dl.segs EXCEPT ![i0].nsource = @ + 1] = [D.dl.segs EXCEPT ![i0] = v]
        BY <2>1, <3>3
      <3>5. F = [D EXCEPT !.src = [D.src EXCEPT ![s] = [D.src[s] EXCEPT !.ctx = g]]]
        BY DEF PutSrc, Turn
      <3>6. F.dl = D.dl
        BY <3>2, <3>5
      <3> QED
        BY <3>1, <3>2, <3>4, <3>5, <3>6 DEF PutSeg
    <2>4. g \in Segs /\ Live(D, g)
      BY <2>1 DEF Busy
    <2> HIDE DEF E, F, i0, v, c
    <2> DEFINE w == Turn(D.src[s], g)
    <2>a. w \in SourceType /\ w.ctx = g /\ SameWork(w, D.src[s]) /\ (w.ctx >= 0 => Live(D, w.ctx))
          /\ (s \in Peers => Len(w.queue) <= PeerWindow)
      BY <1>2, <2>4
    <2>b. F = PutSrc(D, s, w)
      BY DEF F
    <2> HIDE DEF w
    <2>5. Fit(F) /\ F.dl = D.dl /\ F.src[s] = w /\ \A y \in Sources : y # s => F.src[y] = D.src[y]
      BY <2>a, <2>b, SrcPut
    <2>6. Counted(v, u, 1) /\ v.seg = g /\ v \in Infos /\ (Empty(v) <=> Empty(u))
      <3>1. u \in Infos /\ 1 \in Int
        BY <2>1
      <3> HIDE DEF u
      <3>2. Counted(v, u, 1) /\ v.seg = u.seg /\ v \in Infos /\ (Empty(v) <=> Empty(u))
        BY <3>1, CountOne DEF v
      <3> QED
        BY <3>2
    <2>7. /\ Fit(E) /\ E.src = F.src /\ E.dl.beg = D.dl.beg /\ E.dl.end = D.dl.end /\ E.dl.tseg = D.dl.tseg
          /\ DOMAIN E.dl.segs = DOMAIN D.dl.segs /\ E.dl.segs[i0] = v
          /\ \A j \in DOMAIN D.dl.segs : j # i0 => E.dl.segs[j] = D.dl.segs[j]
      BY <2>1, <2>3, <2>5, <2>6, SegPut
    <2>8. Near(E, D, s)
      BY <2>5, <2>7 DEF Near
    <2>9. Busy(E, g)
      <3>1. At(E, g) = i0
        BY <2>1, <2>7 DEF At
      <3> QED
        BY <2>1, <2>4, <2>6, <2>7, <3>1 DEF Busy, Live, Info
    <2>10. \A i \in DOMAIN D.dl.segs :
             Counted(E.dl.segs[i], D.dl.segs[i], IF D.dl.segs[i].seg = g THEN 1 ELSE 0)
      <3> SUFFICES ASSUME NEW i \in DOMAIN D.dl.segs
                   PROVE Counted(E.dl.segs[i], D.dl.segs[i], IF D.dl.segs[i].seg = g THEN 1 ELSE 0)
        OBVIOUS
      <3>1. CASE i = i0
        BY <2>6, <2>7, <3>1
      <3>2. CASE i # i0
        <4>1. D.dl.segs[i].seg = D.dl.beg + i - 1 /\ g = D.dl.beg + i0 - 1 /\ i \in Nat /\ i0 \in Nat
              /\ D.dl.beg \in Nat
          <5>1. \A j \in DOMAIN D.dl.segs : D.dl.segs[j].seg = D.dl.beg + j - 1 /\ j \in Nat
            BY WindowFacts DEF Fit
          <5> QED
            BY <2>1, <5>1, WindowFacts
        <4>2. D.dl.segs[i].seg # g
          <5> HIDE DEF g
          <5> QED
            BY <3>2, <4>1
        <4> QED
          BY <1>1, <2>7, <3>2, <4>2 DEF Counted, Infos
      <3> QED
        BY <3>1, <3>2
    <2>11. g # NULL
      BY <2>4, Constants
    <2>12. E.src[s].ctx = g /\ SameWork(E.src[s], D.src[s])
      BY <2>a, <2>5, <2>7
    <2> HIDE DEF g
    <2> QED
      BY <1>7, <2>2, <2>7, <2>8, <2>9, <2>10, <2>11, <2>12 DEF E, c
  <1> QED
    BY <1>4, <1>5, <1>6, <1>7

\* A position is made of its segment and its place there.
LEMMA Products ==
  ASSUME NEW a \in Nat, NEW b \in Nat, NEW p \in Nat, a < b
  PROVE  a * p \in Nat /\ b * p \in Nat /\ a * p + p <= b * p
  <1>1. (a + 1) * p = a * p + p
    OBVIOUS
  <1>2. (a + 1) * p <= b * p
    OBVIOUS
  <1> QED
    BY <1>1, <1>2

LEMMA Places ==
  ASSUME NEW c \in Segs, NEW o \in 0 .. SegPos - 1
  PROVE  c * SegPos \in Nat /\ c * SegPos + o \in Ids
  <1>1. c \in Nat /\ c < SegCount /\ SegCount \in Nat /\ SegPos \in Nat
    BY Constants
  <1>2. c * SegPos \in Nat /\ SegCount * SegPos \in Nat /\ c * SegPos + SegPos <= SegCount * SegPos
    BY <1>1, Products
  <1>3. End = SegCount * SegPos /\ Ids = 0 .. End - 1
    BY DEF End, Ids
  <1> DEFINE a == c * SegPos
  <1> HIDE DEF a
  <1>4. a \in Nat /\ a + SegPos <= End /\ End \in Nat
    BY <1>2, <1>3 DEF a
  <1>5. a + o \in Ids
    BY <1>1, <1>3, <1>4
  <1> QED
    BY <1>4, <1>5 DEF a

\* The segment has handed out n pieces more.
Advanced(v, u, n) == v \in Infos /\ v = [u EXCEPT !.pos = u.pos + n] /\ (n = 0 \/ u.pos + n <= u.end)

\* n places of segment c in a row.
Row(c, o, n) == [x \in 1 .. n |-> c * SegPos + o + (x - 1)]

\* What is taken of a segment with something to do: some pieces, no more than needed.
\* Without late ones they are consecutive.
LEMMA TakeFacts ==
  ASSUME NEW D, Fit(D), NEW c, Busy(D, c), NEW need \in Nat, need >= 1
  PROVE  LET g == Take(D, c, need)
             E == g.d
             u == Info(D, c)
         IN  /\ g.seg = c /\ g.pieces \in Seq(Ids) /\ Len(g.pieces) <= need
             /\ g.pieces # <<>> \/ ~Info(E, c).ready
             /\ Fit(E) /\ E.src = D.src /\ E.dl.beg = D.dl.beg /\ E.dl.end = D.dl.end /\ E.dl.tseg = D.dl.tseg
             /\ DOMAIN E.dl.segs = DOMAIN D.dl.segs
             /\ \A j \in DOMAIN D.dl.segs : j # At(D, c) => E.dl.segs[j] = D.dl.segs[j]
             /\ u.late = {} => \E n \in 0 .. need : g.pieces = Row(c, u.pos, n) /\ Advanced(Info(E, c), u, n)
  <1> DEFINE g == Take(D, c, need)
             E == g.d
             u == Info(D, c)
             L == u.late
             q == InOrder(L)
             k == Min({need, Len(q)})
             n == Min({need - k, Max({0, u.end - u.pos})})
             R == L \ ToSet(SubSeq(q, 1, k))
             v == [u EXCEPT !.late = R, !.pos = u.pos + n]
             ps == [x \in 1 .. k + n |-> IF x <= k THEN q[x] ELSE c * SegPos + u.pos + (x - k - 1)]
             a == At(D, c)
  <1>1. c \in Segs /\ c \in Int /\ Live(D, c) /\ ~Empty(u)
    BY Constants DEF Busy
  <1>2. a \in DOMAIN D.dl.segs /\ u = D.dl.segs[a] /\ u \in Infos /\ u.seg = c
    BY <1>1, LiveFacts
  <1> HIDE DEF a
  <1>3. g.seg = c /\ g.pieces = ps /\ E = PutSeg(D, a, v)
    <2>1. g = [seg |-> c,
               d |-> [D EXCEPT !.dl.segs[At(D, c)] = [u EXCEPT !.late = @ \ ToSet(SubSeq(q, 1, k)), !.pos = @ + n]],
               pieces |-> ps]
      BY DEF Take
    <2>2. [u EXCEPT !.late = @ \ ToSet(SubSeq(q, 1, k)), !.pos = @ + n] = v
      <3> HIDE DEF u, q, k, n
      <3> QED
        BY <1>2 DEF Infos
    <2> HIDE DEF g, u, v, ps, q, k, n
    <2>3. E = [D EXCEPT !.dl.segs[a] = v]
      BY <2>1, <2>2 DEF a
    <2> QED
      BY <2>1, <2>3 DEF PutSeg
  <1> HIDE DEF g, u
  <1>4. L \subseteq Ids /\ L \subseteq Nat /\ IsFiniteSet(L)
    <2>1. L \subseteq Ids
      BY <1>2 DEF Infos
    <2>2. End \in Int
      BY Constants DEF End
    <2>3. IsFiniteSet(Ids)
      BY <2>2, FS_Interval DEF Ids
    <2> QED
      BY <2>1, <2>3, FS_Subset, Constants
  <1>5. q \in Seq(L) /\ Len(q) = Cardinality(L) /\ Len(q) \in Nat
    BY <1>4, InOrderFacts
  <1>6. L # {} => Len(q) >= 1
    <2>1. Cardinality(L) = 0 => L = {}
      BY <1>4, FS_EmptySet
    <2> QED
      BY <1>5, <2>1
  <1>7. L = {} => Len(q) = 0
    BY <1>5, FS_EmptySet
  <1> HIDE DEF q, L
  <1>8. k \in Nat /\ k <= need /\ k <= Len(q) /\ (k = need \/ k = Len(q))
    BY <1>5, MinMax
  <1> HIDE DEF k
  <1>9. u.pos \in Nat /\ u.end \in Nat /\ u.pos <= SegPos /\ u.end <= SegPos /\ u.end - u.pos \in Int
    BY <1>2, Constants DEF Infos
  <1>10. /\ n \in Nat /\ n <= need - k /\ (n = 0 \/ u.pos + n <= u.end)
         /\ (k = 0 /\ u.pos < u.end) => n >= 1
    <2> DEFINE e == u.end - u.pos
               m == Max({0, e})
    <2>1. m = IF 0 <= e THEN e ELSE 0
      <3>1. 0 \in Int /\ e \in Int
        BY <1>9
      <3> HIDE DEF e
      <3> QED
        BY <3>1, MinMax
    <2> HIDE DEF m
    <2>2. m \in Nat /\ need - k \in Nat
      BY <1>8, <1>9, <2>1
    <2>3. n = IF need - k <= m THEN need - k ELSE m
      <3> DEFINE d == need - k
      <3>1. d \in Int /\ m \in Int
        BY <2>2
      <3> HIDE DEF d
      <3>2. Min({d, m}) = IF d <= m THEN d ELSE m
        BY <3>1, MinMax
      <3> QED
        BY <3>2 DEF m, d, e, n
    <2> QED
      BY <1>8, <1>9, <2>1, <2>2, <2>3
  <1> HIDE DEF n
  <1>11. v \in Infos /\ v.seg = c /\ v.ready = u.ready
    <2>1. R \in SUBSET Ids
      BY <1>4 DEF L
    <2>2. u.pos + n \in 0 .. SegPos
      BY <1>9, <1>10, Constants
    <2> HIDE DEF R
    <2> QED
      BY <1>2, <2>1, <2>2 DEF Infos
  <1>12. ps \in Seq(Ids) /\ Len(ps) = k + n
    <2>1. k + n \in Nat
      BY <1>8, <1>10
    <2>2. ASSUME NEW x \in 1 .. k + n PROVE ps[x] \in Ids
      <3>1. CASE x <= k
        <4>1. q[x] \in L
          BY <1>5, <1>8, <3>1
        <4> QED
          BY <1>4, <3>1, <4>1
      <3>2. CASE ~(x <= k)
        <4> DEFINE o == u.pos + (x - k - 1)
        <4>1. o \in 0 .. SegPos - 1
          <5>1. k \in Nat /\ n \in Nat /\ x \in Nat /\ x > k /\ x <= k + n /\ n # 0
            BY <1>8, <1>10, <3>2
          <5>2. u.pos \in Nat /\ u.end \in Nat /\ u.end <= SegPos /\ u.pos + n <= u.end /\ SegPos \in Nat
            BY <1>9, <1>10, <5>1, Constants
          <5> QED
            BY <5>1, <5>2
        <4>2. c * SegPos \in Nat /\ c * SegPos + o \in Ids
          <5> HIDE DEF o
          <5> QED
            BY <1>1, <4>1, Places
        <4>3. ps[x] = c * SegPos + u.pos + (x - k - 1)
          BY <3>2
        <4>4. c * SegPos + u.pos + (x - k - 1) = c * SegPos + o
          <5> DEFINE b == c * SegPos
          <5> HIDE DEF b
          <5>1. b \in Nat
            BY <4>2 DEF b
          <5>2. b + u.pos + (x - k - 1) = b + o
            BY <1>8, <1>9, <5>1
          <5> QED
            BY <5>2 DEF b
        <4> QED
          BY <4>2, <4>3, <4>4
      <3> QED
        BY <3>1, <3>2
    <2> HIDE DEF ps
    <2>3. ps = [x \in 1 .. k + n |-> ps[x]]
      BY DEF ps
    <2> QED
      BY <2>1, <2>2, <2>3
  <1>13. ps # <<>> \/ ~u.ready
    <2> HIDE DEF ps
    <2>1. k + n >= 1 => ps # <<>>
      BY <1>8, <1>10, <1>12
    <2>2. k + n >= 1 \/ ~u.ready
      BY <1>1, <1>5, <1>6, <1>8, <1>9, <1>10 DEF Empty, L
    <2> QED
      BY <2>1, <2>2
  <1> HIDE DEF v, ps, E
  <1>14. /\ Fit(E) /\ E.src = D.src /\ E.dl.beg = D.dl.beg /\ E.dl.end = D.dl.end /\ E.dl.tseg = D.dl.tseg
         /\ DOMAIN E.dl.segs = DOMAIN D.dl.segs /\ E.dl.segs[a] = v
         /\ \A j \in DOMAIN D.dl.segs : j # a => E.dl.segs[j] = D.dl.segs[j]
    BY <1>2, <1>3, <1>11, SegPut
  <1>15. Info(E, c) = v
    BY <1>14 DEF Info, At, a
  <1>16. L = {} => ps = Row(c, u.pos, n) /\ Advanced(v, u, n) /\ n \in 0 .. need
    <2> SUFFICES ASSUME L = {} PROVE ps = Row(c, u.pos, n) /\ Advanced(v, u, n) /\ n \in 0 .. need
      OBVIOUS
    <2>1. k = 0
      BY <1>7, <1>8
    <2>2. c * SegPos \in Nat
      BY <1>1, Places, Constants
    <2>3. ps = Row(c, u.pos, n)
      <3> DEFINE b == c * SegPos
      <3>1. ps = [x \in 1 .. n |-> b + u.pos + (x - 1)]
        <4> HIDE DEF b
        <4>1. ps = [x \in 1 .. k + n |-> IF x <= k THEN q[x] ELSE b + u.pos + (x - k - 1)]
          BY DEF ps, b
        <4> QED
          BY <1>10, <2>1, <4>1
      <3> QED
        BY <3>1 DEF Row
    <2>4. v = [u EXCEPT !.pos = u.pos + n]
      <3>1. R = u.late
        BY DEF R, L
      <3> HIDE DEF R
      <3> QED
        BY <1>2, <3>1 DEF Infos, v
    <2> QED
      BY <1>8, <1>10, <1>11, <2>1, <2>3, <2>4 DEF Advanced
  <1> QED
    BY <1>3, <1>8, <1>10, <1>11, <1>12, <1>13, <1>14, <1>15, <1>16 DEF E, L, g, u, a

\* What a source can still be asked for.
LEMMA LeftFacts ==
  ASSUME NEW D, Fit(D), NEW s \in Sources
  PROVE  window_left(D.src, s) \in Nat
  BY Constants, WindowFacts DEF Fit, window_left, SourceType

\* A task for a source: pieces of a segment with something to do.
LEMMA TaskFacts ==
  ASSUME NEW D, Fit(D), NEW s \in Sources
  PROVE  LET g == get_task(D, s)
         IN  /\ Near(g.d, D, s) /\ SameWork(g.d.src[s], D.src[s])
             /\ g.pieces = <<>> \/ (g.pieces \in Seq(Ids) /\ Len(g.pieces) <= window_left(D.src, s))
             /\ g.seg # NULL => g.pieces # <<>> \/ ~Info(g.d, g.seg).ready
  <1> DEFINE g == get_task(D, s)
             need == window_left(D.src, s)
             A == Finish(D, s)
             B == NextLate(A)
             r == Choose(B, s)
             C == r.d
             c == r.seg
             T == Take(C, c, need)
  <1>1. need \in Nat
    BY LeftFacts
  <1>2. g = IF need = 0 THEN [d |-> D, seg |-> NULL, pieces |-> <<>>]
            ELSE IF c = NULL THEN [d |-> C, seg |-> NULL, pieces |-> <<>>]
            ELSE T
    BY DEF get_task
  <1>3. Near(A, D, s) /\ SameWork(A.src[s], D.src[s]) /\ (A.src[s].ctx = NULL \/ Busy(A, A.src[s].ctx))
    <2> HIDE DEF A
    <2>1. \/ A = D /\ (D.src[s].ctx = NULL \/ Busy(D, D.src[s].ctx))
          \/ Near(A, D, s) /\ SameWork(A.src[s], D.src[s]) /\ A.src[s].ctx = NULL
      BY FinishFacts DEF A
    <2> QED
      BY <2>1 DEF Near, SameWork
  <1> HIDE DEF A
  <1>4. /\ Fit(B) /\ B.src = A.src /\ B.dl.beg = A.dl.beg /\ B.dl.end = A.dl.end /\ B.dl.segs = A.dl.segs
        /\ B.dl.tseg = NULL \/ Busy(B, B.dl.tseg)
    BY <1>3, NextLateFacts DEF Near
  <1> HIDE DEF B
  <1>5. Near(B, D, s) /\ SameWork(B.src[s], D.src[s]) /\ (B.src[s].ctx = NULL \/ Busy(B, B.src[s].ctx))
    BY <1>3, <1>4 DEF Near, Busy, Live, Info, At
  <1>6. Near(C, B, s) /\ SameWork(C.src[s], B.src[s]) /\ (c = NULL \/ Busy(C, c))
    BY <1>4, <1>5, ChooseFacts
  <1> HIDE DEF C, c
  <1>7. Near(C, D, s) /\ SameWork(C.src[s], D.src[s])
    BY <1>5, <1>6 DEF Near, SameWork
  <1> HIDE DEF need, g
  <1>8. CASE need = 0
    BY <1>2, <1>8 DEF Near, SameWork, g
  <1>9. CASE need # 0 /\ c = NULL
    BY <1>2, <1>7, <1>9 DEF g
  <1>10. CASE need # 0 /\ c # NULL
    <2>1. g = T
      BY <1>2, <1>10
    <2> HIDE DEF T
    <2>2. /\ T.seg = c /\ T.pieces \in Seq(Ids) /\ Len(T.pieces) <= need
          /\ T.pieces # <<>> \/ ~Info(T.d, c).ready
          /\ Fit(T.d) /\ T.d.src = C.src /\ T.d.dl.beg = C.dl.beg /\ T.d.dl.end = C.dl.end
          /\ DOMAIN T.d.dl.segs = DOMAIN C.dl.segs
      BY <1>1, <1>6, <1>7, <1>10, TakeFacts DEF Near, T
    <2>3. Near(T.d, D, s) /\ SameWork(T.d.src[s], D.src[s])
      BY <1>7, <2>2 DEF Near
    <2> QED
      BY <2>1, <2>2, <2>3 DEF g, need
  <1> QED
    BY <1>8, <1>9, <1>10

\* A request: what the source keeps then.
Requested(u, s, ps) ==
  IF ps = <<>> THEN u
  ELSE IF s \in Peers THEN [u EXCEPT !.queue = u.queue \o ps]
  ELSE [u EXCEPT !.queue = ps, !.st = "open", !.zero = FALSE]

\* A source that asks for a task leaves a downloader that fits.
LEMMA ReadyFacts ==
  ASSUME NEW D, Fit(D), NEW s \in Sources
  PROVE  LET E == on_ready(D, s)
             g == get_task(D, s)
         IN  /\ Near(E, D, s) /\ E.dl = g.d.dl /\ E.src[s] = Requested(g.d.src[s], s, g.pieces)
  <1> DEFINE E == on_ready(D, s)
             g == get_task(D, s)
             F == g.d
             ps == g.pieces
             u == F.src[s]
             w == Requested(u, s, ps)
  <1>1. /\ Near(F, D, s) /\ SameWork(F.src[s], D.src[s])
        /\ ps = <<>> \/ (ps \in Seq(Ids) /\ Len(ps) <= window_left(D.src, s))
    BY TaskFacts
  <1>2. E = [F EXCEPT !.src = request(F.src, s, ps)]
    BY DEF on_ready
  <1> HIDE DEF F, ps, E
  <1>3. Fit(F) /\ u \in SourceType /\ F \in [dl : Windows, src : [Sources -> SourceType]]
        /\ F.src \in [Sources -> SourceType]
    BY <1>1, WindowFacts DEF Near, Fit, Worlds
  <1>4. E = PutSrc(F, s, w)
    <2>1. CASE ps = <<>>
      BY <1>2, <1>3, <2>1 DEF request, Requested, PutSrc
    <2>2. CASE ps # <<>> /\ s \in Peers
      <3>1. request(F.src, s, ps) = [F.src EXCEPT ![s].queue = @ \o ps]
        BY <2>2 DEF request
      <3>2. w = [u EXCEPT !.queue = @ \o ps]
        BY <1>3, <2>2 DEF Requested, SourceType
      <3>3. request(F.src, s, ps) = [F.src EXCEPT ![s] = w]
        BY <1>3, <3>1, <3>2
      <3> QED
        BY <1>2, <3>3 DEF PutSrc
    <2>3. CASE ps # <<>> /\ s \notin Peers
      <3>1. request(F.src, s, ps) = [F.src EXCEPT ![s].queue = ps, ![s].st = "open", ![s].zero = FALSE]
        BY <2>3 DEF request
      <3>2. w = [u EXCEPT !.queue = ps, !.st = "open", !.zero = FALSE]
        BY <2>3 DEF Requested
      <3>3. request(F.src, s, ps) = [F.src EXCEPT ![s] = w]
        BY <1>3, <3>1, <3>2
      <3> QED
        BY <1>2, <3>3 DEF PutSrc
    <2> QED
      BY <2>1, <2>2, <2>3
  <1>5. w \in SourceType /\ w.ctx = u.ctx /\ (s \in Peers => Len(w.queue) <= PeerWindow)
    <2>1. u.queue = D.src[s].queue /\ u.queue \in Seq(Ids)
      BY <1>1, <1>3 DEF SameWork, SourceType
    <2>2. s \in Peers => Len(u.queue) <= PeerWindow
      BY <1>3 DEF Fit
    <2>3. CASE ps = <<>>
      BY <1>3, <2>2, <2>3 DEF Requested
    <2>4. CASE ps # <<>> /\ s \in Peers
      <3>1. ps \in Seq(Ids) /\ Len(ps) <= PeerWindow - Len(u.queue)
        BY <1>1, <2>1, <2>4 DEF window_left
      <3>2. u.queue \o ps \in Seq(Ids) /\ Len(u.queue \o ps) <= PeerWindow
        <4> DEFINE a == u.queue
        <4>1. a \in Seq(Ids) /\ ps \in Seq(Ids) /\ Len(ps) <= PeerWindow - Len(a)
          BY <2>1, <3>1
        <4> HIDE DEF a
        <4>2. a \o ps \in Seq(Ids) /\ Len(a \o ps) = Len(a) + Len(ps)
          BY <4>1, ConcatProperties
        <4>3. Len(a) \in Nat /\ Len(ps) \in Nat /\ PeerWindow \in Nat
          BY <4>1, Constants
        <4>4. Len(a \o ps) <= PeerWindow
          BY <4>1, <4>2, <4>3
        <4> QED
          BY <4>2, <4>4 DEF a
      <3>3. w = [u EXCEPT !.queue = u.queue \o ps]
        BY <2>4 DEF Requested
      <3> HIDE DEF w
      <3> QED
        BY <1>3, <3>2, <3>3 DEF SourceType
    <2>5. CASE ps # <<>> /\ s \notin Peers
      <3>1. w = [u EXCEPT !.queue = ps, !.st = "open", !.zero = FALSE]
        BY <2>5 DEF Requested
      <3> HIDE DEF w
      <3> QED
        BY <1>1, <1>3, <2>5, <3>1 DEF SourceType
    <2> QED
      BY <2>3, <2>4, <2>5
  <1> HIDE DEF w
  <1>6. w.ctx >= 0 => Live(F, w.ctx)
    BY <1>3, <1>5 DEF Fit
  <1>7. /\ Fit(E) /\ E.dl = F.dl /\ E.src[s] = w /\ \A t \in Sources : t # s => E.src[t] = F.src[t]
    BY <1>3, <1>4, <1>5, <1>6, SrcPut
  <1>8. Near(E, D, s)
    BY <1>1, <1>7 DEF Near
  <1> QED
    BY <1>7, <1>8 DEF E, F, w, ps

\* Serving the sources in their order keeps what serving one of them keeps.
LEMMA ServeAllKeeps ==
  ASSUME NEW W, NEW D \in W, NEW c, order \in Seq(Sources),
         \A F \in W : \A s \in Sources : Serve(F, c, s) \in W
  PROVE  ServeAll(D, c) \in W
  <1> DEFINE m == Len(order)
             Ok(f) == f = [n \in 0 .. m |-> IF n = 0 THEN D ELSE Serve(f[n - 1], c, order[n])]
             h == CHOOSE f : Ok(f)
             step == [a \in W \X (1 .. m) |-> Serve(a[1], c, order[a[2]])]
  <1>1. m \in Nat /\ \A n \in 1 .. m : order[n] \in Sources
    OBVIOUS
  <1>2. ServeAll(D, c) = h[m]
    BY DEF ServeAll
  <1>3. step \in [W \X (1 .. m) -> W]
    BY <1>1
  <1> HIDE DEF m, step
  <1>4. PICK g \in [0 .. m -> W] : g[0] = D /\ \A i \in 1 .. m : g[i] = step[<<g[i - 1], i>>]
    <2>1. \E g \in [0 .. m -> W] : Steps(g, D, m, step)
      BY <1>1, <1>3, Recursion
    <2> QED
      BY <2>1 DEF Steps
  <1>5. Ok(g)
    <2>1. \A n \in 0 .. m : g[n] = IF n = 0 THEN D ELSE Serve(g[n - 1], c, order[n])
      <3> SUFFICES ASSUME NEW n \in 0 .. m, n # 0 PROVE g[n] = Serve(g[n - 1], c, order[n])
        BY <1>4
      <3>1. n \in 1 .. m /\ n - 1 \in 0 .. m
        BY <1>1
      <3>2. <<g[n - 1], n>> \in W \X (1 .. m)
        BY <1>4, <3>1
      <3>3. step[<<g[n - 1], n>>] = Serve(g[n - 1], c, order[n])
        BY <3>2 DEF step
      <3> QED
        BY <1>4, <3>1, <3>3
    <2> QED
      BY <1>4, <2>1
  <1>6. Ok(h)
    <2> HIDE DEF Ok
    <2> QED
      BY <1>5
  <1> HIDE DEF h
  <1>7. /\ h[0] = D
        /\ \A n \in 1 .. m : h[n] = Serve(h[n - 1], c, order[n])
    BY <1>1, <1>6
  <1> HIDE DEF Ok
  <1>8. \A n \in 1 .. m : h[n - 1] \in W => h[n] \in W
    BY <1>1, <1>7
  <1>9. h[m] \in W
    BY <1>1, <1>7, <1>8, Reaches
  <1> QED
    BY <1>2, <1>9

\* In particular the window goes on fitting.
LEMMA ServedFits ==
  ASSUME NEW D, Fit(D), NEW c, order \in Seq(Sources)
  PROVE  Fit(ServeAll(D, c))
  <1> DEFINE W == {F \in Worlds : Fit(F)}
  <1>1. \A F \in W : \A s \in Sources : Serve(F, c, s) \in W
    <2> TAKE F \in W
    <2> TAKE s \in Sources
    <2>1. Fit(on_ready(F, s))
      BY ReadyFacts DEF Near
    <2>2. Serve(F, c, s) = on_ready(F, s) \/ Serve(F, c, s) = F
      BY DEF Serve
    <2> QED
      BY <2>1, <2>2 DEF Fit
  <1>2. D \in W
    BY DEF Fit
  <1> HIDE DEF W
  <1>3. ServeAll(D, c) \in W
    BY <1>1, <1>2, ServeAllKeeps
  <1> QED
    BY <1>3 DEF W

-----------------------------------------------------------------------------
(* Late pieces and segments whose size becomes known *)

\* A piece is late.
LEMMA TimeoutFits ==
  ASSUME NEW D, Fit(D), NEW id \in Ids
  PROVE  Fit(on_timeout(D, id)) /\ on_timeout(D, id).src = D.src
  <1> DEFINE g == SegOf(id)
             a == At(D, g)
             u == D.dl.segs[a]
             v == [u EXCEPT !.late = u.late \union {id}]
             F == PutSeg(D, a, v)
             t == IF u.nsource = 0 /\ D.dl.tseg = NULL THEN g ELSE D.dl.tseg
             E == on_timeout(D, id)
  <1>1. g \in Nat
    <2>1. id \in Nat /\ SegPos \in Nat \ {0}
      BY Constants
    <2> QED
      BY <2>1, Divides DEF SegOf
  <1>2. CASE ~Live(D, g)
    BY <1>2 DEF on_timeout
  <1>3. CASE Live(D, g)
    <2>1. a \in DOMAIN D.dl.segs /\ u \in Infos /\ g \in Segs /\ Info(D, g) = u
      BY <1>1, <1>3, LiveFacts
    <2>2. E = PutLate(F, t)
      <3>1. E = [D EXCEPT !.dl.segs[a].late = @ \union {id},
                          !.dl.tseg = IF u.nsource = 0 /\ @ = NULL THEN g ELSE @]
        BY <1>3, <2>1 DEF on_timeout
      <3> HIDE DEF E, a, g
      <3>2. D \in [dl : Windows, src : [Sources -> SourceType]] /\ D.dl \in Windows
        BY DEF Fit, Worlds
      <3>3. [D.dl.segs EXCEPT ![a].late = @ \union {id}] = [D.dl.segs EXCEPT ![a] = v]
        BY <2>1
      <3>4. F = [D EXCEPT !.dl = [D.dl EXCEPT !.segs = [D.dl.segs EXCEPT ![a] = v]]]
        BY DEF PutSeg
      <3> HIDE DEF u, v, F
      <3>5. E = [D EXCEPT !.dl = [[D.dl EXCEPT !.segs = [D.dl.segs EXCEPT ![a] = v]]
                                     EXCEPT !.tseg = t]]
        BY <3>1, <3>2, <3>3 DEF Windows
      <3> QED
        BY <3>2, <3>4, <3>5 DEF PutLate
    <2>3. v \in Infos /\ v.seg = u.seg
      <3> HIDE DEF u
      <3>1. u.late \union {id} \in SUBSET Ids
        BY <2>1 DEF Infos
      <3> QED
        BY <2>1, <3>1 DEF Infos
    <2>4. t \in {NULL, FREED} \union Segs
      BY <2>1, WindowFacts
    <2> HIDE DEF E, F, t, v, a
    <2>5. Fit(F) /\ F.src = D.src
      BY <2>1, <2>3, SegPut DEF F
    <2>6. Fit(E) /\ E.src = F.src
      BY <2>2, <2>4, <2>5, LatePut
    <2> QED
      BY <2>5, <2>6 DEF E
  <1> QED
    BY <1>2, <1>3

\* The size of a segment becomes known.
LEMMA UpdateFits ==
  ASSUME NEW D, Fit(D), NEW g \in Segs, order \in Seq(Sources)
  PROVE  Fit(update_segment(D, g))
  <1> DEFINE a == At(D, g)
             u == D.dl.segs[a]
             v == [u EXCEPT !.ready = TRUE, !.end = SegLen[g]]
             F == PutSeg(D, a, v)
  <1>1. CASE ~Live(D, g)
    BY <1>1 DEF update_segment
  <1>2. CASE Live(D, g)
    <2>1. a \in DOMAIN D.dl.segs /\ u \in Infos
      BY <1>2, LiveFacts, Constants
    <2>2. F = [D EXCEPT !.dl.segs[a].ready = TRUE, !.dl.segs[a].end = SegLen[g]]
      <3> HIDE DEF a
      <3>1. D \in [dl : Windows, src : [Sources -> SourceType]] /\ D.dl \in Windows
        BY DEF Fit, Worlds
      <3>2. [D.dl.segs EXCEPT ![a].ready = TRUE, ![a].end = SegLen[g]] = [D.dl.segs EXCEPT ![a] = v]
        BY <2>1
      <3> QED
        BY <3>1, <3>2 DEF PutSeg
    <2>3. update_segment(D, g) = ServeAll(F, g)
      BY <1>2, <2>2 DEF update_segment
    <2>4. v \in Infos /\ v.seg = u.seg
      <3>1. SegLen[g] \in 0 .. SegPos
        BY Constants
      <3> HIDE DEF u
      <3> QED
        BY <2>1, <3>1 DEF Infos
    <2> HIDE DEF F, v, a
    <2>5. Fit(F)
      BY <2>1, <2>4, SegPut DEF F
    <2> QED
      BY <2>3, <2>5, ServedFits
  <1> QED
    BY <1>1, <1>2

\* The requests given up are reported as late one by one, and leave the queue.
LEMMA GivenUpFits ==
  ASSUME NEW D, Fit(D), NEW s \in Sources, NEW k \in 0 .. Len(D.src[s].queue)
  PROVE  Fit(GiveUp(D, s, k))
  <1> DEFINE q == D.src[s].queue
             W == {F \in Worlds : Fit(F) /\ F.src = D.src}
             Ok(f) == f = [n \in 0 .. k |-> IF n = 0 THEN D ELSE on_timeout(f[n - 1], q[n])]
             h == CHOOSE f : Ok(f)
             step == [a \in W \X (1 .. k) |-> on_timeout(a[1], q[a[2]])]
             w == [D.src[s] EXCEPT !.queue = SubSeq(q, k + 1, Len(q))]
             E == GiveUp(D, s, k)
  <1>1. D.src[s] \in SourceType /\ q \in Seq(Ids) /\ k \in Nat /\ k <= Len(q)
    BY WindowFacts DEF SourceType
  <1>2. \A n \in 1 .. k : q[n] \in Ids
    BY <1>1
  <1>3. \A F \in W : \A n \in 1 .. k : on_timeout(F, q[n]) \in W
    <2> TAKE F \in W
    <2> TAKE n \in 1 .. k
    <2>1. Fit(on_timeout(F, q[n])) /\ on_timeout(F, q[n]).src = F.src
      BY <1>2, TimeoutFits
    <2> QED
      BY <2>1 DEF Fit
  <1>4. D \in W
    BY DEF Fit
  <1>5. E = [h[k] EXCEPT !.src[s].queue = SubSeq(@, k + 1, Len(@))]
    BY DEF GiveUp
  <1> HIDE DEF W, q, E
  <1>6. step \in [W \X (1 .. k) -> W]
    BY <1>3
  <1> HIDE DEF step
  <1>7. PICK g \in [0 .. k -> W] : g[0] = D /\ \A i \in 1 .. k : g[i] = step[<<g[i - 1], i>>]
    <2>1. \E g \in [0 .. k -> W] : Steps(g, D, k, step)
      BY <1>1, <1>4, <1>6, Recursion
    <2> QED
      BY <2>1 DEF Steps
  <1>8. Ok(g)
    <2>1. \A n \in 0 .. k : g[n] = IF n = 0 THEN D ELSE on_timeout(g[n - 1], q[n])
      <3> SUFFICES ASSUME NEW n \in 0 .. k, n # 0 PROVE g[n] = on_timeout(g[n - 1], q[n])
        BY <1>7
      <3>1. n \in 1 .. k /\ n - 1 \in 0 .. k
        BY <1>1
      <3>2. <<g[n - 1], n>> \in W \X (1 .. k)
        BY <1>7, <3>1
      <3>3. step[<<g[n - 1], n>>] = on_timeout(g[n - 1], q[n])
        BY <3>2 DEF step
      <3> QED
        BY <1>7, <3>1, <3>3
    <2> QED
      BY <1>7, <2>1
  <1>9. Ok(h)
    <2> HIDE DEF Ok
    <2> QED
      BY <1>8
  <1> HIDE DEF h
  <1>10. /\ h[0] = D
         /\ \A n \in 1 .. k : h[n] = on_timeout(h[n - 1], q[n])
    BY <1>1, <1>9
  <1> HIDE DEF Ok
  <1>11. \A n \in 1 .. k : h[n - 1] \in W => h[n] \in W
    BY <1>3, <1>10
  <1>12. h[k] \in W
    BY <1>1, <1>4, <1>10, <1>11, Reaches
  <1> DEFINE F == h[k]
  <1> HIDE DEF F
  <1>13. Fit(F) /\ F.src = D.src /\ F \in [dl : Windows, src : [Sources -> SourceType]]
    BY <1>12 DEF W, F, Fit, Worlds
  <1>14. E = PutSrc(F, s, w)
    <2>1. E = [F EXCEPT !.src[s].queue = SubSeq(@, k + 1, Len(@))]
      BY <1>5 DEF F
    <2>2. [F.src EXCEPT ![s].queue = SubSeq(@, k + 1, Len(@))] = [F.src EXCEPT ![s] = w]
      <3>1. w = [D.src[s] EXCEPT !.queue = SubSeq(@, k + 1, Len(@))]
        BY <1>1 DEF q, SourceType
      <3> HIDE DEF w
      <3> QED
        BY <1>13, <3>1
    <2> QED
      BY <1>13, <2>1, <2>2 DEF PutSrc
  <1>15. w \in SourceType /\ w.ctx = D.src[s].ctx /\ (s \in Peers => Len(w.queue) <= PeerWindow)
    <2>1. SubSeq(q, k + 1, Len(q)) \in Seq(Ids) /\ Len(SubSeq(q, k + 1, Len(q))) <= Len(q)
      BY <1>1
    <2>2. s \in Peers => Len(q) <= PeerWindow
      BY DEF Fit, q
    <2>3. s \in Peers => Len(SubSeq(q, k + 1, Len(q))) <= PeerWindow
      BY <1>1, <2>1, <2>2, Constants
    <2> DEFINE y == SubSeq(q, k + 1, Len(q))
    <2> HIDE DEF y
    <2>4. w = [D.src[s] EXCEPT !.queue = y] /\ y \in Seq(Ids) /\ (s \in Peers => Len(y) <= PeerWindow)
      BY <2>1, <2>3 DEF y
    <2> HIDE DEF w
    <2> QED
      BY <1>1, <2>4 DEF SourceType
  <1> HIDE DEF w
  <1>16. w.ctx >= 0 => Live(F, w.ctx)
    BY <1>13, <1>15 DEF Fit
  <1>17. Fit(E)
    BY <1>13, <1>14, <1>15, <1>16, SrcPut
  <1> QED
    BY <1>17 DEF E

-----------------------------------------------------------------------------
(* CdnDownloader::prepare_taskwindow *)

\* A window on its way: its segments may not be there yet.
Boxes == [beg : Nat, end : Nat, segs : Seq(Infos), tseg : {NULL, FREED} \union Segs]

\* What is left of the window is what it shares with b .. e - 1.
LEMMA CutFacts ==
  ASSUME NEW D, Fit(D), NEW b \in Nat, NEW e \in Nat, b <= e, D.dl.beg < b => D.dl.end <= e
  PROVE  LET d == Cut(D.dl, b, e)
         IN  /\ d \in Boxes /\ b <= d.beg /\ d.beg <= d.end /\ d.end <= e /\ d.tseg = D.dl.tseg
             /\ DOMAIN d.segs = 1 .. d.end - d.beg
             /\ \A i \in DOMAIN d.segs : d.segs[i] = Info(D, d.beg + i - 1)
             /\ \A g \in Int : d.beg <= g /\ g < d.end <=> Live(D, g) /\ b <= g /\ g < e
  <1> DEFINE o == D.dl
             d == Cut(o, b, e)
  <1>1. /\ o.beg \in Nat /\ o.end \in Nat /\ o.beg <= o.end
        /\ o.segs \in Seq(Infos) /\ DOMAIN o.segs = 1 .. o.end - o.beg /\ Len(o.segs) = o.end - o.beg
        /\ o.tseg \in {NULL, FREED} \union Segs /\ o \in Windows
        /\ o.beg < b => o.end <= e
        /\ \A i \in DOMAIN o.segs : o.segs[i] \in Infos
    BY WindowFacts DEF Fit, Worlds
  <1>2. \A g \in Int : Live(D, g) <=> o.beg <= g /\ g < o.end
    BY LiveFacts
  <1>3. \A g : Info(D, g) = o.segs[g - o.beg + 1]
    BY DEF Info, At
  <1>4. o \in Boxes
    BY <1>1 DEF Windows, Boxes
  <1> HIDE DEF o
  <1>5. CASE o.beg >= e \/ o.end <= b
    <2>1. d = [o EXCEPT !.beg = b, !.end = b, !.segs = <<>>]
      BY <1>5 DEF Cut
    <2> HIDE DEF d
    <2>2. /\ d \in Boxes /\ d.beg = b /\ d.end = b /\ d.tseg = o.tseg /\ d.segs = <<>>
      <3> DEFINE z == <<>>
      <3>1. z \in Seq(Infos) /\ d = [o EXCEPT !.beg = b, !.end = b, !.segs = z]
        BY <2>1
      <3>2. z = <<>>
        OBVIOUS
      <3> HIDE DEF z
      <3>3. d \in Boxes /\ d.beg = b /\ d.end = b /\ d.tseg = o.tseg /\ d.segs = z
        BY <1>4, <3>1 DEF Boxes
      <3> QED
        BY <3>2, <3>3
    <2>3. DOMAIN d.segs = 1 .. d.end - d.beg /\ DOMAIN d.segs = {}
      <3>1. DOMAIN d.segs = {} /\ d.end - d.beg = 0
        BY <2>2
      <3>2. 1 .. 0 = {}
        OBVIOUS
      <3> QED
        BY <3>1, <3>2
    <2>4. \A g \in Int : d.beg <= g /\ g < d.end <=> Live(D, g) /\ b <= g /\ g < e
      BY <1>1, <1>2, <1>5, <2>2
    <2> QED
      BY <2>2, <2>3, <2>4 DEF d, o
  <1>6. CASE ~(o.beg >= e \/ o.end <= b) /\ o.beg < b
    <2> DEFINE q == Slice(o.segs, b - o.beg, o.end - b)
    <2>1. d = [o EXCEPT !.beg = b, !.segs = q]
      BY <1>6 DEF Cut
    <2>2. /\ q \in Seq(Infos) /\ DOMAIN q = 1 .. o.end - b
          /\ \A i \in DOMAIN q : q[i] = Info(D, b + i - 1)
      <3>1. q = [i \in 1 .. o.end - b |-> o.segs[b - o.beg + i]] /\ o.end - b \in Nat
        BY <1>1, <1>6 DEF Slice
      <3> HIDE DEF q
      <3>2. \A i \in 1 .. o.end - b : b - o.beg + i \in DOMAIN o.segs /\ b - o.beg + i = (b + i - 1) - o.beg + 1
        <4> DEFINE x == o.beg
                   z == o.end
                   w == o.segs
        <4>1. x \in Nat /\ z \in Nat /\ x < b /\ b < z /\ DOMAIN w = 1 .. z - x
          BY <1>1, <1>6
        <4> HIDE DEF o, x, z, w
        <4>2. \A i \in 1 .. z - b : b - x + i \in DOMAIN w /\ b - x + i = (b + i - 1) - x + 1
          BY <4>1
        <4> QED
          BY <4>2 DEF x, z, w
      <3>3. \A i \in 1 .. o.end - b : q[i] \in Infos /\ q[i] = Info(D, b + i - 1)
        BY <1>1, <1>3, <3>1, <3>2
      <3> DEFINE n == o.end - b
      <3> HIDE DEF n
      <3>4. q = [i \in 1 .. n |-> q[i]] /\ n \in Nat /\ \A i \in 1 .. n : q[i] \in Infos
        BY <3>1, <3>3 DEF n
      <3>5. q \in Seq(Infos)
        BY <3>4
      <3>6. DOMAIN q = 1 .. n
        BY <3>4
      <3> QED
        BY <3>3, <3>5, <3>6 DEF n
    <2> HIDE DEF d, q
    <2>3. /\ d \in Boxes /\ d.beg = b /\ d.end = o.end /\ d.tseg = o.tseg /\ d.segs = q
      BY <1>4, <2>1, <2>2 DEF Boxes
    <2>4. \A g \in Int : d.beg <= g /\ g < d.end <=> Live(D, g) /\ b <= g /\ g < e
      BY <1>1, <1>2, <1>6, <2>3
    <2>5. b <= d.beg /\ d.beg <= d.end /\ d.end <= e
      BY <1>1, <1>6, <2>3
    <2> QED
      BY <2>2, <2>3, <2>4, <2>5 DEF d, o
  <1>7. CASE ~(o.beg >= e \/ o.end <= b) /\ ~(o.beg < b) /\ e < o.end
    <2> DEFINE q == Slice(o.segs, 0, e - o.beg)
    <2>1. d = [o EXCEPT !.end = e, !.segs = q]
      BY <1>7 DEF Cut
    <2>2. /\ q \in Seq(Infos) /\ DOMAIN q = 1 .. e - o.beg
          /\ \A i \in DOMAIN q : q[i] = Info(D, o.beg + i - 1)
      <3>1. q = [i \in 1 .. e - o.beg |-> o.segs[0 + i]] /\ e - o.beg \in Nat
        BY <1>1, <1>7 DEF Slice
      <3> HIDE DEF q
      <3>2. \A i \in 1 .. e - o.beg : 0 + i \in DOMAIN o.segs /\ 0 + i = (o.beg + i - 1) - o.beg + 1
        BY <1>1, <1>7
      <3>3. \A i \in 1 .. e - o.beg : q[i] \in Infos /\ q[i] = Info(D, o.beg + i - 1)
        BY <1>1, <1>3, <3>1, <3>2
      <3> DEFINE n == e - o.beg
      <3> HIDE DEF n
      <3>4. q = [i \in 1 .. n |-> q[i]] /\ n \in Nat /\ \A i \in 1 .. n : q[i] \in Infos
        BY <3>1, <3>3 DEF n
      <3>5. q \in Seq(Infos)
        BY <3>4
      <3>6. DOMAIN q = 1 .. n
        BY <3>4
      <3> QED
        BY <3>3, <3>5, <3>6 DEF n
    <2> HIDE DEF d, q
    <2>3. /\ d \in Boxes /\ d.beg = o.beg /\ d.end = e /\ d.tseg = o.tseg /\ d.segs = q
      BY <1>4, <2>1, <2>2 DEF Boxes
    <2>4. \A g \in Int : d.beg <= g /\ g < d.end <=> Live(D, g) /\ b <= g /\ g < e
      BY <1>1, <1>2, <1>7, <2>3
    <2>5. b <= d.beg /\ d.beg <= d.end /\ d.end <= e
      BY <1>1, <1>7, <2>3
    <2> QED
      BY <2>2, <2>3, <2>4, <2>5 DEF d, o
  <1>8. CASE ~(o.beg >= e \/ o.end <= b) /\ ~(o.beg < b) /\ ~(e < o.end)
    <2>1. d = o
      BY <1>8 DEF Cut
    <2>2. \A i \in DOMAIN o.segs : (o.beg + i - 1) - o.beg + 1 = i
      BY <1>1
    <2>3. \A i \in DOMAIN o.segs : o.segs[i] = Info(D, o.beg + i - 1)
      BY <1>3, <2>2
    <2>4. \A g \in Int : o.beg <= g /\ g < o.end <=> Live(D, g) /\ b <= g /\ g < e
      BY <1>1, <1>2, <1>8
    <2>5. b <= o.beg /\ o.beg <= o.end /\ o.end <= e
      BY <1>1, <1>8
    <2> QED
      BY <1>1, <1>4, <2>1, <2>3, <2>4, <2>5 DEF d, o
  <1> QED
    BY <1>5, <1>6, <1>7, <1>8

\* The window is widened to b .. e - 1; what is new is NULL.
LEMMA WidenFacts ==
  ASSUME NEW d \in Boxes, NEW b \in Nat, NEW e \in Nat, b <= d.beg, d.beg <= d.end, d.end <= e,
         DOMAIN d.segs = 1 .. d.end - d.beg
  PROVE  Widen(d, b, e) =
           [beg |-> b, end |-> e, tseg |-> d.tseg,
            segs |-> [i \in 1 .. e - b |-> IF d.beg <= b + i - 1 /\ b + i - 1 < d.end
                                           THEN d.segs[b + i - d.beg] ELSE None]]
  <1> DEFINE front == IF b < d.beg THEN d.beg - b ELSE 0
             back  == IF d.end < e THEN e - d.end ELSE 0
             q == [i \in 1 .. front + Len(d.segs) + back |->
                     IF i - front \in DOMAIN d.segs THEN d.segs[i - front] ELSE None]
             r == [i \in 1 .. e - b |-> IF d.beg <= b + i - 1 /\ b + i - 1 < d.end
                                        THEN d.segs[b + i - d.beg] ELSE None]
  <1>1. d.beg \in Nat /\ d.end \in Nat /\ d.segs \in Seq(Infos) /\ Len(d.segs) = d.end - d.beg
    <2>1. d.beg \in Nat /\ d.end \in Nat /\ d.segs \in Seq(Infos)
      BY DEF Boxes
    <2>2. Len(d.segs) \in Nat /\ DOMAIN d.segs = 1 .. Len(d.segs)
      BY <2>1
    <2> QED
      BY <2>1, <2>2
  <1>2. front = d.beg - b /\ back = e - d.end
    BY <1>1
  <1>3. Widen(d, b, e) = [d EXCEPT !.beg = d.beg - front, !.end = d.end + back, !.segs = q]
    BY DEF Widen
  <1>4. q = r
    <2> HIDE DEF front, back
    <2>1. front + Len(d.segs) + back = e - b
      BY <1>1, <1>2
    <2>2. \A i \in 1 .. e - b : i - front = b + i - d.beg
      BY <1>1, <1>2
    <2>3. \A i \in 1 .. e - b : b + i - d.beg \in DOMAIN d.segs <=> d.beg <= b + i - 1 /\ b + i - 1 < d.end
      BY <1>1
    <2>4. q = [i \in 1 .. e - b |-> IF i - front \in DOMAIN d.segs THEN d.segs[i - front] ELSE None]
      BY <2>1
    <2> HIDE DEF q
    <2> QED
      BY <2>2, <2>3, <2>4
  <1>5. d.beg - front = b /\ d.end + back = e
    BY <1>1, <1>2
  <1> HIDE DEF q, r, front, back
  <1>6. Widen(d, b, e) = [d EXCEPT !.beg = b, !.end = e, !.segs = r]
    BY <1>3, <1>4, <1>5
  <1> QED
    BY <1>6 DEF r, Boxes

\* The first missing piece.
LEMMA SeekFacts ==
  ASSUME NEW s \in Segs, NEW o, NEW known, NEW m
  PROVE  /\ piece_count(s, known) \in 1 .. SegPos
         /\ seek(s, o, known, m) \in 0 .. SegPos
         /\ LET hole == {x \in Missing(s, known, m) : x >= o}
            IN  IF hole = {} THEN seek(s, o, known, m) = 0
                ELSE seek(s, o, known, m) \in hole /\ \A x \in hole : seek(s, o, known, m) <= x
  <1> DEFINE hole == {x \in Missing(s, known, m) : x >= o}
  <1>1. piece_count(s, known) \in 1 .. SegPos
    BY Constants DEF piece_count
  <1>2. hole \subseteq 0 .. piece_count(s, known) - 1
    BY DEF Missing
  <1>3. seek(s, o, known, m) = IF hole = {} THEN 0 ELSE Min(hole)
    BY DEF seek
  <1>4. hole \subseteq Nat /\ hole \subseteq 0 .. SegPos
    BY <1>1, <1>2, Constants
  <1> HIDE DEF hole
  <1>5. hole # {} => Min(hole) \in hole /\ \A x \in hole : Min(hole) <= x
    BY <1>4, MinFacts
  <1>6. 0 \in 0 .. SegPos
    BY Constants
  <1>7. seek(s, o, known, m) \in 0 .. SegPos
    BY <1>3, <1>4, <1>5, <1>6
  <1>8. IF hole = {} THEN seek(s, o, known, m) = 0
        ELSE seek(s, o, known, m) \in hole /\ \A x \in hole : seek(s, o, known, m) <= x
    BY <1>3, <1>5
  <1> QED
    BY <1>1, <1>7, <1>8 DEF hole

\* A new SegmentInfo.
LEMMA NewInfoFacts ==
  ASSUME NEW S, NEW s \in Segs, NEW o, NEW known, NEW m, order \in Seq(Sources)
  PROVE  NewInfo(S, s, o, known, m) \in Infos /\ NewInfo(S, s, o, known, m).seg = s
  <1> DEFINE n == piece_count(s, known)
             p == IF s \in saved \/ full(s, known, m) THEN n ELSE seek(s, o, known, m)
             P == {t \in Peers : t \in ToSet(order) /\ has_segment(S, t, s)}
             i == NewInfo(S, s, o, known, m)
  <1>1. n \in 0 .. SegPos /\ p \in 0 .. SegPos
    <2>1. n \in 1 .. SegPos /\ seek(s, o, known, m) \in 0 .. SegPos
      BY SeekFacts
    <2> HIDE DEF n
    <2>2. n \in 0 .. SegPos
      BY <2>1
    <2> QED
      BY <2>1, <2>2
  <1>2. Cardinality(P) \in Nat
    <2>1. order \in Surjection(1 .. Len(order), ToSet(order))
      BY DEF Surjection, ToSet
    <2>2. IsFiniteSet(1 .. Len(order))
      BY FS_Interval
    <2>3. IsFiniteSet(ToSet(order))
      BY <2>1, <2>2, FS_Surjection
    <2>4. P \subseteq ToSet(order)
      OBVIOUS
    <2> HIDE DEF P
    <2> QED
      BY <2>3, <2>4, FS_Subset, FS_CardinalityType
  <1>3. i = [seg |-> s, ready |-> s \in known, end |-> n, late |-> {}, nsource |-> 0,
             disk |-> s \in saved \/ (DiskCache /\ o # 0), pos |-> p, np2p |-> Cardinality(P)]
    BY DEF NewInfo
  <1> DEFINE c == Cardinality(P)
             k == s \in saved \/ (DiskCache /\ o # 0)
  <1>6. k \in BOOLEAN
    OBVIOUS
  <1> HIDE DEF n, p, c, k, i
  <1>4. i = [seg |-> s, ready |-> s \in known, end |-> n, late |-> {}, nsource |-> 0, disk |-> k, pos |-> p, np2p |-> c]
    BY <1>3 DEF c, k
  <1>5. c \in Nat
    BY <1>2 DEF c
  <1> QED
    BY <1>1, <1>4, <1>5, <1>6 DEF Infos, i

\* The segment and the place in it of a position.
LEMMA Placed ==
  ASSUME NEW p \in Ids
  PROVE  /\ SegOf(p) \in Segs /\ OffOf(p) \in 0 .. SegPos - 1 /\ p = SegOf(p) * SegPos + OffOf(p)
         /\ SegOf(p) * SegPos \in Nat
  <1> DEFINE c == SegOf(p)
             o == OffOf(p)
  <1>1. p \in Nat /\ SegPos \in Nat \ {0} /\ SegCount \in Nat /\ p < SegCount * SegPos
    <2>1. p \in Nat /\ SegPos \in Nat \ {0} /\ SegCount \in Nat /\ Ids = 0 .. End - 1
      BY Constants
    <2>2. SegCount * SegPos \in Nat /\ End = SegCount * SegPos
      BY <2>1 DEF End
    <2> QED
      BY <2>1, <2>2
  <1>2. c \in Nat /\ o \in 0 .. SegPos - 1 /\ SegPos * c \in Nat /\ p = SegPos * c + o
    BY <1>1, Divides DEF SegOf, OffOf
  <1> HIDE DEF c, o
  <1>3. SegPos * c = c * SegPos
    BY <1>1, <1>2
  <1>4. c < SegCount
    <2> SUFFICES ASSUME ~(c < SegCount) PROVE FALSE
      OBVIOUS
    <2>1. c = SegCount \/ SegCount < c
      BY <1>1, <1>2
    <2>2. c * SegPos >= SegCount * SegPos
      BY <1>1, <1>2, <2>1, Products
    <2> DEFINE x == c * SegPos
               y == SegCount * SegPos
    <2>3. x \in Nat /\ y \in Nat /\ x >= y /\ p = x + o /\ p < y
      BY <1>1, <1>2, <1>3, <2>2
    <2> HIDE DEF x, y
    <2> QED
      BY <1>1, <1>2, <2>3
  <1> QED
    BY <1>2, <1>3, <1>4, Constants DEF c, o

\* The segments of a row of SegmentInfo objects.
LEMMA SegSet ==
  ASSUME NEW q, NEW b \in Nat, NEW e \in Nat, b <= e, DOMAIN q = 1 .. e - b,
         \A i \in DOMAIN q : q[i].seg = b + i - 1
  PROVE  {i.seg : i \in ToSet(q)} = b .. e - 1
  <1>1. ASSUME NEW g \in b .. e - 1 PROVE g \in {i.seg : i \in ToSet(q)}
    <2>1. g - b + 1 \in DOMAIN q /\ b + (g - b + 1) - 1 = g
      OBVIOUS
    <2> QED
      BY <2>1 DEF ToSet
  <1>2. ASSUME NEW i \in ToSet(q) PROVE i.seg \in b .. e - 1
    <2>1. PICK k \in DOMAIN q : i = q[k]
      BY DEF ToSet
    <2>2. i.seg = b + k - 1 /\ k \in 1 .. e - b
      BY <2>1
    <2> QED
      BY <2>2
  <1> QED
    BY <1>1, <1>2

\* What becomes of a source whose segment leaves the window.
Dropped(u) == [u EXCEPT !.queue = <<>>, !.zero = u.st \in {"open", "read"}, !.ctx = FULL]

\* Segment g of the window of F, which goes on from what it was in D.
Widened(F, D, g, o, kept) ==
  Info(F, g) = IF Live(D, g) THEN [Info(D, g) EXCEPT !.pos = Max({Info(D, g).pos, o})]
               ELSE NewInfo(F.src, g, o, meta, kept)

\* The end of the window.
Top(b, count) == IF b + count <= SegCount THEN b + count ELSE SegCount

\* The window b .. e - 1, of which the segments lo .. hi - 1 are there.
Box(b, e, t, lo, hi, old) ==
  [beg |-> b, end |-> e, tseg |-> t,
   segs |-> [i \in 1 .. e - b |-> IF lo <= b + i - 1 /\ b + i - 1 < hi THEN old[b + i - lo] ELSE None]]

\* It has been filled: all its segments are there.
Filled(d, S, D, p, count, t, m) ==
  LET b == SegOf(p)
      e == Top(b, count)
  IN  /\ d.segs \in Seq(Infos) /\ DOMAIN d.segs = 1 .. e - b
      /\ d = [beg |-> b, end |-> e, tseg |-> t, segs |-> d.segs]
      /\ \A i \in 1 .. e - b :
           LET o == IF i = 1 THEN OffOf(p) ELSE 0
               g == b + i - 1
           IN  /\ d.segs[i].seg = g
               /\ d.segs[i] = IF Live(D, g) THEN [Info(D, g) EXCEPT !.pos = Max({Info(D, g).pos, o})]
                              ELSE NewInfo(S, g, o, meta, m)

\* A wide box is filled.
LEMMA FillFacts ==
  ASSUME NEW S, NEW w, NEW D, Fit(D), NEW p \in Ids, NEW count \in Nat, NEW m, order \in Seq(Sources),
         NEW t, NEW lo \in Nat, NEW hi \in Nat,
         \A g \in Int : lo <= g /\ g < hi <=> Live(D, g) /\ SegOf(p) <= g /\ g < SegOf(p) + count,
         NEW old, \A i \in DOMAIN old : old[i] = Info(D, lo + i - 1), DOMAIN old = 1 .. hi - lo,
         w = Box(SegOf(p), SegOf(p) + count, t, lo, hi, old)
  PROVE  Filled(Fill(S, w, p, count, meta, m), S, D, p, count, t, m)
  <1> DEFINE b == SegOf(p)
             e == Top(b, count)
             n == Cardinality({s \in b .. b + count - 1 : s < SegCount})
             o(i) == IF i = 1 THEN OffOf(p) ELSE 0
             X(i) == IF w.segs[i].seg = NULL THEN NewInfo(S, b + i - 1, o(i), meta, m)
                     ELSE [w.segs[i] EXCEPT !.pos = Max({@, o(i)})]
             q == [i \in 1 .. n |-> X(i)]
             d == Fill(S, w, p, count, meta, m)
  <1>1. b \in Nat /\ b < SegCount /\ SegCount \in Nat /\ OffOf(p) \in 0 .. SegPos - 1
    BY Placed, Constants
  <1>2. d = [w EXCEPT !.end = IF n < count THEN b + n ELSE @, !.segs = q]
    BY DEF Fill
  <1> HIDE DEF b, d
  <1>3. e \in Nat /\ b <= e /\ e <= SegCount /\ e <= b + count /\ (e = b + count \/ e = SegCount)
    BY <1>1 DEF Top
  <1>4. n = e - b
    <2>1. {s \in b .. b + count - 1 : s < SegCount} = b .. e - 1
      BY <1>1 DEF Top
    <2> DEFINE f == e - 1
    <2> HIDE DEF e
    <2>2. f \in Int /\ b \in Int
      BY <1>1, <1>3
    <2> HIDE DEF f
    <2>3. Cardinality(b .. f) = IF b > f THEN 0 ELSE f - b + 1
      BY <2>2, FS_Interval
    <2>4. n = Cardinality(b .. f)
      BY <2>1 DEF e, f
    <2> HIDE DEF n
    <2> QED
      BY <1>1, <1>3, <2>3, <2>4 DEF f
  <1> HIDE DEF n
  <1>5. (IF n < count THEN b + n ELSE b + count) = e
    <2> HIDE DEF e
    <2> QED
      BY <1>1, <1>3, <1>4
  <1>6. w = [beg |-> b, end |-> b + count, tseg |-> t,
             segs |-> [i \in 1 .. (b + count) - b |->
                          IF lo <= b + i - 1 /\ b + i - 1 < hi THEN old[b + i - lo] ELSE None]]
    BY DEF b, Box
  <1>7. ASSUME NEW i \in 1 .. e - b
        PROVE  /\ X(i) \in Infos /\ X(i).seg = b + i - 1
               /\ X(i) = IF Live(D, b + i - 1)
                         THEN [Info(D, b + i - 1) EXCEPT !.pos = Max({Info(D, b + i - 1).pos, o(i)})]
                         ELSE NewInfo(S, b + i - 1, o(i), meta, m)
    <2> DEFINE g == b + i - 1
               u == Info(D, g)
    <2>1. g \in Segs /\ g \in Int /\ b <= g /\ g < b + count /\ o(i) \in 0 .. SegPos /\ i \in 1 .. (b + count) - b
      <3> HIDE DEF e
      <3>1. i \in Nat /\ i >= 1 /\ i <= e - b
        BY <1>1, <1>3
      <3> QED
        BY <1>1, <1>3, <3>1, Constants
    <2> HIDE DEF e
    <2>2. lo <= g /\ g < hi <=> Live(D, g)
      BY <2>1 DEF b
    <2>3. w.segs[i] = IF lo <= g /\ g < hi THEN old[b + i - lo] ELSE None
      <3>1. w.segs = [x \in 1 .. (b + count) - b |->
                        IF lo <= b + x - 1 /\ b + x - 1 < hi THEN old[b + x - lo] ELSE None]
        <4> DEFINE row == [x \in 1 .. (b + count) - b |->
                            IF lo <= b + x - 1 /\ b + x - 1 < hi THEN old[b + x - lo] ELSE None]
                   z == b + count
        <4>1. w = [beg |-> b, end |-> z, tseg |-> t, segs |-> row]
          BY <1>6
        <4> HIDE DEF row, z
        <4>2. w.segs = row
          BY <4>1
        <4> QED
          BY <4>2 DEF row
      <3> QED
        BY <2>1, <3>1
    <2>4. CASE Live(D, g)
      <3>1. b + i - lo \in DOMAIN old /\ lo + (b + i - lo) - 1 = g
        BY <1>1, <2>1, <2>2, <2>4
      <3>2. w.segs[i] = u
        BY <2>2, <2>3, <2>4, <3>1
      <3>3. u \in Infos /\ u.seg = g /\ u.seg # NULL
        BY <2>1, <2>4, LiveFacts, Constants
      <3>4. Max({u.pos, o(i)}) \in 0 .. SegPos
        <4> DEFINE y == o(i)
        <4>1. u.pos \in 0 .. SegPos /\ y \in 0 .. SegPos
          BY <2>1, <3>3 DEF Infos
        <4> DEFINE z == u.pos
        <4> HIDE DEF y, z
        <4>2. y \in Int /\ z \in Int
          BY <4>1, Constants DEF z
        <4>3. Max({z, y}) = IF z <= y THEN y ELSE z
          BY <4>2, MinMax
        <4> QED
          BY <4>1, <4>3 DEF y, z
      <3>5. X(i) = [w.segs[i] EXCEPT !.pos = Max({w.segs[i].pos, o(i)})]
        <4> HIDE DEF u, g, o
        <4>1. X(i) = [w.segs[i] EXCEPT !.pos = Max({@, o(i)})]
          BY <3>2, <3>3
        <4> HIDE DEF X
        <4>2. w.segs[i] \in Infos
          BY <3>2, <3>3
        <4> QED
          BY <4>1, <4>2 DEF Infos
      <3> DEFINE v == [u EXCEPT !.pos = Max({u.pos, o(i)})]
                 y == Max({u.pos, o(i)})
      <3>6. X(i) = v
        <4> HIDE DEF X, o
        <4> QED
          BY <3>2, <3>5
      <3>7. v \in Infos /\ v.seg = u.seg
        <4>1. v = [u EXCEPT !.pos = y] /\ y \in 0 .. SegPos
          BY <3>4
        <4> HIDE DEF v, y, u
        <4> QED
          BY <3>3, <4>1 DEF Infos
      <3> HIDE DEF X, u, o
      <3> QED
        BY <2>4, <3>3, <3>6, <3>7 DEF u
    <2>5. CASE ~Live(D, g)
      <3>1. w.segs[i] = None /\ None.seg = NULL
        BY <2>2, <2>3, <2>5 DEF None
      <3>2. X(i) = NewInfo(S, g, o(i), meta, m)
        BY <3>1
      <3> HIDE DEF X, o
      <3>3. NewInfo(S, g, o(i), meta, m) \in Infos /\ NewInfo(S, g, o(i), meta, m).seg = g
        BY <2>1, NewInfoFacts
      <3> QED
        BY <2>5, <3>2, <3>3
    <2> QED
      BY <2>4, <2>5
  <1> HIDE DEF X
  <1>8. q \in Seq(Infos) /\ DOMAIN q = 1 .. e - b
    <2>a. \A i \in 1 .. e - b : X(i) \in Infos
      BY <1>7
    <2> HIDE DEF e
    <2>b. n \in Nat
      BY <1>1, <1>3, <1>4
    <2>1. n \in Nat /\ \A i \in 1 .. n : X(i) \in Infos
      BY <1>4, <2>a, <2>b
    <2>2. DOMAIN q = 1 .. n
      OBVIOUS
    <2>3. q = [i \in 1 .. n |-> q[i]] /\ \A i \in 1 .. n : q[i] \in Infos
      BY <2>1
    <2> HIDE DEF q
    <2> QED
      <3>1. q \in Seq(Infos)
        BY <2>b, <2>3
      <3> QED
        BY <1>4, <2>2, <3>1
  <1>9. \A i \in 1 .. e - b : q[i] = X(i)
    BY <1>4
  <1> HIDE DEF q, e
  <1>10. d = [beg |-> b, end |-> e, tseg |-> t, segs |-> q]
    <2> DEFINE r == [i \in 1 .. (b + count) - b |->
                      IF lo <= b + i - 1 /\ b + i - 1 < hi THEN old[b + i - lo] ELSE None]
               x == b + count
    <2> HIDE DEF r, x
    <2>1. w = [beg |-> b, end |-> x, tseg |-> t, segs |-> r]
      BY <1>6 DEF r, x
    <2> DEFINE Shape == [beg : {b}, end : {x}, tseg : {t}, segs : {r}]
    <2>2. w \in Shape /\ w.end = x /\ w.beg = b /\ w.tseg = t
      BY <2>1
    <2>3. (IF n < count THEN b + n ELSE w.end) = e
      BY <1>5, <2>2 DEF x
    <2>4. [w EXCEPT !.end = IF n < count THEN b + n ELSE @, !.segs = q]
            = [w EXCEPT !.end = IF n < count THEN b + n ELSE w.end, !.segs = q]
      BY <2>2
    <2>5. d = [w EXCEPT !.end = e, !.segs = q]
      BY <1>2, <2>3, <2>4
    <2> QED
      BY <2>2, <2>5
  <1>11. d.segs = q
    BY <1>10
  <1>12. \A i \in 1 .. e - b :
            /\ d.segs[i].seg = b + i - 1
            /\ d.segs[i] = IF Live(D, b + i - 1)
                           THEN [Info(D, b + i - 1) EXCEPT !.pos = Max({Info(D, b + i - 1).pos, o(i)})]
                           ELSE NewInfo(S, b + i - 1, o(i), meta, m)
    BY <1>7, <1>9, <1>11
  <1> QED
    BY <1>8, <1>10, <1>11, <1>12 DEF b, d, e, Filled

\* The window that starts with the segment of p.
Prepared(F, D, p, count, kept) ==
  LET b == SegOf(p)
      e == Top(b, count)
  IN  /\ F.dl.beg = b /\ F.dl.end = e
      /\ D.dl.tseg = NULL => F.dl.tseg = NULL
      /\ \A g \in b .. e - 1 : Widened(F, D, g, IF g = b THEN OffOf(p) ELSE 0, kept)
      /\ \A s \in Sources :
           F.src[s] = IF Live(D, D.src[s].ctx) /\ ~(b <= D.src[s].ctx /\ D.src[s].ctx < e)
                      THEN Dropped(D.src[s]) ELSE D.src[s]

\* prepare_taskwindow: the window goes from the segment of p on, what it shares with the old
\* one stays, the sources of the segments that are gone are cancelled, and those without a
\* segment are then served.
LEMMA PrepareFacts ==
  ASSUME NEW D, Fit(D), NEW p \in Ids, NEW count \in Nat, count = Window \/ (count = 0 /\ SegOf(p) = 0),
         NEW m, NEW from, NEW to, order \in Seq(Sources)
  PROVE  LET r == prepare_taskwindow(D, p, count, m, from, to)
         IN  /\ r.has = Kept(m, D.dl.beg .. D.dl.end - 1,
                             [beg |-> SegOf(p), end |-> SegOf(p) + count], from, to)
             /\ \E F : Fit(F) /\ r.d = ServeAll(F, NULL) /\ Prepared(F, D, p, count, r.has)
  <1> DEFINE r == prepare_taskwindow(D, p, count, m, from, to)
             b == SegOf(p)
             z == b + count
             e == Top(b, count)
             cut == Cut(D.dl, b, z)
             gone == {i.seg : i \in ToSet(D.dl.segs)} \ {i.seg : i \in ToSet(cut.segs)}
             left == [s \in Sources |-> IF D.src[s].ctx \in gone THEN [cancel(D.src, s)[s] EXCEPT !.ctx = FULL]
                                        ELSE D.src[s]]
             t == IF D.dl.tseg \in gone THEN FREED ELSE D.dl.tseg
             box == [cut EXCEPT !.tseg = t]
             wide == Widen(box, b, z)
             kept == Kept(m, D.dl.beg .. D.dl.end - 1, wide, from, to)
             fill == Fill(left, wide, p, count, meta, kept)
             F == [dl |-> fill, src |-> left]
  <1>1. b \in Nat /\ b \in Segs /\ b < SegCount /\ SegCount \in Nat /\ z \in Nat /\ b <= z /\ z - b = count
    <2>1. b \in Segs
      BY Placed
    <2> HIDE DEF b
    <2> QED
      BY <2>1, Constants
  <1>2. /\ D.dl.beg \in Nat /\ D.dl.end \in Nat /\ D.dl.beg <= D.dl.end /\ D.dl.end <= SegCount
        /\ D.dl.segs \in Seq(Infos) /\ DOMAIN D.dl.segs = 1 .. D.dl.end - D.dl.beg
        /\ D.dl.tseg \in {NULL, FREED} \union Segs
        /\ D.src \in [Sources -> SourceType] /\ \A s \in Sources : D.src[s] \in SourceType
    BY WindowFacts
  <1>3. D.dl.beg < b => D.dl.end <= z
    <2>1. D.dl.end - D.dl.beg <= Window
      BY DEF Fit
    <2>2. count = Window \/ (count = 0 /\ b = 0)
      OBVIOUS
    <2> DEFINE x == D.dl.beg
               y == D.dl.end
    <2>3. x \in Nat /\ y \in Nat /\ y - x <= Window /\ Window \in Nat /\ b \in Nat /\ z = b + count
      BY <1>1, <1>2, <2>1, Constants
    <2> HIDE DEF b, z, x, y
    <2>4. x < b => y <= z
      BY <2>2, <2>3
    <2> QED
      BY <2>4 DEF x, y
  <1>4. r = [d |-> ServeAll(F, NULL), has |-> kept]
    <2>1. [cut EXCEPT !.tseg = IF @ \in gone THEN FREED ELSE @] = box
      <3>1. cut \in Boxes /\ cut.tseg = D.dl.tseg
        BY <1>1, <1>3, CutFacts
      <3> HIDE DEF cut, gone
      <3> QED
        BY <3>1 DEF Boxes
    <2> QED
      BY <2>1 DEF prepare_taskwindow
  <1> HIDE DEF b, z, r
  <1>5. /\ cut \in Boxes /\ b <= cut.beg /\ cut.beg <= cut.end /\ cut.end <= z /\ cut.tseg = D.dl.tseg
        /\ DOMAIN cut.segs = 1 .. cut.end - cut.beg
        /\ \A i \in DOMAIN cut.segs : cut.segs[i] = Info(D, cut.beg + i - 1)
        /\ \A g \in Int : cut.beg <= g /\ g < cut.end <=> Live(D, g) /\ b <= g /\ g < z
    BY <1>1, <1>3, CutFacts
  <1> HIDE DEF cut
  <1>6. cut.beg \in Nat /\ cut.end \in Nat
    BY <1>5 DEF Boxes
  <1>7. \A g \in Int : g \in gone <=> Live(D, g) /\ ~(b <= g /\ g < z)
    <2>1. {i.seg : i \in ToSet(D.dl.segs)} = D.dl.beg .. D.dl.end - 1
      <3>1. \A i \in DOMAIN D.dl.segs : D.dl.segs[i].seg = D.dl.beg + i - 1
        BY DEF Fit
      <3>2. D.dl.beg \in Nat /\ D.dl.end \in Nat /\ D.dl.beg <= D.dl.end /\ DOMAIN D.dl.segs = 1 .. D.dl.end - D.dl.beg
        BY <1>2
      <3> DEFINE w == D.dl.segs
                 x == D.dl.beg
                 y == D.dl.end
      <3>3. /\ x \in Nat /\ y \in Nat /\ x <= y /\ DOMAIN w = 1 .. y - x
            /\ \A i \in DOMAIN w : w[i].seg = x + i - 1
        BY <3>1, <3>2
      <3> HIDE DEF w, x, y
      <3>4. {i.seg : i \in ToSet(w)} = x .. y - 1
        BY <3>3, SegSet
      <3> QED
        BY <3>4 DEF w, x, y
    <2>2. {i.seg : i \in ToSet(cut.segs)} = cut.beg .. cut.end - 1
      <3>1. \A i \in DOMAIN cut.segs : cut.segs[i].seg = cut.beg + i - 1
        <4> TAKE i \in DOMAIN cut.segs
        <4> DEFINE g == cut.beg + i - 1
        <4>1. g \in Int /\ cut.beg <= g /\ g < cut.end
          BY <1>5, <1>6
        <4>2. cut.segs[i] = Info(D, g)
          BY <1>5
        <4> HIDE DEF g
        <4>3. Info(D, g).seg = g
          BY <1>5, <4>1, LiveFacts
        <4> QED
          BY <4>2, <4>3 DEF g
      <3> DEFINE x == cut.segs
                 lo == cut.beg
                 hi == cut.end
      <3>2. lo \in Nat /\ hi \in Nat /\ lo <= hi /\ DOMAIN x = 1 .. hi - lo /\ \A i \in DOMAIN x : x[i].seg = lo + i - 1
        BY <1>5, <1>6, <3>1
      <3> HIDE DEF x, lo, hi
      <3>3. {i.seg : i \in ToSet(x)} = lo .. hi - 1
        BY <3>2, SegSet
      <3> QED
        BY <3>3 DEF x, lo, hi
    <2> TAKE g \in Int
    <2>3. Live(D, g) <=> D.dl.beg <= g /\ g < D.dl.end
      BY LiveFacts
    <2>4. g \in gone <=> g \in D.dl.beg .. D.dl.end - 1 /\ g \notin cut.beg .. cut.end - 1
      BY <2>1, <2>2
    <2> HIDE DEF gone
    <2> QED
      BY <1>2, <1>5, <1>6, <2>3, <2>4
  <1> HIDE DEF gone
  <1>8. box \in Boxes /\ box.beg = cut.beg /\ box.end = cut.end /\ box.segs = cut.segs /\ box.tseg = t
    <2>1. t \in {NULL, FREED} \union Segs
      BY <1>2
    <2> HIDE DEF t
    <2> QED
      BY <1>5, <2>1 DEF Boxes
  <1> HIDE DEF box, t
  <1>9. wide = [beg |-> b, end |-> z, tseg |-> t,
                segs |-> [i \in 1 .. z - b |-> IF cut.beg <= b + i - 1 /\ b + i - 1 < cut.end
                                               THEN cut.segs[b + i - cut.beg] ELSE None]]
    BY <1>1, <1>5, <1>8, WidenFacts
  <1> HIDE DEF wide
  <1>10. /\ fill.segs \in Seq(Infos) /\ DOMAIN fill.segs = 1 .. e - b
         /\ fill = [beg |-> b, end |-> e, tseg |-> t, segs |-> fill.segs]
         /\ \A i \in 1 .. e - b :
              LET o == IF i = 1 THEN OffOf(p) ELSE 0
                  g == b + i - 1
              IN  /\ fill.segs[i].seg = g
                  /\ fill.segs[i] = IF Live(D, g) THEN [Info(D, g) EXCEPT !.pos = Max({Info(D, g).pos, o})]
                                    ELSE NewInfo(left, g, o, meta, kept)
    <2> DEFINE lo == cut.beg
               hi == cut.end
               old == cut.segs
    <2>1. lo \in Nat /\ hi \in Nat /\ DOMAIN old = 1 .. hi - lo
      BY <1>5, <1>6
    <2>2. \A g \in Int : lo <= g /\ g < hi <=> Live(D, g) /\ SegOf(p) <= g /\ g < SegOf(p) + count
      BY <1>5 DEF b, z
    <2>3. \A i \in DOMAIN old : old[i] = Info(D, lo + i - 1)
      BY <1>5
    <2>4. wide = Box(SegOf(p), SegOf(p) + count, t, lo, hi, old)
      BY <1>9 DEF b, z, Box
    <2> HIDE DEF lo, hi, old, left, kept, fill
    <2>5. Filled(Fill(left, wide, p, count, meta, kept), left, D, p, count, t, kept)
      BY <2>1, <2>2, <2>3, <2>4, FillFacts
    <2> QED
      BY <2>5 DEF b, e, fill, Filled
  <1> HIDE DEF fill, kept
  <1>11. e \in Nat /\ b <= e /\ e <= SegCount /\ e <= z /\ (e = z \/ e = SegCount) /\ e - b <= Window
    BY <1>1, Constants DEF Top, z
  <1> HIDE DEF e
  <1>12. \A s \in Sources :
           left[s] = IF Live(D, D.src[s].ctx) /\ ~(b <= D.src[s].ctx /\ D.src[s].ctx < e)
                     THEN Dropped(D.src[s]) ELSE D.src[s]
    <2> TAKE s \in Sources
    <2> DEFINE c == D.src[s].ctx
               u == D.src[s]
    <2>1. u \in SourceType /\ c \in Int
      BY <1>2, Constants DEF SourceType
    <2>2. left[s] = IF c \in gone THEN [cancel(D.src, s)[s] EXCEPT !.ctx = FULL] ELSE u
      OBVIOUS
    <2>3. [cancel(D.src, s)[s] EXCEPT !.ctx = FULL] = Dropped(u)
      <3>1. cancel(D.src, s)[s] = [u EXCEPT !.queue = <<>>, !.zero = u.st \in {"open", "read"}]
        BY <1>2, <2>1 DEF cancel
      <3> DEFINE x == u.st \in {"open", "read"}
      <3> HIDE DEF u, x
      <3>2. [[u EXCEPT !.queue = <<>>, !.zero = x] EXCEPT !.ctx = FULL]
              = [u EXCEPT !.queue = <<>>, !.zero = x, !.ctx = FULL]
        BY <2>1 DEF SourceType
      <3> QED
        BY <3>1, <3>2 DEF Dropped, x
    <2>4. c \in gone <=> Live(D, c) /\ ~(b <= c /\ c < e)
      <3> HIDE DEF c
      <3>1. Live(D, c) => c < SegCount
        <4>1. Live(D, c) => c < D.dl.end
          BY <2>1, LiveFacts
        <4> QED
          BY <1>1, <1>2, <2>1, <4>1
      <3> QED
        BY <1>1, <1>7, <1>11, <2>1, <3>1
    <2> HIDE DEF left
    <2> QED
      BY <2>2, <2>3, <2>4
  <1>13. left \in [Sources -> SourceType] /\ \A s \in Peers : Len(left[s].queue) <= PeerWindow
    <2>1. ASSUME NEW s \in Sources PROVE left[s] \in SourceType /\ (s \in Peers => Len(left[s].queue) <= PeerWindow)
      <3> DEFINE u == D.src[s]
      <3>1. u \in SourceType /\ (s \in Peers => Len(u.queue) <= PeerWindow)
        BY <1>2 DEF Fit
      <3> HIDE DEF u
      <3>2. Dropped(u) \in SourceType /\ Dropped(u).queue = <<>>
        <4> DEFINE x == <<>>
                   y == u.st \in {"open", "read"}
        <4>1. x \in Seq(Ids) /\ y \in BOOLEAN /\ x = <<>> /\ FULL \in {NULL, FULL} \union Segs
          OBVIOUS
        <4>2. Dropped(u) = [u EXCEPT !.queue = x, !.zero = y, !.ctx = FULL]
          BY DEF Dropped
        <4> HIDE DEF x, y
        <4>3. Dropped(u) \in SourceType /\ Dropped(u).queue = x
          BY <3>1, <4>1, <4>2 DEF SourceType
        <4> QED
          BY <4>1, <4>3
      <3>3. Len(Dropped(u).queue) <= PeerWindow
        BY <3>2, Constants
      <3>4. left[s] = Dropped(u) \/ left[s] = u
        BY <1>12 DEF u
      <3> HIDE DEF left
      <3> QED
        BY <3>1, <3>2, <3>3, <3>4
    <2>2. left = [s \in Sources |-> left[s]]
      OBVIOUS
    <2> HIDE DEF left
    <2> QED
      BY <2>1, <2>2 DEF Sources
  <1> HIDE DEF left
  <1>14. F.dl = fill /\ F.src = left /\ fill.beg = b /\ fill.end = e /\ fill.tseg = t
    BY <1>10
  <1>15. fill \in Windows /\ F \in Worlds
    <2>1. t \in {NULL, FREED} \union Segs
      BY <1>8 DEF Boxes
    <2>2. fill \in Windows
      BY <1>1, <1>10, <1>11, <2>1 DEF Windows
    <2> QED
      BY <1>13, <2>2 DEF Worlds
  <1> HIDE DEF F
  <1>16. \A g \in Int : Live(F, g) <=> b <= g /\ g < e
    BY <1>1, <1>10, <1>11, <1>14 DEF Live, At
  <1>17. \A s \in Sources : F.src[s].ctx >= 0 => Live(F, F.src[s].ctx)
    <2> TAKE s \in Sources
    <2> DEFINE c == D.src[s].ctx
    <2>1. c \in Int /\ (c >= 0 => Live(D, c))
      <3>1. D.src[s] \in SourceType
        BY <1>2
      <3>2. c \in Int
        BY <3>1, Constants DEF SourceType
      <3>3. c >= 0 => Live(D, c)
        BY DEF Fit
      <3> QED
        BY <3>2, <3>3
    <2>2. CASE Live(D, c) /\ ~(b <= c /\ c < e)
      <3>1. F.src[s].ctx = FULL
        BY <1>2, <1>12, <1>14, <2>2 DEF Dropped, SourceType
      <3> QED
        BY <3>1, Constants
    <2>3. CASE ~(Live(D, c) /\ ~(b <= c /\ c < e))
      <3>1. F.src[s].ctx = c
        BY <1>12, <1>14, <2>3
      <3> HIDE DEF c
      <3> QED
        BY <1>16, <2>1, <2>3, <3>1
    <2> QED
      BY <2>2, <2>3
  <1>18. Fit(F)
    <2>1. Len(fill.segs) = e - b
      <3>1. Len(fill.segs) \in Nat /\ DOMAIN fill.segs = 1 .. Len(fill.segs)
        BY <1>10
      <3> QED
        BY <1>1, <1>10, <1>11, <3>1
    <2>2. \A i \in DOMAIN fill.segs : fill.segs[i].seg = b + i - 1
      BY <1>10
    <2> QED
      BY <1>11, <1>13, <1>14, <1>15, <1>17, <2>1, <2>2 DEF Fit
  <1>19. D.dl.tseg = NULL => F.dl.tseg = NULL
    <2>1. NULL \notin gone
      BY <1>7, LiveFacts, Constants
    <2> QED
      BY <1>14, <2>1 DEF t
  <1>20. ASSUME NEW g \in b .. e - 1 PROVE Widened(F, D, g, IF g = b THEN OffOf(p) ELSE 0, kept)
    <2> DEFINE i == g - b + 1
    <2>1. i \in 1 .. e - b /\ b + i - 1 = g /\ (i = 1 <=> g = b)
      BY <1>1, <1>11
    <2> HIDE DEF i
    <2>2. fill.segs[i] = IF Live(D, g)
                         THEN [Info(D, g) EXCEPT !.pos = Max({Info(D, g).pos, IF g = b THEN OffOf(p) ELSE 0})]
                         ELSE NewInfo(left, g, IF g = b THEN OffOf(p) ELSE 0, meta, kept)
      BY <1>10, <2>1
    <2>3. Info(F, g) = fill.segs[i]
      BY <1>14 DEF Info, At, i
    <2> QED
      BY <1>14, <2>2, <2>3 DEF Widened
  <1>21. kept = Kept(m, D.dl.beg .. D.dl.end - 1, [beg |-> b, end |-> z], from, to)
    <2>1. wide.beg = b /\ wide.end = z
      BY <1>9
    <2> QED
      BY <2>1 DEF Kept, kept
  <1>22. r.d = ServeAll(F, NULL) /\ r.has = kept
    BY <1>4 DEF F, fill
  <1>23. \A s \in Sources :
           F.src[s] = IF Live(D, D.src[s].ctx) /\ ~(b <= D.src[s].ctx /\ D.src[s].ctx < e)
                      THEN Dropped(D.src[s]) ELSE D.src[s]
    BY <1>12, <1>14
  <1>24. Prepared(F, D, p, count, kept)
    BY <1>14, <1>19, <1>20, <1>23 DEF b, e, Prepared
  <1> QED
    BY <1>18, <1>21, <1>22, <1>24 DEF r, b, z

\* In particular the window goes on fitting.
LEMMA PreparedFits ==
  ASSUME NEW D, Fit(D), NEW p \in Ids, NEW count \in Nat, count = Window \/ (count = 0 /\ SegOf(p) = 0),
         NEW m, NEW from, NEW to, order \in Seq(Sources)
  PROVE  Fit(prepare_taskwindow(D, p, count, m, from, to).d)
  <1> DEFINE r == prepare_taskwindow(D, p, count, m, from, to)
  <1>1. \E F : Fit(F) /\ r.d = ServeAll(F, NULL) /\ Prepared(F, D, p, count, r.has)
    BY PrepareFacts, Zenon
  <1> HIDE DEF r
  <1> QED
    BY <1>1, ServedFits DEF r

-----------------------------------------------------------------------------
(* The actions *)

\* What every state has that the next theorem needs.
Sinks == [on : BOOLEAN, pos : Nat, from : Nat, to : Nat]
FitInv == Fit(Cur) /\ order \in Seq(Sources) /\ sink \in Sinks

\* A source changes what is not its segment, and its queue does not grow.
LEMMA ChangedFits ==
  ASSUME NEW D, Fit(D), NEW s \in Sources, NEW w \in SourceType, w.ctx = D.src[s].ctx,
         Len(w.queue) <= Len(D.src[s].queue)
  PROVE  Fit(PutSrc(D, s, w))
  <1>1. w.ctx >= 0 => Live(D, w.ctx)
    BY DEF Fit
  <1>2. s \in Peers => Len(w.queue) <= PeerWindow
    <2>1. D.src[s] \in SourceType
      BY WindowFacts
    <2>2. w.queue \in Seq(Ids) /\ D.src[s].queue \in Seq(Ids)
      BY <2>1 DEF SourceType
    <2>3. Len(w.queue) \in Nat /\ Len(D.src[s].queue) \in Nat
      BY <2>2
    <2> QED
      BY <2>3, Constants DEF Fit
  <1> QED
    BY <1>1, <1>2, SrcPut

\* What the simple changes of a source come to.
LEMMA Changes ==
  ASSUME NEW D, Fit(D), NEW s \in Sources
  PROVE  /\ \A x \in {"m3u8", "idle", "open", "read", "down", "up"} : Fit([D EXCEPT !.src[s].st = x])
         /\ \A x \in {"m3u8", "idle", "open", "read", "down", "up"} : \A z \in BOOLEAN :
              Fit([D EXCEPT !.src[s].st = x, !.src[s].zero = z])
         /\ \A z \in BOOLEAN : Fit([D EXCEPT !.src[s].zero = z]) /\ Fit([D EXCEPT !.src[s].map = z])
         /\ \A q \in Seq(Ids) : Len(q) <= Len(D.src[s].queue) => Fit([D EXCEPT !.src[s].queue = q])
  <1> DEFINE u == D.src[s]
  <1>1. u \in SourceType /\ D \in [dl : Windows, src : [Sources -> SourceType]] /\ D.src \in [Sources -> SourceType]
        /\ Len(u.queue) \in Nat
    BY WindowFacts DEF Fit, Worlds, SourceType
  <1>2. ASSUME NEW x \in {"m3u8", "idle", "open", "read", "down", "up"} PROVE Fit([D EXCEPT !.src[s].st = x])
    <2> DEFINE w == [u EXCEPT !.st = x]
    <2>1. [D EXCEPT !.src[s].st = x] = PutSrc(D, s, w)
      BY <1>1 DEF PutSrc
    <2>2. w \in SourceType /\ w.ctx = u.ctx /\ w.queue = u.queue
      <3> HIDE DEF u
      <3> QED
        BY <1>1 DEF SourceType
    <2> HIDE DEF w
    <2> QED
      BY <1>1, <2>1, <2>2, ChangedFits
  <1>3. ASSUME NEW x \in {"m3u8", "idle", "open", "read", "down", "up"}, NEW z \in BOOLEAN
        PROVE  Fit([D EXCEPT !.src[s].st = x, !.src[s].zero = z])
    <2> DEFINE w == [u EXCEPT !.st = x, !.zero = z]
    <2>1. [D EXCEPT !.src[s].st = x, !.src[s].zero = z] = PutSrc(D, s, w)
      BY <1>1 DEF PutSrc
    <2>2. w \in SourceType /\ w.ctx = u.ctx /\ w.queue = u.queue
      <3> HIDE DEF u
      <3> QED
        BY <1>1 DEF SourceType
    <2> HIDE DEF w
    <2> QED
      BY <1>1, <2>1, <2>2, ChangedFits
  <1>4. ASSUME NEW z \in BOOLEAN PROVE Fit([D EXCEPT !.src[s].zero = z]) /\ Fit([D EXCEPT !.src[s].map = z])
    <2> DEFINE w == [u EXCEPT !.zero = z]
               v == [u EXCEPT !.map = z]
    <2>1. [D EXCEPT !.src[s].zero = z] = PutSrc(D, s, w) /\ [D EXCEPT !.src[s].map = z] = PutSrc(D, s, v)
      BY <1>1 DEF PutSrc
    <2>2. w \in SourceType /\ w.ctx = u.ctx /\ w.queue = u.queue
          /\ v \in SourceType /\ v.ctx = u.ctx /\ v.queue = u.queue
      <3> HIDE DEF u
      <3> QED
        BY <1>1 DEF SourceType
    <2> HIDE DEF w, v
    <2>3. w \in SourceType /\ w.ctx = D.src[s].ctx /\ Len(w.queue) <= Len(D.src[s].queue)
      BY <1>1, <2>2
    <2>4. Fit(PutSrc(D, s, w))
      BY <2>3, ChangedFits
    <2>5. v \in SourceType /\ v.ctx = D.src[s].ctx /\ Len(v.queue) <= Len(D.src[s].queue)
      BY <1>1, <2>2
    <2>6. Fit(PutSrc(D, s, v))
      BY <2>5, ChangedFits
    <2> QED
      BY <2>1, <2>4, <2>6
  <1>5. ASSUME NEW q \in Seq(Ids), Len(q) <= Len(u.queue) PROVE Fit([D EXCEPT !.src[s].queue = q])
    <2> DEFINE w == [u EXCEPT !.queue = q]
    <2>1. [D EXCEPT !.src[s].queue = q] = PutSrc(D, s, w)
      BY <1>1 DEF PutSrc
    <2>2. w \in SourceType /\ w.ctx = u.ctx /\ w.queue = q
      <3> HIDE DEF u
      <3> QED
        BY <1>1 DEF SourceType
    <2> HIDE DEF w
    <2> QED
      <3>1. w \in SourceType /\ w.ctx = D.src[s].ctx /\ Len(w.queue) <= Len(D.src[s].queue)
        BY <1>5, <2>2
      <3>2. Fit(PutSrc(D, s, w))
        BY <3>1, ChangedFits
      <3> QED
        BY <2>1, <3>2
  <1> QED
    BY <1>2, <1>3, <1>4, <1>5

\* A request that is over.
LEMMA DoneFits ==
  ASSUME NEW D, Fit(D), NEW s \in Sources
  PROVE  Fit(Done(D, s))
  <1> DEFINE E == [D EXCEPT !.src[s].st = "idle", !.src[s].zero = FALSE]
  <1>1. Fit(E)
    BY Changes
  <1>2. Done(D, s) = on_ready(E, s)
    BY DEF Done
  <1> HIDE DEF E
  <1> QED
    BY <1>1, <1>2, ReadyFacts DEF Near

\* The downloader becomes one that fits.
LEMMA Becoming ==
  ASSUME NEW D, Fit(D), Becomes(D)
  PROVE  Fit(Cur)'
  <1>1. [dl |-> dl', src |-> src'] = D
    BY DEF Becomes, Fit, Worlds
  <1>2. Fit([dl |-> dl', src |-> src'])
    BY <1>1
  <1> QED
    BY <1>2 DEF Cur

\* The initial window.
LEMMA InitFits ==
  ASSUME Init
  PROVE  FitInv
  <1>1. \A s \in Sources : NewSource(s) \in SourceType /\ NewSource(s).ctx = NULL /\ NewSource(s).queue = <<>>
    <2> TAKE s \in Sources
    <2> DEFINE q == <<>>
               t == IF s \in Peers THEN "down" ELSE IF s \in Playlist THEN "m3u8" ELSE "idle"
    <2>1. q \in Seq(Ids) /\ t \in {"m3u8", "idle", "open", "read", "down", "up"} /\ q = <<>>
      OBVIOUS
    <2>2. NewSource(s) = [ctx |-> NULL, queue |-> q, st |-> t, zero |-> FALSE, map |-> s \in Http]
      BY DEF NewSource
    <2> HIDE DEF q, t
    <2> QED
      BY <2>1, <2>2 DEF SourceType
  <1> DEFINE q == <<>>
             d == [beg |-> 0, end |-> 0, segs |-> q, tseg |-> NULL]
  <1>2. dl = d /\ src = [s \in Sources |-> NewSource(s)] /\ order = q /\ sink \in Sinks
    BY DEF Init, Sinks
  <1>3. q \in Seq(Infos) /\ q \in Seq(Sources) /\ Len(q) = 0 /\ DOMAIN q = {} /\ q = <<>>
    OBVIOUS
  <1> HIDE DEF q
  <1>4. d \in Windows
    BY <1>3, Constants DEF Windows
  <1>5. dl.beg = 0 /\ dl.end = 0 /\ dl.segs = q /\ dl \in Windows
    BY <1>2, <1>4
  <1> HIDE DEF d
  <1>6. src \in [Sources -> SourceType] /\ \A s \in Sources : src[s] = NewSource(s)
    BY <1>1, <1>2
  <1>7. Cur \in Worlds /\ Cur.dl = dl /\ Cur.src = src
    BY <1>5, <1>6 DEF Worlds, Cur
  <1>8. \A s \in Sources : ~(src[s].ctx >= 0) /\ Len(src[s].queue) = 0
    BY <1>1, <1>3, <1>6, Constants
  <1>9. Fit(Cur)
    BY <1>3, <1>5, <1>7, <1>8, Constants DEF Fit, Sources
  <1> QED
    BY <1>2, <1>3, <1>9 DEF FitInv

\* A source acts.
LEMMA SourceFits ==
  ASSUME FitInv, NEW s \in Sources,
         \/ on_sources(s) \/ handle_m3u8_open(s)
         \/ handle_open_canceled(s) \/ handle_open_error(s) \/ handle_open(s)
         \/ handle_read_canceled(s) \/ handle_read(s) \/ on_timer_stalled(s)
         \/ on_bind(s) \/ on_map(s) \/ on_tunnel_disconnect(s)
         \/ \E k \in 1 .. PeerWindow : on_data(s, k) \/ on_timer_late(s, k)
  PROVE  FitInv'
  <1> DEFINE q == src[s].queue
  <1>1. Fit(Cur) /\ order \in Seq(Sources) /\ sink \in Sinks /\ Cur.src = src /\ Cur.dl = dl
        /\ dl = Cur.dl /\ Cur \in Worlds
    BY DEF FitInv, Cur, Fit
  <1>2. src \in [Sources -> SourceType] /\ src[s] \in SourceType /\ q \in Seq(Ids)
    <2>1. src \in [Sources -> SourceType] /\ src[s] \in SourceType
      BY <1>1, WindowFacts
    <2> QED
      BY <2>1 DEF SourceType
  <1>3. \A D : Fit(D) => Fit(on_ready(D, s))
    BY ReadyFacts DEF Near
  <1>4. \A D : Fit(D) => Fit(Done(D, s))
    BY DoneFits
  <1>5. ASSUME on_sources(s) PROVE FitInv'
    <2> DEFINE E == IF src[s].st = "idle" THEN on_ready(Cur, s) ELSE Cur
    <2>1. Fit(E)
      BY <1>1, <1>3
    <2>2. Becomes(E) /\ order' = Append(order, s) /\ sink' = sink
      BY <1>5 DEF on_sources
    <2> HIDE DEF E
    <2>3. Fit(Cur)'
      BY <2>1, <2>2, Becoming
    <2>4. order' \in Seq(Sources)
      BY <1>1, <2>2
    <2> QED
      BY <1>1, <2>2, <2>3, <2>4 DEF FitInv
  <1>6. ASSUME handle_m3u8_open(s) PROVE FitInv'
    <2> DEFINE D == [Cur EXCEPT !.src[s].st = "idle"]
               E == on_ready(D, s)
    <2>1. Fit(D)
      BY <1>1, Changes
    <2>2. Becomes(E) /\ UNCHANGED <<order, sink>>
      BY <1>6 DEF handle_m3u8_open
    <2> HIDE DEF D
    <2>3. Fit(E)
      BY <1>3, <2>1
    <2> HIDE DEF E
    <2> QED
      BY <1>1, <2>2, <2>3, Becoming DEF FitInv
  <1>7. ASSUME handle_open_canceled(s) PROVE FitInv'
    <2> DEFINE E == Done(Cur, s)
    <2>1. Fit(E) /\ Becomes(E) /\ UNCHANGED <<order, sink>>
      BY <1>1, <1>4, <1>7 DEF handle_open_canceled
    <2> HIDE DEF E
    <2> QED
      BY <1>1, <2>1, Becoming DEF FitInv
  <1>8. ASSUME handle_open_error(s) PROVE FitInv'
    <2> DEFINE E == [Cur EXCEPT !.src[s].zero = FALSE]
    <2>1. Fit(E)
      BY <1>1, Changes
    <2>2. Becomes(E) /\ UNCHANGED <<order, sink>>
      BY <1>1, <1>8 DEF handle_open_error, Becomes, Worlds, Cur
    <2> HIDE DEF E
    <2> QED
      BY <1>1, <2>1, <2>2, Becoming DEF FitInv
  <1>9. ASSUME handle_open(s) PROVE FitInv'
    <2> DEFINE g == SegOf(Head(src[s].queue))
               D == [Cur EXCEPT !.src[s].st = "read"]
               E == IF g \in meta THEN D ELSE update_segment(D, g)
    <2>1. q # <<>> /\ Becomes(E) /\ UNCHANGED <<order, sink>>
      BY <1>9 DEF handle_open
    <2>2. g \in Segs
      <3>1. Head(src[s].queue) \in Ids
        BY <1>2, <2>1
      <3> QED
        BY <3>1, Placed
    <2>3. Fit(D)
      BY <1>1, Changes
    <2> HIDE DEF D, g
    <2>4. Fit(E)
      BY <1>1, <2>2, <2>3, UpdateFits
    <2> HIDE DEF E
    <2> QED
      BY <1>1, <2>1, <2>4, Becoming DEF FitInv
  <1>10. ASSUME handle_read_canceled(s) PROVE FitInv'
    <2> DEFINE D == [Cur EXCEPT !.src[s].st = "open", !.src[s].zero = FALSE]
               E == IF src[s].queue = <<>> THEN Done(Cur, s) ELSE D
    <2>1. Becomes(E) /\ UNCHANGED <<order, sink>>
      BY <1>10 DEF handle_read_canceled
    <2>2. Fit(D)
      BY <1>1, Changes
    <2> HIDE DEF D
    <2>3. Fit(E)
      BY <1>1, <1>4, <2>2
    <2> HIDE DEF E
    <2> QED
      BY <1>1, <2>1, <2>3, Becoming DEF FitInv
  <1>11. ASSUME handle_read(s) PROVE FitInv'
    <2> DEFINE D == [Cur EXCEPT !.src[s].queue = Tail(q)]
               B == [D EXCEPT !.src[s].st = "open"]
               E == IF Len(q) = 1 THEN Done(D, s) ELSE IF q[2] # q[1] + 1 THEN B ELSE D
    <2>1. q # <<>> /\ Becomes(E) /\ UNCHANGED <<order, sink>>
      BY <1>11 DEF handle_read
    <2>2. Tail(q) \in Seq(Ids) /\ Len(Tail(q)) <= Len(Cur.src[s].queue)
      BY <1>1, <1>2, <2>1
    <2>3. Fit(D)
      <3> DEFINE t == Tail(q)
      <3>1. t \in Seq(Ids) /\ Len(t) <= Len(Cur.src[s].queue)
        BY <2>2
      <3> HIDE DEF t
      <3>2. Fit([Cur EXCEPT !.src[s].queue = t])
        BY <1>1, <3>1, Changes
      <3> QED
        BY <3>2 DEF t
    <2> HIDE DEF D, q
    <2>4. Fit(B)
      BY <2>3, Changes
    <2> HIDE DEF B
    <2>5. Fit(E)
      BY <1>4, <2>3, <2>4
    <2> HIDE DEF E
    <2> QED
      BY <1>1, <2>1, <2>5, Becoming DEF FitInv
  <1>12. ASSUME on_timer_stalled(s) PROVE FitInv'
    <2> DEFINE E == [Cur EXCEPT !.src[s].zero = TRUE]
    <2>1. Fit(E)
      BY <1>1, Changes
    <2>2. Becomes(E) /\ UNCHANGED <<order, sink>>
      BY <1>1, <1>12 DEF on_timer_stalled, Becomes, Worlds, Cur
    <2> HIDE DEF E
    <2> QED
      BY <1>1, <2>1, <2>2, Becoming DEF FitInv
  <1>13. ASSUME on_bind(s) PROVE FitInv'
    <2> DEFINE E == [Cur EXCEPT !.src[s].st = "up"]
    <2>1. Fit(E)
      BY <1>1, Changes
    <2>2. Becomes(E) /\ UNCHANGED <<order, sink>>
      BY <1>1, <1>13 DEF on_bind, Becomes, Worlds, Cur
    <2> HIDE DEF E
    <2> QED
      BY <1>1, <2>1, <2>2, Becoming DEF FitInv
  <1>14. ASSUME on_map(s) PROVE FitInv'
    <2> DEFINE D == [Cur EXCEPT !.src[s].map = TRUE]
               E == IF src[s].queue = <<>> THEN on_ready(D, s) ELSE D
    <2>1. Becomes(E) /\ UNCHANGED <<order, sink>>
      BY <1>14 DEF on_map
    <2>2. Fit(D)
      BY <1>1, Changes
    <2> HIDE DEF D
    <2>3. Fit(E)
      BY <1>3, <2>2
    <2> HIDE DEF E
    <2> QED
      BY <1>1, <2>1, <2>3, Becoming DEF FitInv
  <1>15. ASSUME NEW k \in 1 .. PeerWindow, on_data(s, k) PROVE FitInv'
    <2> DEFINE D == [Cur EXCEPT !.src[s].queue = RemoveAt(@, k)]
               E == on_ready(D, s)
    <2>1. k \in DOMAIN q /\ Becomes(E) /\ UNCHANGED <<order, sink>>
      BY <1>15 DEF on_data
    <2> DEFINE r == RemoveAt(q, k)
    <2>2. r \in Seq(Ids) /\ Len(r) <= Len(q)
      <3> HIDE DEF q
      <3>1. r = SubSeq(q, 1, k - 1) \o SubSeq(q, k + 1, Len(q))
        BY DEF RemoveAt
      <3>2. k \in 1 .. Len(q) /\ Len(q) \in Nat
        BY <1>2, <2>1
      <3> DEFINE a == SubSeq(q, 1, k - 1)
                 b == SubSeq(q, k + 1, Len(q))
      <3>3. a \in Seq(Ids) /\ Len(a) = k - 1 /\ b \in Seq(Ids) /\ Len(b) = Len(q) - k
        BY <1>2, <3>2
      <3>4. r = a \o b
        BY <3>1
      <3> HIDE DEF r, a, b
      <3>5. r \in Seq(Ids) /\ Len(r) = Len(a) + Len(b)
        <4>1. a \o b \in Seq(Ids) /\ Len(a \o b) = Len(a) + Len(b)
          BY <3>3, ConcatProperties
        <4> QED
          BY <3>4, <4>1
      <3> QED
        BY <3>2, <3>3, <3>5
    <2>3. D = [Cur EXCEPT !.src[s].queue = r]
      BY <1>1, <1>2 DEF Worlds
    <2> HIDE DEF D, r
    <2>4. Fit([Cur EXCEPT !.src[s].queue = r])
      BY <1>1, <2>2, Changes
    <2>5. Fit(E)
      BY <1>3, <2>3, <2>4
    <2> HIDE DEF E
    <2> QED
      BY <1>1, <2>1, <2>5, Becoming DEF FitInv
  <1>16. ASSUME NEW k \in 1 .. PeerWindow, on_timer_late(s, k) PROVE FitInv'
    <2> DEFINE D == GiveUp(Cur, s, k)
               E == on_ready(D, s)
    <2>1. k \in 1 .. Len(q) /\ Becomes(E) /\ UNCHANGED <<order, sink>>
      BY <1>16 DEF on_timer_late
    <2>2. k \in 0 .. Len(Cur.src[s].queue)
      BY <1>1, <2>1
    <2>3. Fit(D)
      BY <1>1, <2>2, GivenUpFits
    <2> HIDE DEF D
    <2>4. Fit(E)
      BY <1>3, <2>3
    <2> HIDE DEF E
    <2> QED
      BY <1>1, <2>1, <2>4, Becoming DEF FitInv
  <1>17. ASSUME on_tunnel_disconnect(s) PROVE FitInv'
    <2> DEFINE D == GiveUp(Cur, s, Len(src[s].queue))
               E == [D EXCEPT !.src[s].st = "down"]
    <2>1. Becomes(E) /\ UNCHANGED <<order, sink>>
      BY <1>17 DEF on_tunnel_disconnect
    <2> DEFINE k == Len(src[s].queue)
    <2>2. k \in 0 .. Len(Cur.src[s].queue)
      BY <1>1, <1>2
    <2> HIDE DEF k
    <2>3. Fit(GiveUp(Cur, s, k))
      BY <1>1, <2>2, GivenUpFits
    <2>4. Fit(D)
      BY <2>3 DEF k
    <2> HIDE DEF D
    <2>5. Fit(E)
      BY <2>4, Changes
    <2> HIDE DEF E
    <2> QED
      BY <1>1, <2>1, <2>5, Becoming DEF FitInv
  <1> QED
    BY <1>5, <1>6, <1>7, <1>8, <1>9, <1>10, <1>11, <1>12, <1>13, <1>14, <1>15, <1>16, <1>17

\* The sink or the disk cache acts.
LEMMA SinkFits ==
  ASSUME FitInv,
         add_sink \/ del_sink \/ read \/ on_timer \/ (\E p \in SeekTo : seek_to(p)) \/ (\E g \in Segs : Save(g) \/ Evict(g))
  PROVE  FitInv'
  <1>1. Fit(Cur) /\ order \in Seq(Sources) /\ sink \in Sinks /\ sink.pos \in Nat /\ sink.to \in Nat /\ sink.from \in Nat
    BY DEF FitInv, Sinks
  <1>2. 0 \in Ids /\ SegOf(0) = 0
    <2>1. 0 \in Nat /\ SegPos \in Nat \ {0} /\ SegCount \in Nat /\ 0 < SegCount
      BY Constants, DownloadAssumption
    <2>2. 0 \in Segs /\ 0 \in 0 .. SegPos - 1
      BY <2>1, Constants
    <2>3. 0 * SegPos + 0 \in Ids /\ 0 * SegPos = 0
      BY <2>1, <2>2, Places
    <2>4. SegOf(0) = 0
      BY <2>1 DEF SegOf
    <2> QED
      BY <2>3, <2>4
  <1>3. \A p \in Ids : \A m, from, to : Fit(prepare_taskwindow(Cur, p, Window, m, from, to).d)
    BY <1>1, PreparedFits, Constants
  <1>4. ASSUME add_sink PROVE FitInv'
    <2> DEFINE E == prepare_taskwindow(Cur, 0, Window, has, 0, 0).d
    <2>1. Becomes(E) /\ order' = order /\ sink' \in Sinks
      BY <1>4 DEF add_sink, reset, Sinks
    <2>2. Fit(E)
      BY <1>2, <1>3
    <2> HIDE DEF E
    <2> QED
      BY <1>1, <2>1, <2>2, Becoming DEF FitInv
  <1>5. ASSUME del_sink PROVE FitInv'
    <2> DEFINE kept == {x \in has : SegOf(x) \in dl.beg .. dl.end - 1 \/ ~(sink.from <= x /\ x < sink.to)}
               E == prepare_taskwindow(Cur, 0, 0, kept, 0, 0).d
    <2>1. Becomes(E) /\ order' = order /\ sink' = [sink EXCEPT !.on = FALSE, !.from = 0, !.to = 0]
      BY <1>5 DEF del_sink, reset
    <2>2. sink' \in Sinks
      BY <1>1, <2>1 DEF Sinks
    <2> HIDE DEF kept
    <2>3. Fit(E)
      BY <1>1, <1>2, PreparedFits
    <2> HIDE DEF E
    <2> QED
      BY <1>1, <2>1, <2>2, <2>3, Becoming DEF FitInv
  <1>6. ASSUME read PROVE FitInv'
    <2>1. Becomes(Cur) /\ order' = order
      BY <1>6 DEF read, Becomes, Cur
    <2>2. SegOf(sink.pos) \in Nat /\ SegPos \in Nat
      <3>1. SegPos \in Nat \ {0}
        BY Constants
      <3> QED
        BY <1>1, <3>1, Divides DEF SegOf
    <2>3. (SegOf(sink.pos) + 1) * SegPos \in Nat
      BY <2>2
    <2>4. sink' \in Sinks
      <3> DEFINE x == IF Exists(sink.pos + 1) THEN sink.pos + 1 ELSE (SegOf(sink.pos) + 1) * SegPos
      <3>1. sink' = [sink EXCEPT !.pos = x]
        BY <1>1, <1>6 DEF read, Sinks
      <3>2. x \in Nat
        BY <1>1, <2>3
      <3> HIDE DEF x
      <3> QED
        BY <1>1, <3>1, <3>2 DEF Sinks
    <2> QED
      BY <1>1, <2>1, <2>4, Becoming DEF FitInv
  <1>7. ASSUME on_timer PROVE FitInv'
    <2> DEFINE E == prepare_taskwindow(Cur, sink.pos, Window, has, sink.from, sink.to).d
    <2>1. Becomes(E) /\ order' = order /\ sink' = sink /\ sink.pos < End
      BY <1>7 DEF on_timer, reset, Behind
    <2>2. sink.pos \in Ids
      <3>1. End \in Int
        BY Constants DEF End
      <3> QED
        BY <1>1, <2>1, <3>1, Constants
    <2>3. Fit(E)
      BY <1>3, <2>2
    <2> HIDE DEF E
    <2> QED
      BY <1>1, <2>1, <2>3, Becoming DEF FitInv
  <1>8. ASSUME NEW p \in SeekTo, seek_to(p) PROVE FitInv'
    <2> DEFINE moves == sink.pos # p /\ (play # p \/ download # p)
               r == prepare_taskwindow(Cur, p, Window, has, sink.from, sink.to)
               E == IF moves THEN r.d ELSE Cur
    <2>1. Becomes(E) /\ order' = order /\ sink' = [sink EXCEPT !.pos = p, !.from = p, !.to = (SegOf(p) + 1) * SegPos]
      BY <1>8 DEF seek_to
    <2>2. p \in Ids /\ p \in Nat
      BY DownloadAssumption, Constants
    <2>3. Fit(E)
      BY <1>1, <1>3, <2>2
    <2> HIDE DEF E
    <2>4. sink' \in Sinks
      <3> DEFINE x == (SegOf(p) + 1) * SegPos
      <3>1. x \in Nat
        <4>1. SegOf(p) \in Nat /\ SegPos \in Nat
          BY <2>2, Placed, Constants
        <4> QED
          BY <4>1
      <3> HIDE DEF x
      <3>2. sink' = [sink EXCEPT !.pos = p, !.from = p, !.to = x]
        BY <2>1 DEF x
      <3> QED
        BY <1>1, <2>2, <3>1, <3>2 DEF Sinks
    <2> QED
      BY <1>1, <2>1, <2>3, <2>4, Becoming DEF FitInv
  <1>9. ASSUME NEW g \in Segs, Save(g) \/ Evict(g) PROVE FitInv'
    <2>1. Becomes(Cur) /\ order' = order /\ sink' = sink
      BY <1>9 DEF Save, Evict, Becomes, Cur
    <2> QED
      BY <1>1, <2>1, Becoming DEF FitInv
  <1> QED
    BY <1>4, <1>5, <1>6, <1>7, <1>8, <1>9

\* The window and its sources fit together in every state.
LEMMA AlwaysFits == Spec => []FitInv
  <1>1. Init => FitInv
    BY InitFits
  <1>2. FitInv /\ [Next]_vars => FitInv'
    <2> SUFFICES ASSUME FitInv, [Next]_vars PROVE FitInv'
      OBVIOUS
    <2>1. CASE Next
      BY <2>1, SourceFits, SinkFits DEF Next
    <2>2. CASE UNCHANGED vars
      <3>1. Fit(Cur) /\ Cur \in Worlds /\ Becomes(Cur) /\ order' = order /\ sink' = sink
        BY <2>2 DEF FitInv, Fit, vars, Becomes, Cur
      <3> QED
        BY <3>1, Becoming DEF FitInv
    <2> QED
      BY <2>1, <2>2
  <1> QED
    BY <1>1, <1>2, PTL DEF Spec

\* A source that gets a segment of known size gets pieces of it (CdnDownloader::get_task).
THEOREM TasksHavePieces == Spec => []TaskHasPieces
  <1>1. FitInv => TaskHasPieces
    <2> SUFFICES ASSUME FitInv, NEW s \in Sources
                 PROVE  LET g == get_task(Cur, s)
                        IN  g.seg # NULL => g.pieces # <<>> \/ ~Info(g.d, g.seg).ready
      BY DEF TaskHasPieces
    <2>1. Fit(Cur)
      BY DEF FitInv
    <2> QED
      BY <2>1, TaskFacts
  <1> QED
    BY <1>1, AlwaysFits, PTL

-----------------------------------------------------------------------------
(* Web servers alone *)

\* Nothing is late, and no peer has anything.
Quiet(D) == D.dl.tseg = NULL /\ \A i \in DOMAIN D.dl.segs : D.dl.segs[i].late = {} /\ D.dl.segs[i].np2p = 0

\* The segment counts k sources more and has handed out m pieces more.
Given(u, k, m) == [u EXCEPT !.nsource = u.nsource + k, !.pos = u.pos + m]

\* How often the segment g is the one of a source that goes from segment x to segment c.
Moves(g, x, c) == (IF g = c THEN 1 ELSE 0) - (IF g = x THEN 1 ELSE 0)

\* The source s works for the segment c now, of which it got n pieces, or for none.
Handed(E, D, s, c, n) ==
  /\ Near(E, D, s) /\ E.dl.tseg = NULL
  /\ IF c = NULL THEN n = 0 ELSE c \in Segs /\ Live(D, c)
  /\ E.src[s].ctx = c
  /\ n = 0 => E.src[s].queue = D.src[s].queue /\ E.src[s].st = D.src[s].st
  /\ n # 0 => /\ E.src[s].queue = Row(c, Info(D, c).pos, n) /\ E.src[s].st = "open"
              /\ Info(D, c).pos + n <= Info(D, c).end
  /\ \A i \in DOMAIN D.dl.segs :
       E.dl.segs[i] = Given(D.dl.segs[i], Moves(D.dl.segs[i].seg, D.src[s].ctx, c),
                            IF D.dl.segs[i].seg = c THEN n ELSE 0)

\* Counts add up.
LEMMA CountTwice ==
  ASSUME NEW u \in Infos, NEW v, NEW w, NEW j \in Int, NEW k \in Int, NEW n \in Nat,
         Counted(v, u, j), Counted(w, v, k)
  PROVE  /\ w = Given(u, j + k, 0) /\ w.pos = u.pos /\ w.end = u.end /\ w.late = u.late /\ w.seg = u.seg
         /\ \A z : Advanced(z, w, n) => z = Given(u, j + k, n)
  <1>1. u.nsource \in Int /\ u.pos \in Nat
    BY Constants DEF Infos
  <1>2. v = [u EXCEPT !.nsource = u.nsource + j] /\ w = [v EXCEPT !.nsource = v.nsource + k]
    BY DEF Counted
  <1>3. w = [u EXCEPT !.nsource = (u.nsource + j) + k]
    BY <1>2 DEF Infos
  <1>4. (u.nsource + j) + k = u.nsource + (j + k) /\ u.pos + 0 = u.pos
    BY <1>1
  <1>5. w = [u EXCEPT !.nsource = u.nsource + (j + k)]
    BY <1>3, <1>4
  <1>6. w = Given(u, j + k, 0) /\ w.pos = u.pos /\ w.end = u.end /\ w.late = u.late /\ w.seg = u.seg
    BY <1>4, <1>5 DEF Given, Infos
  <1>7. ASSUME NEW z, Advanced(z, w, n) PROVE z = Given(u, j + k, n)
    <2>1. z = [w EXCEPT !.pos = u.pos + n]
      BY <1>6, <1>7 DEF Advanced
    <2> QED
      BY <1>5, <2>1 DEF Given, Infos
  <1> QED
    BY <1>6, <1>7

\* What a source that asks for a task gets when nothing is late.
LEMMA HandedFacts ==
  ASSUME Peers = {}, NEW D, Fit(D), Quiet(D), NEW s \in Sources
  PROVE  /\ D.src[s].st # "idle" => on_ready(D, s) = D
         /\ D.src[s].st = "idle" =>
              \E c \in {NULL} \union Segs : \E n \in Nat : Handed(on_ready(D, s), D, s, c, n)
  <1> DEFINE g == get_task(D, s)
             need == window_left(D.src, s)
             x == D.src[s].ctx
             A == Finish(D, s)
             r == Choose(A, s)
             C == r.d
             c == r.seg
             T == Take(C, c, need)
             E == on_ready(D, s)
  <1>1. need = (IF D.src[s].st = "idle" THEN PPB ELSE 0) /\ s \notin Peers
    BY DEF window_left
  <1>2. CASE D.src[s].st # "idle"
    <2>1. g = [d |-> D, seg |-> NULL, pieces |-> <<>>]
      BY <1>1, <1>2 DEF get_task
    <2>2. E = [D EXCEPT !.src = D.src]
      BY <2>1 DEF on_ready, request
    <2>3. D \in [dl : Windows, src : [Sources -> SourceType]]
      BY DEF Fit, Worlds
    <2> QED
      BY <1>2, <2>2, <2>3
  <1>3. CASE D.src[s].st = "idle"
    <2>0. need = PPB /\ need \in Nat /\ need >= 1
      BY <1>1, <1>3, Constants
    <2>1. D.dl.tseg = NULL /\ D.src[s] \in SourceType /\ x \in {NULL, FULL} \union Segs
          /\ \A i \in DOMAIN D.dl.segs : D.dl.segs[i] \in Infos /\ D.dl.segs[i].late = {}
      BY WindowFacts DEF Quiet, SourceType
    <2>2. /\ Near(A, D, s) /\ A.dl.tseg = NULL /\ SameWork(A.src[s], D.src[s])
          /\ A.src[s].ctx = NULL \/ Busy(A, A.src[s].ctx)
          /\ \A i \in DOMAIN D.dl.segs :
               Counted(A.dl.segs[i], D.dl.segs[i], IF A.src[s].ctx = NULL /\ D.dl.segs[i].seg = x THEN -1 ELSE 0)
          /\ A.src[s].ctx = NULL \/ A.src[s].ctx = x
      <3>1. \/ A = D /\ (x = NULL \/ Busy(D, x))
            \/ /\ x # NULL /\ Near(A, D, s) /\ A.dl.tseg = D.dl.tseg
               /\ SameWork(A.src[s], D.src[s]) /\ A.src[s].ctx = NULL
               /\ \A i \in DOMAIN D.dl.segs :
                    Counted(A.dl.segs[i], D.dl.segs[i], IF D.dl.segs[i].seg = x THEN -1 ELSE 0)
        BY FinishFacts
      <3> HIDE DEF A
      <3>2. CASE A = D /\ (x = NULL \/ Busy(D, x))
        <4>1. \A i \in DOMAIN D.dl.segs : Counted(D.dl.segs[i], D.dl.segs[i], 0) /\ D.dl.segs[i].seg # NULL
          <5> TAKE i \in DOMAIN D.dl.segs
          <5> DEFINE u == D.dl.segs[i]
          <5>1. u \in Infos
            BY <2>1
          <5> HIDE DEF u
          <5>2. Counted(u, u, 0)
            BY <5>1 DEF Counted, Infos
          <5>3. u.seg # NULL
            BY <5>1, Constants DEF Infos
          <5> QED
            BY <5>2, <5>3 DEF u
        <4>2. Near(D, D, s)
          BY DEF Near
        <4> QED
          BY <2>1, <3>2, <4>1, <4>2 DEF SameWork
      <3>3. CASE A.src[s].ctx = NULL /\ Near(A, D, s) /\ A.dl.tseg = D.dl.tseg
                 /\ SameWork(A.src[s], D.src[s]) 
                 /\ \A i \in DOMAIN D.dl.segs :
                      Counted(A.dl.segs[i], D.dl.segs[i], IF D.dl.segs[i].seg = x THEN -1 ELSE 0)
        BY <2>1, <3>3
      <3> QED
        BY <3>1, <3>2, <3>3
    <2> HIDE DEF A
    <2>3. NextLate(A) = A
      BY <2>2, NextLateFacts DEF Near
    <2>4. g = IF c = NULL THEN [d |-> C, seg |-> NULL, pieces |-> <<>>] ELSE T
      BY <2>0, <2>3 DEF get_task, A
    <2>5. /\ Near(C, A, s) /\ C.dl.tseg = NULL /\ SameWork(C.src[s], A.src[s])
          /\ c = NULL \/ Busy(C, c)
          /\ c = NULL => C = A /\ A.src[s].ctx = NULL
          /\ C.src[s].ctx = c
          /\ \A i \in DOMAIN A.dl.segs :
               Counted(C.dl.segs[i], A.dl.segs[i], IF A.src[s].ctx = NULL /\ A.dl.segs[i].seg = c THEN 1 ELSE 0)
      BY <2>2, ChooseFacts DEF Near
    <2>6. A.src[s].ctx # NULL => c = A.src[s].ctx
      BY <2>2 DEF Choose
    <2> HIDE DEF C, c, need, g, E
    <2>7. /\ Near(E, D, s) /\ E.dl = g.d.dl /\ E.src[s] = Requested(g.d.src[s], s, g.pieces)
      BY ReadyFacts DEF E, g
    <2>8. DOMAIN A.dl.segs = DOMAIN D.dl.segs /\ DOMAIN C.dl.segs = DOMAIN D.dl.segs /\ Near(C, D, s)
          /\ SameWork(C.src[s], D.src[s]) /\ Fit(C)
      BY <2>2, <2>5 DEF Near, SameWork
    <2> DEFINE k(i) == Moves(D.dl.segs[i].seg, x, c)
    <2>9. \A i \in DOMAIN D.dl.segs :
            /\ C.dl.segs[i] = Given(D.dl.segs[i], k(i), 0) /\ C.dl.segs[i].pos = D.dl.segs[i].pos
            /\ C.dl.segs[i].end = D.dl.segs[i].end /\ C.dl.segs[i].late = {}
            /\ \A n \in Nat : \A z : Advanced(z, C.dl.segs[i], n) => z = Given(D.dl.segs[i], k(i), n)
      <3> TAKE i \in DOMAIN D.dl.segs
      <3> DEFINE u == D.dl.segs[i]
                 v == A.dl.segs[i]
                 w == C.dl.segs[i]
                 a == IF A.src[s].ctx = NULL /\ u.seg = x THEN -1 ELSE 0
                 b == IF A.src[s].ctx = NULL /\ v.seg = c THEN 1 ELSE 0
      <3>1. Counted(v, u, a) /\ Counted(w, v, b) /\ u \in Infos /\ a \in Int /\ b \in Int /\ u.late = {}
        BY <2>1, <2>2, <2>5, <2>8
      <3>2. v.seg = u.seg
        <4> HIDE DEF a, b, u, v
        <4> QED
          BY <3>1 DEF Counted, Infos
      <3>3. a + b = k(i)
        BY <2>2, <2>6, <3>2 DEF Moves
      <3> HIDE DEF a, b, u, v, w, k
      <3>4. /\ w = Given(u, a + b, 0) /\ w.pos = u.pos /\ w.end = u.end /\ w.late = u.late
        BY <3>1, CountTwice
      <3>5. ASSUME NEW n \in Nat, NEW z, Advanced(z, w, n) PROVE z = Given(u, a + b, n)
        BY <3>1, <3>5, CountTwice
      <3> QED
        BY <3>1, <3>3, <3>4, <3>5 DEF u, w
    <2>10. CASE c = NULL
      <3>1. g.d = C /\ g.pieces = <<>> /\ E.dl = C.dl /\ E.src[s] = C.src[s]
        BY <2>4, <2>7, <2>10 DEF Requested
      <3>2. \A i \in DOMAIN D.dl.segs : D.dl.segs[i].seg # c
        BY <2>1, <2>10, Constants DEF Infos
      <3>3. Handed(E, D, s, c, 0)
        BY <2>5, <2>7, <2>8, <2>9, <2>10, <3>1, <3>2 DEF Handed, SameWork
      <3> QED
        BY <1>3, <2>10, <3>3 DEF E
    <2>11. CASE c # NULL
      <3> HIDE DEF T
      <3>1. g = T /\ Busy(C, c) /\ Fit(C)
        BY <2>4, <2>5, <2>8, <2>11
      <3> DEFINE j == At(C, c)
                 p == Info(C, c).pos
      <3>2. c \in Segs /\ Live(C, c) /\ c \in Int
        BY <3>1, Constants DEF Busy
      <3>3. j \in DOMAIN D.dl.segs /\ Info(C, c) = C.dl.segs[j] /\ C.dl.segs[j].seg = c
            /\ Info(D, c) = D.dl.segs[j] /\ Live(D, c)
        <4>1. j \in DOMAIN C.dl.segs /\ Info(C, c) = C.dl.segs[j] /\ C.dl.segs[j].seg = c
          BY <3>1, <3>2, LiveFacts
        <4>2. At(D, c) = j
          BY <2>8 DEF Near, At
        <4> QED
          BY <2>8, <4>1, <4>2 DEF Live, Info
      <3>4. /\ T.d.src = C.src /\ T.d.dl.tseg = C.dl.tseg
            /\ DOMAIN T.d.dl.segs = DOMAIN C.dl.segs
            /\ \A i \in DOMAIN C.dl.segs : i # j => T.d.dl.segs[i] = C.dl.segs[i]
            /\ Info(C, c).late = {} =>
                 \E n \in 0 .. need : T.pieces = Row(c, p, n) /\ Advanced(Info(T.d, c), Info(C, c), n)
            /\ T.d.dl.beg = C.dl.beg
        BY <2>0, <3>1, TakeFacts DEF T, need
      <3>5. PICK n \in 0 .. need : T.pieces = Row(c, p, n) /\ Advanced(Info(T.d, c), Info(C, c), n)
        <4>1. Info(C, c).late = {}
          BY <2>9, <3>3
        <4> QED
          BY <3>4, <4>1
      <3>6. n \in Nat
        BY <2>0 DEF need
      <3>7. Info(T.d, c) = T.d.dl.segs[j]
        BY <3>4 DEF Info, At
      <3> HIDE DEF j
      <3>8. p = Info(D, c).pos /\ Info(C, c).end = Info(D, c).end
        BY <2>9, <3>3
      <3>9. n # 0 => p + n <= Info(D, c).end
        BY <3>5, <3>8 DEF Advanced
      <3>10. \A i \in DOMAIN D.dl.segs :
               E.dl.segs[i] = Given(D.dl.segs[i], k(i), IF D.dl.segs[i].seg = c THEN n ELSE 0)
        <4> TAKE i \in DOMAIN D.dl.segs
        <4>0. E.dl.segs[i] = T.d.dl.segs[i]
          BY <2>7, <3>1
        <4>1. CASE i = j
          <5>1. D.dl.segs[i].seg = c
            BY <2>9, <3>3, <4>1, LiveFacts, <3>2
          <5>2. T.d.dl.segs[i] = Given(D.dl.segs[i], k(i), n)
            BY <2>9, <3>3, <3>5, <3>6, <3>7, <4>1
          <5> QED
            BY <4>0, <5>1, <5>2
        <4>2. CASE i # j
          <5>1. D.dl.segs[i].seg # c
            <6>1. D.dl.segs[i].seg = D.dl.beg + i - 1 /\ D.dl.segs[j].seg = D.dl.beg + j - 1 /\ D.dl.beg \in Nat
                  /\ i \in Nat /\ j \in Nat
              <7>1. D.dl.beg \in Nat /\ DOMAIN D.dl.segs = 1 .. D.dl.end - D.dl.beg
                BY WindowFacts
              <7>2. \A a \in DOMAIN D.dl.segs : D.dl.segs[a].seg = D.dl.beg + a - 1
                BY DEF Fit
              <7>3. i \in DOMAIN D.dl.segs /\ j \in DOMAIN D.dl.segs
                BY <3>3
              <7>4. i \in Nat /\ j \in Nat
                BY <7>1, <7>3
              <7> QED
                BY <7>1, <7>2, <7>3, <7>4
            <6>2. D.dl.segs[j].seg = c
              BY <3>2, <3>3, LiveFacts
            <6> QED
              BY <4>2, <6>1, <6>2
          <5>2. T.d.dl.segs[i] = C.dl.segs[i]
            BY <2>8, <3>4, <4>2
          <5> QED
            BY <2>9, <4>0, <5>1, <5>2
        <4> QED
          BY <4>1, <4>2
      <3>11. /\ E.src[s].ctx = c
             /\ n = 0 => E.src[s].queue = D.src[s].queue /\ E.src[s].st = D.src[s].st
             /\ n # 0 => E.src[s].queue = Row(c, p, n) /\ E.src[s].st = "open"
        <4>1. E.src[s] = Requested(C.src[s], s, Row(c, p, n)) /\ C.src[s] \in SourceType
          BY <2>7, <2>8, <3>1, <3>4, <3>5, WindowFacts
        <4>2. CASE n = 0
          <5>1. Row(c, p, n) = <<>>
            BY <4>2 DEF Row
          <5> QED
            BY <2>5, <2>8, <4>1, <4>2, <5>1 DEF Requested, SameWork
        <4>3. CASE n # 0
          <5>1. Row(c, p, n) # <<>>
            <6>1. DOMAIN Row(c, p, n) = 1 .. n
              BY DEF Row
            <6>2. 1 \in 1 .. n
              BY <3>6, <4>3
            <6> QED
              BY <6>1, <6>2
          <5> DEFINE q == Row(c, p, n)
                     y == C.src[s]
          <5> HIDE DEF q, y
          <5>2. E.src[s] = [y EXCEPT !.queue = q, !.st = "open", !.zero = FALSE] /\ y \in SourceType
            BY <1>1, <4>1, <5>1 DEF Requested, q, y
          <5>3. E.src[s].ctx = y.ctx /\ E.src[s].queue = q /\ E.src[s].st = "open"
            BY <5>2 DEF SourceType
          <5> QED
            BY <2>5, <4>3, <5>3 DEF q, y
        <4> QED
          BY <4>2, <4>3
      <3>12. Handed(E, D, s, c, n)
        <4> HIDE DEF k, p
        <4>1. E.dl.tseg = NULL
          BY <2>5, <2>7, <3>1, <3>4
        <4> QED
          BY <2>7, <2>11, <3>2, <3>3, <3>8, <3>9, <3>10, <3>11, <4>1 DEF Handed, k
      <3> QED
        BY <1>3, <3>2, <3>6, <3>12 DEF E
    <2> QED
      BY <2>10, <2>11
  <1> QED
    BY <1>2, <1>3

\* The sources that work for a segment, in number.
Workers(D, g) == Cardinality({t \in Sources : D.src[t].ctx = g})

\* Every segment counts the sources that work for it.
Exact(D) == \A g \in Segs : Live(D, g) => Info(D, g).nsource = Workers(D, g)

\* What holds of a downloader without peers whatever is sought.
Calm(D) == Fit(D) /\ Quiet(D) /\ Exact(D)

\* A place in the window is a segment of it.
LEMMA Indexed ==
  ASSUME NEW D, Fit(D), NEW i \in DOMAIN D.dl.segs
  PROVE  LET g == D.dl.segs[i].seg IN g \in Segs /\ Live(D, g) /\ Info(D, g) = D.dl.segs[i] /\ At(D, g) = i
  <1> DEFINE g == D.dl.segs[i].seg
  <1>1. g = D.dl.beg + i - 1 /\ D.dl.beg \in Nat /\ i \in Nat /\ i \in DOMAIN D.dl.segs
    BY WindowFacts DEF Fit
  <1> HIDE DEF g
  <1>2. At(D, g) = i
    BY <1>1 DEF At
  <1>3. g \in Int /\ Live(D, g) /\ Info(D, g) = D.dl.segs[i]
    BY <1>1, <1>2 DEF Live, Info
  <1>4. g \in Segs
    BY <1>3, LiveFacts
  <1> QED
    BY <1>2, <1>3, <1>4 DEF g

\* Quiet, said of the segments.
LEMMA QuietLive ==
  ASSUME NEW D, Fit(D)
  PROVE  Quiet(D) <=> D.dl.tseg = NULL /\ \A g \in Segs : Live(D, g) => Info(D, g).late = {} /\ Info(D, g).np2p = 0
  <1>1. ASSUME Quiet(D), NEW g \in Segs, Live(D, g) PROVE Info(D, g).late = {} /\ Info(D, g).np2p = 0
    <2>1. g \in Int
      BY Constants
    <2>2. At(D, g) \in DOMAIN D.dl.segs /\ Info(D, g) = D.dl.segs[At(D, g)]
      BY <1>1, <2>1, LiveFacts
    <2> QED
      BY <1>1, <2>2 DEF Quiet
  <1>2. ASSUME \A g \in Segs : Live(D, g) => Info(D, g).late = {} /\ Info(D, g).np2p = 0,
               NEW i \in DOMAIN D.dl.segs
        PROVE  D.dl.segs[i].late = {} /\ D.dl.segs[i].np2p = 0
    BY <1>2, Indexed
  <1> QED
    BY <1>1, <1>2 DEF Quiet

\* What a segment that gave pieces has kept.
LEMMA GivenFacts ==
  ASSUME NEW u \in Infos, NEW k \in Int, NEW n \in Nat
  PROVE  LET v == Given(u, k, n)
         IN  /\ v.seg = u.seg /\ v.ready = u.ready /\ v.end = u.end /\ v.late = u.late /\ v.np2p = u.np2p
             /\ v.pos = u.pos + n /\ v.nsource = u.nsource + k
  BY DEF Given, Infos

Gave(v, u, k, n) ==
  /\ u \in Infos /\ v \in Infos
  /\ v.seg = u.seg /\ v.ready = u.ready /\ v.end = u.end /\ v.late = u.late /\ v.np2p = u.np2p
  /\ v.pos = u.pos + n /\ v.nsource = u.nsource + k

\* The segments after one source was served.
LEMMA HandedLive ==
  ASSUME NEW D, Fit(D), NEW E, NEW s \in Sources, NEW c \in {NULL} \union Segs, NEW n \in Nat, Handed(E, D, s, c, n)
  PROVE  /\ Fit(E) /\ E.dl.tseg = NULL
         /\ \A g : Live(E, g) <=> Live(D, g)
         /\ \A g \in Segs : Live(D, g) =>
              Gave(Info(E, g), Info(D, g), Moves(g, D.src[s].ctx, c), IF g = c THEN n ELSE 0)
  <1>1. Fit(E) /\ E.dl.tseg = NULL /\ E.dl.beg = D.dl.beg /\ DOMAIN E.dl.segs = DOMAIN D.dl.segs
    BY DEF Handed, Near
  <1>2. \A g : (Live(E, g) <=> Live(D, g)) /\ At(E, g) = At(D, g)
    BY <1>1 DEF Live, At
  <1>3. ASSUME NEW g \in Segs, Live(D, g)
        PROVE  Gave(Info(E, g), Info(D, g), Moves(g, D.src[s].ctx, c), IF g = c THEN n ELSE 0)
    <2> DEFINE u == Info(D, g)
               v == Info(E, g)
               i == At(D, g)
               k == Moves(g, D.src[s].ctx, c)
               m == IF g = c THEN n ELSE 0
    <2>1. g \in Int
      BY Constants
    <2>2. i \in DOMAIN D.dl.segs /\ u = D.dl.segs[i] /\ u \in Infos /\ u.seg = g
      BY <1>3, <2>1, LiveFacts
    <2>3. v = E.dl.segs[i] /\ v \in Infos
      BY <1>1, <1>2, <1>3, <2>1, LiveFacts
    <2>4. v = Given(u, k, m)
      BY <2>2, <2>3 DEF Handed
    <2>5. k \in Int /\ m \in Nat
      BY DEF Moves
    <2> HIDE DEF u, v, i, k, m
    <2>7. /\ v.seg = u.seg /\ v.ready = u.ready /\ v.end = u.end /\ v.late = u.late /\ v.np2p = u.np2p
          /\ v.pos = u.pos + m /\ v.nsource = u.nsource + k
      <3>1. u \in Infos
        BY <2>2
      <3> QED
        BY <2>4, <2>5, <3>1, GivenFacts
    <2> QED
      BY <2>2, <2>3, <2>7 DEF u, v, k, m, Gave
  <1> QED
    BY <1>1, <1>2, <1>3

\* One source goes from segment x to segment c.
LEMMA CountMoves ==
  ASSUME NEW D, NEW E, NEW s \in Sources, NEW g \in Segs,
         \A t \in Sources : t # s => E.src[t] = D.src[t]
  PROVE  Workers(E, g) = Workers(D, g) + Moves(g, D.src[s].ctx, E.src[s].ctx) /\ Workers(D, g) \in Nat
  <1> DEFINE A == {t \in Sources : t # s /\ D.src[t].ctx = g}
             B == {t \in Sources : D.src[t].ctx = g}
             C == {t \in Sources : E.src[t].ctx = g}
  <1>1. IsFiniteSet(Sources)
    BY DownloadAssumption, FS_Union DEF Sources
  <1>2. A \subseteq Sources /\ s \notin A
    OBVIOUS
  <1>3. B = (IF D.src[s].ctx = g THEN A \union {s} ELSE A)
    OBVIOUS
  <1>4. C = (IF E.src[s].ctx = g THEN A \union {s} ELSE A)
    OBVIOUS
  <1> HIDE DEF A, B, C
  <1>5. IsFiniteSet(A) /\ Cardinality(A) \in Nat
    BY <1>1, <1>2, FS_Subset, FS_CardinalityType
  <1>6. Cardinality(A \union {s}) = Cardinality(A) + 1
    BY <1>2, <1>5, FS_AddElement
  <1>7. Workers(D, g) = Cardinality(B) /\ Workers(E, g) = Cardinality(C)
    BY DEF Workers, B, C
  <1> QED
    BY <1>3, <1>4, <1>5, <1>6, <1>7 DEF Moves

\* A source that asks for a task leaves a calm downloader.
LEMMA HandedCalm ==
  ASSUME NEW D, Calm(D), NEW E, NEW s \in Sources, NEW c \in {NULL} \union Segs, NEW n \in Nat, Handed(E, D, s, c, n)
  PROVE  Calm(E)
  <1>1. Fit(D) /\ Quiet(D) /\ Exact(D)
    BY DEF Calm
  <1>2. Fit(E) /\ E.dl.tseg = NULL
    BY <1>1, HandedLive
  <1>5. ASSUME NEW g \in Segs, Live(E, g)
        PROVE  /\ Live(D, g) /\ Info(E, g).late = Info(D, g).late /\ Info(E, g).np2p = Info(D, g).np2p
               /\ Info(E, g).nsource = Info(D, g).nsource + Moves(g, D.src[s].ctx, c)
    <2>1. Live(D, g)
      BY <1>1, <1>5, HandedLive
    <2>2. Gave(Info(E, g), Info(D, g), Moves(g, D.src[s].ctx, c), IF g = c THEN n ELSE 0)
      BY <1>1, <2>1, HandedLive
    <2> QED
      BY <2>1, <2>2 DEF Gave
  <1>3. Quiet(E)
    <2>1. \A g \in Segs : Live(E, g) => Info(E, g).late = {} /\ Info(E, g).np2p = 0
      BY <1>1, <1>5, QuietLive
    <2> QED
      BY <1>2, <2>1, QuietLive
  <1>4. Exact(E)
    <2> SUFFICES ASSUME NEW g \in Segs, Live(E, g) PROVE Info(E, g).nsource = Workers(E, g)
      BY DEF Exact
    <2>1. Live(D, g) /\ Info(E, g).nsource = Info(D, g).nsource + Moves(g, D.src[s].ctx, c)
      BY <1>5
    <2>2. Info(D, g).nsource = Workers(D, g)
      BY <1>1, <2>1 DEF Exact
    <2>3. (\A t \in Sources : t # s => E.src[t] = D.src[t]) /\ E.src[s].ctx = c
      BY DEF Handed, Near
    <2>4. Workers(E, g) = Workers(D, g) + Moves(g, D.src[s].ctx, c)
      <3>1. \A t \in Sources : t # s => E.src[t] = D.src[t]
        BY <2>3
      <3>2. Workers(E, g) = Workers(D, g) + Moves(g, D.src[s].ctx, E.src[s].ctx)
        BY <3>1, CountMoves
      <3> QED
        BY <2>3, <3>2
    <2> QED
      BY <2>1, <2>2, <2>4
  <1> QED
    BY <1>2, <1>3, <1>4 DEF Calm

-----------------------------------------------------------------------------
(* Where the pieces are *)

\* Without a disk cache, and with a sink that is only moved to the beginning of segments.
Regular == ~DiskCache /\ \A p \in SeekTo : OffOf(p) = 0

\* The pieces asked of a source.
Want(D, s) == ToSet(D.src[s].queue)

\* A segment of the window is as long as is known of it (k: the segments of known size).
Sized(D, k) ==
  \A g \in Segs : Live(D, g) => Info(D, g).ready = (g \in k) /\ Info(D, g).end = piece_count(g, k)

\* Nothing ahead of the position of a segment is there (h: the pieces that are there).
Ahead(D, h) ==
  \A x \in Ids :
    Live(D, SegOf(x)) /\ Info(D, SegOf(x)).pos <= OffOf(x) /\ OffOf(x) < Info(D, SegOf(x)).end => x \notin h

\* What the position has passed is there or asked for (sv: the saved segments).
Passed(D, sv, h) ==
  \A x \in Ids :
    Exists(x) /\ Live(D, SegOf(x)) /\ SegOf(x) \notin sv /\ OffOf(x) < Info(D, SegOf(x)).pos
      => x \in h \/ \E s \in Sources : x \in Want(D, s)

\* A source that does nothing has nothing to do, one that reads knows what it reads.
Stands(D, m) ==
  \A s \in Sources :
    /\ D.src[s].st \in {"m3u8", "idle"} => D.src[s].queue = <<>>
    /\ D.src[s].st = "read" /\ D.src[s].queue # <<>> => SegOf(Head(D.src[s].queue)) \in m

\* What is asked of a source is of its segment, behind the position and not there.
Queued(D, h) ==
  \A s \in Sources : \A x \in Want(D, s) :
    SegOf(x) = D.src[s].ctx /\ OffOf(x) < Info(D, SegOf(x)).pos /\ x \notin h

Sorted(D) ==
  \A s \in Sources : \A j, k \in DOMAIN D.src[s].queue : j < k => D.src[s].queue[j] < D.src[s].queue[k]

Disjoint(D) == \A s, t \in Sources : s # t => \A x \in Want(D, s) : x \notin Want(D, t)

\* Only pieces that exist are there, and the size of their segment is known.
There(m, h) == \A x \in h : x \in Ids /\ Exists(x) /\ SegOf(x) \in m

\* All pieces of the segment of x are there.
Entire(h, x) == \A y \in Ids : SegOf(y) = SegOf(x) /\ Exists(y) => y \in h

\* A segment outside the window is there as a whole or not at all, unless it is saved
\* or the interval lo .. hi - 1 is kept.
Whole(D, sv, h, lo, hi) ==
  \A x \in h : (lo <= x /\ x < hi) \/ Live(D, SegOf(x)) \/ SegOf(x) \in sv \/ Entire(h, x)

Pieces(D, k, m, sv, h, lo, hi) ==
  /\ Sized(D, k) /\ Ahead(D, h) /\ Passed(D, sv, h)
  /\ Stands(D, m) /\ Queued(D, h) /\ Sorted(D) /\ Disjoint(D)
  /\ There(m, h) /\ Whole(D, sv, h, lo, hi)

\* A position is in one place only.
LEMMA OnePlace ==
  ASSUME NEW c \in Segs, NEW o \in 0 .. SegPos - 1
  PROVE  SegOf(c * SegPos + o) = c /\ OffOf(c * SegPos + o) = o
  <1> DEFINE x == c * SegPos + o
             d == SegOf(x)
             p == OffOf(x)
             a == c * SegPos
             b == d * SegPos
  <1>1. x \in Ids /\ a \in Nat /\ c \in Nat /\ o \in Nat /\ o < SegPos /\ SegPos \in Nat
    <2>1. x \in Ids /\ a \in Nat
      BY Places
    <2> HIDE DEF x, a
    <2>2. c \in Nat /\ SegPos \in Nat
      BY Constants
    <2> QED
      BY <2>1, <2>2
  <1> HIDE DEF x
  <1>2. d \in Nat /\ p \in Nat /\ p < SegPos /\ x = b + p /\ b \in Nat
    BY <1>1, Placed, Constants
  <1> HIDE DEF d, p
  <1>3. c < d => a + SegPos <= b
    BY <1>1, <1>2, Products
  <1>4. d < c => b + SegPos <= a
    BY <1>1, <1>2, Products
  <1>5. x = a + o
    BY DEF x
  <1> HIDE DEF a, b
  <1>6. ~(c < d) /\ ~(d < c)
    BY <1>1, <1>2, <1>3, <1>4, <1>5
  <1>7. c = d
    BY <1>1, <1>2, <1>6
  <1>8. a = b
    BY <1>7 DEF a, b
  <1>9. p = o
    BY <1>1, <1>2, <1>5, <1>8
  <1> QED
    BY <1>7, <1>9 DEF d, p, x

\* The places of a row.
LEMMA RowFacts ==
  ASSUME NEW c \in Segs, NEW o \in Nat, NEW n \in Nat, n # 0, o + n <= SegPos
  PROVE  LET q == Row(c, o, n)
         IN  /\ q \in Seq(Ids) /\ q # <<>> /\ Head(q) \in ToSet(q)
             /\ \A j, k \in DOMAIN q : j < k => q[j] < q[k]
             /\ ToSet(q) \subseteq Ids
             /\ \A x \in Ids : x \in ToSet(q) <=> SegOf(x) = c /\ o <= OffOf(x) /\ OffOf(x) < o + n
  <1> DEFINE q == Row(c, o, n)
             a == c * SegPos
  <1>1. c \in Nat /\ a \in Nat /\ SegPos \in Nat /\ SegPos >= 1
    BY Constants, Products
  <1>2. DOMAIN q = 1 .. n /\ q = [i \in 1 .. n |-> q[i]]
    BY DEF Row
  <1>3. ASSUME NEW i \in 1 .. n
        PROVE  q[i] = a + (o + i - 1) /\ o + i - 1 \in 0 .. SegPos - 1 /\ q[i] \in Ids
               /\ SegOf(q[i]) = c /\ OffOf(q[i]) = o + i - 1
    <2>1. q[i] = a + o + (i - 1)
      BY DEF Row
    <2> HIDE DEF q, a
    <2>2. q[i] = a + (o + i - 1) /\ o + i - 1 \in 0 .. SegPos - 1
      BY <1>1, <2>1
    <2> DEFINE p == o + i - 1
    <2> HIDE DEF p
    <2>3. q[i] = c * SegPos + p /\ p \in 0 .. SegPos - 1
      BY <2>2 DEF p, a
    <2>4. q[i] \in Ids /\ SegOf(q[i]) = c /\ OffOf(q[i]) = p
      BY <2>3, Places, OnePlace
    <2> QED
      BY <2>2, <2>4 DEF p
  <1> HIDE DEF q, a
  <1>4. q \in Seq(Ids) /\ q # <<>> /\ Head(q) \in ToSet(q)
    <2>1. q \in Seq(Ids)
      BY <1>2, <1>3
    <2>2. 1 \in DOMAIN q
      BY <1>2
    <2>3. q # <<>> /\ Head(q) = q[1]
      BY <2>1, <2>2
    <2> QED
      BY <2>1, <2>2, <2>3 DEF ToSet
  <1>5. \A j, k \in DOMAIN q : j < k => q[j] < q[k]
    <2> TAKE j, k \in DOMAIN q
    <2>1. j \in 1 .. n /\ k \in 1 .. n
      BY <1>2
    <2>2. q[j] = a + (o + j - 1) /\ q[k] = a + (o + k - 1)
      BY <1>3, <2>1
    <2> QED
      BY <1>1, <2>1, <2>2
  <1>6. ToSet(q) \subseteq Ids
    BY <1>2, <1>3 DEF ToSet
  <1>7. ASSUME NEW x \in Ids, x \in ToSet(q) PROVE SegOf(x) = c /\ o <= OffOf(x) /\ OffOf(x) < o + n
    <2>1. PICK i \in 1 .. n : x = q[i]
      BY <1>2, <1>7 DEF ToSet
    <2>2. SegOf(x) = c /\ OffOf(x) = o + i - 1
      BY <1>3, <2>1
    <2> QED
      BY <2>2
  <1>8. ASSUME NEW x \in Ids, SegOf(x) = c, o <= OffOf(x), OffOf(x) < o + n PROVE x \in ToSet(q)
    <2> DEFINE p == OffOf(x)
               i == p - o + 1
    <2>1. p \in Nat /\ x = a + p
      BY <1>8, Placed, Constants DEF a
    <2>2. o <= p /\ p < o + n
      BY <1>8
    <2> HIDE DEF p
    <2>3. i \in 1 .. n /\ o + i - 1 = p
      BY <2>1, <2>2
    <2> HIDE DEF i
    <2>4. q[i] = x
      BY <1>3, <2>1, <2>3
    <2> QED
      BY <1>2, <2>3, <2>4 DEF ToSet
  <1> QED
    BY <1>4, <1>5, <1>6, <1>7, <1>8 DEF q

\* The source s received n pieces of segment c, from its position on.
Received(E, D, s, c, n) ==
  /\ \A t \in Sources : t # s => Want(E, t) = Want(D, t)
  /\ Want(D, s) = {}
  /\ n = 0 => E.src[s].queue = <<>> /\ Want(E, s) = {} /\ E.src[s].st = D.src[s].st
  /\ n # 0 => /\ c \in Segs /\ Live(D, c) /\ E.src[s].st = "open"
              /\ Info(D, c).pos \in Nat /\ Info(D, c).pos + n <= Info(D, c).end /\ Info(D, c).end <= SegPos
              /\ \A j, k \in DOMAIN E.src[s].queue : j < k => E.src[s].queue[j] < E.src[s].queue[k]
              /\ Want(E, s) \subseteq Ids
              /\ \A x \in Ids : x \in Want(E, s) <=>
                   SegOf(x) = c /\ Info(D, c).pos <= OffOf(x) /\ OffOf(x) < Info(D, c).pos + n

\* What a source that was served got.
LEMMA HandedWants ==
  ASSUME NEW D, Fit(D), NEW E, NEW s \in Sources, NEW c \in {NULL} \union Segs, NEW n \in Nat, Handed(E, D, s, c, n),
         D.src[s].queue = <<>>
  PROVE  Received(E, D, s, c, n)
  <1>1. \A t \in Sources : t # s => Want(E, t) = Want(D, t)
    BY DEF Handed, Near, Want
  <1>2. Want(D, s) = {}
    BY DEF Want, ToSet
  <1>3. CASE n = 0
    <2>1. E.src[s].queue = <<>> /\ E.src[s].st = D.src[s].st
      BY <1>3 DEF Handed
    <2>2. Want(E, s) = {}
      BY <2>1 DEF Want, ToSet
    <2> QED
      BY <1>1, <1>2, <1>3, <2>1, <2>2 DEF Received
  <1>4. CASE n # 0
    <2> DEFINE u == Info(D, c)
               q == Row(c, u.pos, n)
    <2>1. c \in Segs /\ Live(D, c) /\ E.src[s].st = "open" /\ E.src[s].queue = q /\ u.pos + n <= u.end
      BY <1>4 DEF Handed
    <2>2. c \in Int /\ SegPos \in Nat
      BY <2>1, Constants
    <2>3. u \in Infos
      BY <2>1, <2>2, LiveFacts
    <2>4. u.pos \in Nat /\ u.end <= SegPos /\ u.end \in Nat
      <3> HIDE DEF u
      <3> QED
        BY <2>2, <2>3 DEF Infos
    <2> DEFINE o == u.pos
    <2>5. o \in Nat /\ o + n <= SegPos
      BY <2>1, <2>2, <2>4
    <2> HIDE DEF u, q, o
    <2>6. /\ \A j, k \in DOMAIN q : j < k => q[j] < q[k]
          /\ ToSet(q) \subseteq Ids
          /\ \A x \in Ids : x \in ToSet(q) <=> SegOf(x) = c /\ o <= OffOf(x) /\ OffOf(x) < o + n
      BY <1>4, <2>1, <2>5, RowFacts DEF q, o
    <2>7. Want(E, s) = ToSet(q)
      BY <2>1 DEF Want
    <2> QED
      BY <1>1, <1>2, <1>4, <2>1, <2>4, <2>6, <2>7 DEF o, u, q, Received
  <1> QED
    BY <1>3, <1>4

\* A source that asks for a task leaves the pieces where they ought to be.
LEMMA HandedPieces ==
  ASSUME NEW D, Fit(D), NEW E, NEW s \in Sources, NEW c \in {NULL} \union Segs, NEW n \in Nat, Handed(E, D, s, c, n),
         D.src[s].st = "idle", NEW k, NEW m, NEW sv, NEW h, NEW lo, NEW hi, Pieces(D, k, m, sv, h, lo, hi)
  PROVE  Pieces(E, k, m, sv, h, lo, hi)
  <1>1. /\ Sized(D, k) /\ Ahead(D, h) /\ Passed(D, sv, h)
        /\ Stands(D, m) /\ Queued(D, h) /\ Sorted(D) /\ Disjoint(D)
        /\ There(m, h) /\ Whole(D, sv, h, lo, hi)
    BY DEF Pieces
  <1>2. D.src[s].queue = <<>>
    BY <1>1 DEF Stands
  <1>3. \A g : Live(E, g) <=> Live(D, g)
    BY HandedLive
  <1>4. ASSUME NEW g \in Segs, Live(D, g)
        PROVE  /\ Info(E, g).ready = Info(D, g).ready /\ Info(E, g).end = Info(D, g).end
               /\ Info(E, g).pos = (IF g = c THEN Info(D, g).pos + n ELSE Info(D, g).pos)
               /\ Info(D, g).pos \in Nat /\ Info(D, g).pos <= Info(E, g).pos
    <2>1. Gave(Info(E, g), Info(D, g), Moves(g, D.src[s].ctx, c), IF g = c THEN n ELSE 0)
      BY <1>4, HandedLive
    <2> DEFINE u == Info(D, g)
               v == Info(E, g)
    <2>2. u \in Infos /\ v.pos = u.pos + (IF g = c THEN n ELSE 0) /\ v.ready = u.ready /\ v.end = u.end
      BY <2>1 DEF Gave
    <2> HIDE DEF u, v
    <2>3. u.pos \in Nat
      BY <2>2, Constants DEF Infos
    <2> QED
      BY <2>2, <2>3 DEF u, v
  <1>0. Received(E, D, s, c, n)
    BY <1>2, HandedWants
  <1>5. /\ \A t \in Sources : t # s => Want(E, t) = Want(D, t) /\ E.src[t] = D.src[t]
        /\ Want(D, s) = {}
    BY <1>0 DEF Handed, Near, Received
  <1>6. n = 0 => E.src[s].queue = <<>> /\ Want(E, s) = {} /\ E.src[s].st = D.src[s].st
    BY <1>0 DEF Received
  <1>7. n # 0 => /\ c \in Segs /\ Live(D, c) /\ E.src[s].st = "open"
                 /\ Info(D, c).pos + n <= Info(D, c).end
                 /\ \A j, i \in DOMAIN E.src[s].queue : j < i => E.src[s].queue[j] < E.src[s].queue[i]
                 /\ Want(E, s) \subseteq Ids
                 /\ \A x \in Ids : x \in Want(E, s) <=>
                      SegOf(x) = c /\ Info(D, c).pos <= OffOf(x) /\ OffOf(x) < Info(D, c).pos + n
    BY <1>0 DEF Received
  <1>8. \A x \in Ids : SegOf(x) \in Segs /\ OffOf(x) \in Nat
    BY Placed, Constants
  <1>9. \A t \in Sources : Want(D, t) \subseteq Ids /\ Want(E, t) \subseteq Ids
    <2> TAKE t \in Sources
    <2>1. Fit(E)
      BY HandedLive
    <2>2. D.src[t] \in SourceType /\ E.src[t] \in SourceType
      BY <2>1, WindowFacts
    <2>3. D.src[t].queue \in Seq(Ids) /\ E.src[t].queue \in Seq(Ids)
      BY <2>2 DEF SourceType
    <2> QED
      BY <2>3 DEF Want, ToSet
  <1>10. E.src[s].ctx = c
    BY DEF Handed
  <1>11. Sized(E, k)
    BY <1>1, <1>3, <1>4 DEF Sized
  <1>12. Ahead(E, h)
    <2> SUFFICES ASSUME NEW x \in Ids, Live(E, SegOf(x)), Info(E, SegOf(x)).pos <= OffOf(x),
                        OffOf(x) < Info(E, SegOf(x)).end
                 PROVE  x \notin h
      BY DEF Ahead
    <2> DEFINE g == SegOf(x)
    <2>1. g \in Segs /\ Live(D, g) /\ OffOf(x) \in Nat
      BY <1>3, <1>8
    <2>2. Info(D, g).pos <= OffOf(x) /\ OffOf(x) < Info(D, g).end
      <3> HIDE DEF g
      <3>1. Info(D, g).pos \in Nat /\ Info(D, g).pos <= Info(E, g).pos /\ Info(E, g).end = Info(D, g).end
            /\ Info(E, g).pos \in Nat
        BY <1>4, <2>1
      <3> QED
        BY <2>1, <3>1 DEF g
    <2> QED
      BY <1>1, <2>1, <2>2 DEF Ahead
  <1>13. Passed(E, sv, h)
    <2> SUFFICES ASSUME NEW x \in Ids, Exists(x), Live(E, SegOf(x)), SegOf(x) \notin sv,
                        OffOf(x) < Info(E, SegOf(x)).pos
                 PROVE  x \in h \/ \E t \in Sources : x \in Want(E, t)
      BY DEF Passed
    <2> DEFINE g == SegOf(x)
               o == OffOf(x)
    <2>1. g \in Segs /\ Live(D, g) /\ o \in Nat
      BY <1>3, <1>8
    <2>2. CASE o < Info(D, g).pos
      <3>1. x \in h \/ \E t \in Sources : x \in Want(D, t)
        BY <1>1, <2>1, <2>2 DEF Passed
      <3> QED
        BY <1>5, <3>1
    <2>3. CASE ~(o < Info(D, g).pos)
      <3> HIDE DEF g, o
      <3>1. o < Info(E, g).pos
        BY DEF g, o
      <3>2. g = c /\ n # 0 /\ Info(D, g).pos <= o /\ o < Info(D, g).pos + n
        BY <1>4, <2>1, <2>3, <3>1
      <3>3. x \in Want(E, s)
        BY <1>7, <3>2 DEF g, o
      <3> QED
        BY <3>3
    <2> QED
      BY <2>2, <2>3
  <1>14. Stands(E, m)
    <2> SUFFICES ASSUME NEW t \in Sources
                 PROVE  /\ E.src[t].st \in {"m3u8", "idle"} => E.src[t].queue = <<>>
                        /\ E.src[t].st = "read" /\ E.src[t].queue # <<>> => SegOf(Head(E.src[t].queue)) \in m
      BY DEF Stands
    <2>1. CASE t # s
      BY <1>1, <1>5, <2>1 DEF Stands
    <2>2. CASE t = s
      BY <1>6, <1>7, <2>2
    <2> QED
      BY <2>1, <2>2
  <1>15. Queued(E, h)
    <2> SUFFICES ASSUME NEW t \in Sources, NEW x \in Want(E, t)
                 PROVE  SegOf(x) = E.src[t].ctx /\ OffOf(x) < Info(E, SegOf(x)).pos /\ x \notin h
      BY DEF Queued
    <2>0. x \in Ids
      BY <1>9
    <2> DEFINE g == SegOf(x)
               o == OffOf(x)
    <2>1. g \in Segs /\ o \in Nat
      BY <1>8, <2>0
    <2>2. CASE t # s
      <3>1. g = D.src[t].ctx /\ o < Info(D, g).pos /\ x \notin h /\ D.src[t] = E.src[t]
        BY <1>1, <1>5, <2>2 DEF Queued
      <3> HIDE DEF g, o
      <3>2. Live(D, g)
        <4>1. g >= 0
          BY <2>1, Constants
        <4> QED
          BY <3>1, <4>1 DEF Fit
      <3>3. o < Info(E, g).pos
        <4>1. Info(D, g).pos \in Nat /\ Info(D, g).pos <= Info(E, g).pos /\ Info(E, g).pos \in Nat
          BY <1>4, <2>1, <3>2
        <4> QED
          BY <2>1, <3>1, <4>1
      <3> QED
        BY <3>1, <3>3 DEF g, o
    <2>3. CASE t = s
      <3>1. n # 0 /\ g = c /\ Info(D, c).pos <= o /\ o < Info(D, c).pos + n /\ Live(D, c) /\ c \in Segs
            /\ Info(D, c).pos + n <= Info(D, c).end
        BY <1>6, <1>7, <2>0, <2>3
      <3> HIDE DEF g, o
      <3>2. Info(E, c).pos = Info(D, c).pos + n /\ Info(E, c).end = Info(D, c).end /\ Info(D, c).pos \in Nat
        BY <1>4, <3>1
      <3>3. Info(D, c).end \in Nat
        <4>1. Info(D, c) \in Infos
          BY <3>1, LiveFacts, Constants
        <4> QED
          BY <4>1, Constants DEF Infos
      <3>4. o < Info(D, c).end
        BY <2>1, <3>1, <3>2, <3>3
      <3>5. x \notin h
        BY <1>1, <2>0, <3>1, <3>4 DEF Ahead, g, o
      <3> QED
        BY <1>10, <2>3, <3>1, <3>2, <3>5 DEF g, o
    <2> QED
      BY <2>2, <2>3
  <1>16. Sorted(E)
    <2> SUFFICES ASSUME NEW t \in Sources, NEW j \in DOMAIN E.src[t].queue, NEW i \in DOMAIN E.src[t].queue, j < i
                 PROVE  E.src[t].queue[j] < E.src[t].queue[i]
      BY DEF Sorted
    <2>1. CASE t # s
      BY <1>1, <1>5, <2>1 DEF Sorted
    <2>2. CASE t = s
      BY <1>6, <1>7, <2>2
    <2> QED
      BY <2>1, <2>2
  <1>17. \A t \in Sources \ {s} : \A x \in Want(E, t) : x \notin Want(E, s)
    <2> SUFFICES ASSUME NEW t \in Sources, t # s, NEW x \in Want(E, t), x \in Want(E, s) PROVE FALSE
      OBVIOUS
    <2>0. x \in Ids /\ SegOf(x) \in Segs /\ OffOf(x) \in Nat
      BY <1>8, <1>9
    <2>1. OffOf(x) < Info(D, SegOf(x)).pos
      BY <1>1, <1>5 DEF Queued
    <2>2. n # 0 /\ SegOf(x) = c /\ Info(D, c).pos <= OffOf(x) /\ c \in Segs /\ Live(D, c)
      BY <1>6, <1>7, <2>0
    <2>3. Info(D, c).pos \in Nat
      BY <1>4, <2>2
    <2> DEFINE p == Info(D, c).pos
    <2>4. p \in Nat /\ p <= OffOf(x) /\ OffOf(x) < p
      BY <2>1, <2>2, <2>3
    <2> HIDE DEF p
    <2> QED
      BY <2>0, <2>4
  <1>18. Disjoint(E)
    <2> SUFFICES ASSUME NEW t \in Sources, NEW r \in Sources, t # r, NEW x \in Want(E, t), x \in Want(E, r) PROVE FALSE
      BY DEF Disjoint
    <2>1. CASE t = s
      BY <1>17, <2>1
    <2>2. CASE r = s
      BY <1>17, <2>2
    <2>3. CASE t # s /\ r # s
      BY <1>1, <1>5, <2>3 DEF Disjoint
    <2> QED
      BY <2>1, <2>2, <2>3
  <1>19. Whole(E, sv, h, lo, hi)
    BY <1>1, <1>3 DEF Whole
  <1> QED
    BY <1>1, <1>11, <1>12, <1>13, <1>14, <1>15, <1>16, <1>18, <1>19 DEF Pieces

\* What the next theorems keep of a downloader.
Good(D, k, m, sv, h, lo, hi) == Calm(D) /\ (Regular => Pieces(D, k, m, sv, h, lo, hi))

\* A source asks for a task.
LEMMA ReadyGood ==
  ASSUME Peers = {}, NEW k, NEW m, NEW sv, NEW h, NEW lo, NEW hi, NEW D, Good(D, k, m, sv, h, lo, hi), NEW s \in Sources
  PROVE  Good(on_ready(D, s), k, m, sv, h, lo, hi)
  <1>1. Calm(D) /\ Fit(D) /\ Quiet(D) /\ (Regular => Pieces(D, k, m, sv, h, lo, hi))
    BY DEF Good, Calm
  <1>2. CASE D.src[s].st # "idle"
    <2>1. on_ready(D, s) = D
      BY <1>1, <1>2, HandedFacts
    <2> QED
      BY <2>1
  <1>3. CASE D.src[s].st = "idle"
    <2> DEFINE E == on_ready(D, s)
    <2>1. PICK c \in {NULL} \union Segs : \E n \in Nat : Handed(E, D, s, c, n)
      BY <1>1, <1>3, HandedFacts
    <2>2. PICK n \in Nat : Handed(E, D, s, c, n)
      BY <2>1
    <2> HIDE DEF E
    <2>3. Calm(E)
      BY <1>1, <2>2, HandedCalm
    <2>4. Regular => Pieces(E, k, m, sv, h, lo, hi)
      BY <1>1, <1>3, <2>2, HandedPieces
    <2> QED
      BY <2>3, <2>4 DEF Good, E
  <1> QED
    BY <1>2, <1>3

\* Some sources are served.
LEMMA ServedGood ==
  ASSUME Peers = {}, NEW k, NEW m, NEW sv, NEW h, NEW lo, NEW hi, NEW D, Good(D, k, m, sv, h, lo, hi), NEW c,
         order \in Seq(Sources)
  PROVE  Good(ServeAll(D, c), k, m, sv, h, lo, hi)
  <1> DEFINE W == {F \in Worlds : Good(F, k, m, sv, h, lo, hi)}
  <1>0. \A F : Good(F, k, m, sv, h, lo, hi) => F \in W
    BY DEF Good, Calm, Fit
  <1>1. \A F \in W : \A s \in Sources : Serve(F, c, s) \in W
    <2> TAKE F \in W
    <2> TAKE s \in Sources
    <2>1. Good(on_ready(F, s), k, m, sv, h, lo, hi)
      BY ReadyGood
    <2>2. Serve(F, c, s) = on_ready(F, s) \/ Serve(F, c, s) = F
      BY DEF Serve
    <2> QED
      BY <1>0, <2>1, <2>2
  <1>2. D \in W
    BY <1>0
  <1> HIDE DEF W
  <1>3. ServeAll(D, c) \in W
    BY <1>1, <1>2, ServeAllKeeps
  <1> QED
    BY <1>3 DEF W

\* What changes when a source keeps its segment.
LEMMA SameSegment ==
  ASSUME Peers = {}, NEW D, Fit(D), NEW s \in Sources, NEW w \in SourceType, w.ctx = D.src[s].ctx
  PROVE  LET E == PutSrc(D, s, w)
         IN  Fit(E) /\ E.dl = D.dl /\ E.src[s] = w /\ \A t \in Sources : t # s => E.src[t] = D.src[t]
  <1>1. w.ctx >= 0 => Live(D, w.ctx)
    BY DEF Fit
  <1> QED
    BY <1>1, SrcPut

\* A source changes, but not its segment and its queue.
LEMMA SourceGood ==
  ASSUME NEW k, NEW m, NEW n, NEW sv, NEW h, NEW lo, NEW hi, NEW D, Good(D, k, m, sv, h, lo, hi), m \subseteq n,
         Peers = {}, NEW s \in Sources, NEW w \in SourceType, w.ctx = D.src[s].ctx, w.queue = D.src[s].queue,
         Regular => /\ w.st \in {"m3u8", "idle"} => w.queue = <<>>
                    /\ w.st = "read" /\ w.queue # <<>> => SegOf(Head(w.queue)) \in n
  PROVE  Good(PutSrc(D, s, w), k, n, sv, h, lo, hi)
  <1> DEFINE E == PutSrc(D, s, w)
  <1>1. Calm(D) /\ Fit(D) /\ Quiet(D) /\ Exact(D)
    BY DEF Good, Calm
  <1>3. Fit(E) /\ E.dl = D.dl /\ E.src[s] = w /\ \A t \in Sources : t # s => E.src[t] = D.src[t]
    BY <1>1, SameSegment
  <1> HIDE DEF E
  <1>4. \A g : (Live(E, g) <=> Live(D, g)) /\ Info(E, g) = Info(D, g)
    BY <1>3 DEF Live, Info, At
  <1>5. \A t \in Sources : E.src[t].ctx = D.src[t].ctx /\ E.src[t].queue = D.src[t].queue /\ Want(E, t) = Want(D, t)
    BY <1>3 DEF Want
  <1>6. \A g : Workers(E, g) = Workers(D, g)
    BY <1>5 DEF Workers
  <1>7. Calm(E)
    BY <1>1, <1>3, <1>4, <1>6 DEF Calm, Quiet, Exact
  <1>8. ASSUME Regular PROVE Pieces(E, k, n, sv, h, lo, hi)
    <2>1. /\ Sized(D, k) /\ Ahead(D, h) /\ Passed(D, sv, h)
          /\ Stands(D, m) /\ Queued(D, h) /\ Sorted(D) /\ Disjoint(D)
          /\ There(m, h) /\ Whole(D, sv, h, lo, hi)
      BY <1>8 DEF Pieces, Good
    <2>2. Sized(E, k) /\ Ahead(E, h)
      BY <1>4, <2>1 DEF Sized, Ahead
    <2>3. Passed(E, sv, h)
      BY <1>4, <1>5, <2>1 DEF Passed
    <2>4. Stands(E, n)
      <3> SUFFICES ASSUME NEW t \in Sources
                   PROVE  /\ E.src[t].st \in {"m3u8", "idle"} => E.src[t].queue = <<>>
                          /\ E.src[t].st = "read" /\ E.src[t].queue # <<>> => SegOf(Head(E.src[t].queue)) \in n
        BY DEF Stands
      <3>1. CASE t = s
        BY <1>3, <1>8, <3>1
      <3>2. CASE t # s
        BY <1>3, <2>1, <3>2 DEF Stands
      <3> QED
        BY <3>1, <3>2
    <2>5. Queued(E, h)
      BY <1>4, <1>5, <2>1 DEF Queued
    <2>6. Sorted(E) /\ Disjoint(E)
      BY <1>5, <2>1 DEF Sorted, Disjoint
    <2>7. There(n, h) /\ Whole(E, sv, h, lo, hi)
      BY <1>4, <2>1 DEF There, Whole
    <2> QED
      BY <2>2, <2>3, <2>4, <2>5, <2>6, <2>7 DEF Pieces
  <1> QED
    BY <1>7, <1>8 DEF Good, E

\* The first piece that is asked of a source arrives.
LEMMA PieceGood ==
  ASSUME NEW k, NEW m, NEW sv, NEW h, NEW lo, NEW hi, NEW D, Good(D, k, m, sv, h, lo, hi), Peers = {},
         NEW s \in Sources, D.src[s].st = "read", D.src[s].queue # <<>>, Exists(Head(D.src[s].queue)),
         NEW w, w = [D.src[s] EXCEPT !.queue = Tail(D.src[s].queue)]
  PROVE  Good(PutSrc(D, s, w), k, m, sv, h \union {Head(D.src[s].queue)}, lo, hi)
  <1> DEFINE E == PutSrc(D, s, w)
             q == D.src[s].queue
             r == Tail(q)
             y == Head(q)
             i == h \union {y}
  <1>1. Calm(D) /\ Fit(D) /\ Quiet(D) /\ Exact(D)
    BY DEF Good, Calm
  <1>2. D.src[s] \in SourceType /\ q \in Seq(Ids) /\ q # <<>>
    <2>1. D.src[s] \in SourceType
      BY <1>1, WindowFacts
    <2> QED
      BY <2>1 DEF SourceType
  <1>3. /\ r \in Seq(Ids) /\ y \in Ids /\ y = q[1] /\ 1 \in DOMAIN q
        /\ \A a \in DOMAIN r : r[a] = q[a + 1] /\ a + 1 \in DOMAIN q /\ a \in Nat /\ a >= 1
        /\ \A a \in DOMAIN q : a = 1 \/ (a - 1 \in DOMAIN r /\ q[a] = r[a - 1])
    <2> HIDE DEF q
    <2>1. Len(q) \in Nat /\ Len(q) >= 1 /\ DOMAIN q = 1 .. Len(q)
      BY <1>2
    <2>2. r \in Seq(Ids) /\ Len(r) = Len(q) - 1 /\ DOMAIN r = 1 .. Len(q) - 1 /\ \A a \in 1 .. Len(q) - 1 : r[a] = q[a + 1]
      BY <1>2, <2>1
    <2>3. y = q[1] /\ y \in Ids
      BY <1>2, <2>1
    <2> HIDE DEF r, y
    <2>4. \A a \in DOMAIN r : r[a] = q[a + 1] /\ a + 1 \in DOMAIN q /\ a \in Nat /\ a >= 1
      BY <2>1, <2>2
    <2>5. ASSUME NEW a \in DOMAIN q PROVE a = 1 \/ (a - 1 \in DOMAIN r /\ q[a] = r[a - 1])
      <3>1. a \in Nat /\ (a = 1 \/ a - 1 \in 1 .. Len(q) - 1) /\ (a - 1) + 1 = a
        BY <2>1
      <3> QED
        BY <2>2, <3>1
    <2>6. 1 \in DOMAIN q
      BY <2>1
    <2> QED
      BY <2>2, <2>3, <2>4, <2>5, <2>6
  <1> HIDE DEF q, r, y
  <1>4. ToSet(q) = ToSet(r) \union {y}
    <2>1. \A x \in ToSet(q) : x = y \/ x \in ToSet(r)
      BY <1>3 DEF ToSet
    <2>2. \A x \in ToSet(r) : x \in ToSet(q)
      BY <1>3 DEF ToSet
    <2>3. y \in ToSet(q)
      BY <1>3 DEF ToSet
    <2> QED
      BY <2>1, <2>2, <2>3
  <1>5. w \in SourceType /\ w.ctx = D.src[s].ctx /\ w.queue = r /\ w.st = "read"
    <2> DEFINE u == D.src[s]
    <2>1. u \in SourceType /\ w = [u EXCEPT !.queue = r] /\ u.st = "read"
      BY <1>2 DEF r, q
    <2> HIDE DEF u
    <2>2. w \in SourceType /\ w.ctx = u.ctx /\ w.queue = r /\ w.st = "read"
      BY <1>3, <2>1 DEF SourceType
    <2> QED
      BY <2>2 DEF u
  <1>7. Fit(E) /\ E.dl = D.dl /\ E.src[s] = w /\ \A t \in Sources : t # s => E.src[t] = D.src[t]
    <2>1. Fit(D) /\ w \in SourceType /\ w.ctx = D.src[s].ctx
      BY <1>1, <1>5
    <2> QED
      BY <2>1, SameSegment, ZenonT(60)
  <1> HIDE DEF E
  <1>8. \A g : (Live(E, g) <=> Live(D, g)) /\ Info(E, g) = Info(D, g)
    BY <1>7 DEF Live, Info, At
  <1>9. /\ \A t \in Sources : E.src[t].ctx = D.src[t].ctx
        /\ \A t \in Sources : t # s => E.src[t].queue = D.src[t].queue /\ Want(E, t) = Want(D, t)
        /\ Want(E, s) = ToSet(r) /\ Want(D, s) = ToSet(r) \union {y}
    BY <1>4, <1>5, <1>7 DEF Want, q
  <1>10. \A g : Workers(E, g) = Workers(D, g)
    BY <1>9 DEF Workers
  <1>11. Calm(E)
    BY <1>1, <1>7, <1>8, <1>10 DEF Calm, Quiet, Exact
  <1>12. ASSUME Regular PROVE Pieces(E, k, m, sv, i, lo, hi)
    <2>1. /\ Sized(D, k) /\ Ahead(D, h) /\ Passed(D, sv, h)
          /\ Stands(D, m) /\ Queued(D, h) /\ Sorted(D) /\ Disjoint(D)
          /\ There(m, h) /\ Whole(D, sv, h, lo, hi)
      BY <1>12 DEF Pieces, Good
    <2>2. /\ SegOf(y) = D.src[s].ctx /\ OffOf(y) < Info(D, SegOf(y)).pos /\ Exists(y) /\ SegOf(y) \in m
          /\ SegOf(y) \in Segs /\ OffOf(y) \in Nat
      <3>1. SegOf(y) \in m
        BY <1>2, <2>1 DEF Stands, q, y
      <3>2. SegOf(y) \in Segs /\ OffOf(y) \in Nat
        BY <1>3, Placed, Constants
      <3> QED
        BY <1>9, <2>1, <3>1, <3>2 DEF Queued, q, y
    <2>3. Live(D, SegOf(y))
      <3>1. SegOf(y) >= 0
        BY <2>2, Constants
      <3> QED
        BY <1>1, <2>2, <3>1 DEF Fit
    <2>4. y \notin ToSet(r)
      <3> SUFFICES ASSUME NEW a \in DOMAIN r, r[a] = y PROVE FALSE
        BY DEF ToSet
      <3>0. 1 \in DOMAIN q /\ a + 1 \in DOMAIN q /\ 1 < a + 1
        BY <1>3
      <3>1. q[1] < q[a + 1]
        BY <2>1, <3>0 DEF Sorted, q
      <3> QED
        BY <1>3, <3>1, Constants
    <2>5. Sized(E, k)
      BY <1>8, <2>1 DEF Sized
    <2>6. Ahead(E, i)
      <3> SUFFICES ASSUME NEW x \in Ids, Live(E, SegOf(x)), Info(E, SegOf(x)).pos <= OffOf(x),
                          OffOf(x) < Info(E, SegOf(x)).end
                   PROVE  x \notin i
        BY DEF Ahead
      <3>1. x \notin h
        BY <1>8, <2>1 DEF Ahead
      <3>2. x # y
        <4> SUFFICES ASSUME x = y PROVE FALSE
          OBVIOUS
        <4> DEFINE p == Info(D, SegOf(y)).pos
        <4>1. p \in Nat
          <5>1. Info(D, SegOf(y)) \in Infos
            BY <1>1, <2>2, <2>3, LiveFacts, Constants
          <5> QED
            BY <5>1, Constants DEF Infos
        <4>2. p <= OffOf(y) /\ OffOf(y) < p
          BY <1>8, <2>2
        <4> HIDE DEF p
        <4> QED
          BY <2>2, <4>1, <4>2
      <3> QED
        BY <3>1, <3>2
    <2>7. Passed(E, sv, i)
      <3> SUFFICES ASSUME NEW x \in Ids, Exists(x), Live(E, SegOf(x)), SegOf(x) \notin sv,
                          OffOf(x) < Info(E, SegOf(x)).pos
                   PROVE  x \in i \/ \E t \in Sources : x \in Want(E, t)
        BY DEF Passed
      <3>1. x \in h \/ \E t \in Sources : x \in Want(D, t)
        BY <1>8, <2>1 DEF Passed
      <3> QED
        BY <1>9, <3>1
    <2>8. Stands(E, m)
      <3> SUFFICES ASSUME NEW t \in Sources
                   PROVE  /\ E.src[t].st \in {"m3u8", "idle"} => E.src[t].queue = <<>>
                          /\ E.src[t].st = "read" /\ E.src[t].queue # <<>> => SegOf(Head(E.src[t].queue)) \in m
        BY DEF Stands
      <3>1. CASE t = s
        <4>1. E.src[t].queue = r /\ E.src[t].st = "read"
          BY <1>5, <1>7, <3>1
        <4>2. ASSUME r # <<>> PROVE SegOf(Head(r)) \in m
          <5>1. Head(r) \in ToSet(r)
            <6>1. 1 \in DOMAIN r /\ Head(r) = r[1]
              BY <1>3, <4>2
            <6> QED
              BY <6>1 DEF ToSet
          <5>2. SegOf(Head(r)) = D.src[s].ctx
            BY <1>9, <2>1, <5>1 DEF Queued
          <5> QED
            BY <2>2, <5>2
        <4> QED
          BY <4>1, <4>2
      <3>2. CASE t # s
        BY <1>7, <2>1, <3>2 DEF Stands
      <3> QED
        BY <3>1, <3>2
    <2>9. Queued(E, i)
      <3> SUFFICES ASSUME NEW t \in Sources, NEW x \in Want(E, t)
                   PROVE  SegOf(x) = E.src[t].ctx /\ OffOf(x) < Info(E, SegOf(x)).pos /\ x \notin i
        BY DEF Queued
      <3>1. x \in Want(D, t)
        BY <1>9
      <3>2. SegOf(x) = E.src[t].ctx /\ OffOf(x) < Info(E, SegOf(x)).pos /\ x \notin h
        BY <1>8, <1>9, <2>1, <3>1 DEF Queued
      <3>3. x # y
        <4>1. CASE t = s
          BY <1>9, <2>4, <4>1
        <4>2. CASE t # s
          BY <1>9, <2>1, <3>1, <4>2 DEF Disjoint
        <4> QED
          BY <4>1, <4>2
      <3> QED
        BY <3>2, <3>3
    <2>10. Sorted(E)
      <3> SUFFICES ASSUME NEW t \in Sources, NEW a \in DOMAIN E.src[t].queue, NEW b \in DOMAIN E.src[t].queue, a < b
                   PROVE  E.src[t].queue[a] < E.src[t].queue[b]
        BY DEF Sorted
      <3>1. CASE t = s
        <4>1. E.src[t].queue = r
          BY <1>5, <1>7, <3>1
        <4>2. r[a] = q[a + 1] /\ r[b] = q[b + 1] /\ a + 1 \in DOMAIN q /\ b + 1 \in DOMAIN q /\ a + 1 < b + 1
          BY <1>3, <4>1
        <4>3. q[a + 1] < q[b + 1]
          BY <2>1, <4>2 DEF Sorted, q
        <4> QED
          BY <4>1, <4>2, <4>3
      <3>2. CASE t # s
        BY <1>9, <2>1, <3>2 DEF Sorted
      <3> QED
        BY <3>1, <3>2
    <2>11. Disjoint(E)
      <3>1. \A t \in Sources : Want(E, t) \subseteq Want(D, t)
        BY <1>9
      <3> QED
        BY <2>1, <3>1 DEF Disjoint
    <2>12. There(m, i)
      BY <1>3, <2>1, <2>2 DEF There
    <2>13. Whole(E, sv, i, lo, hi)
      <3> SUFFICES ASSUME NEW x \in i
                   PROVE  (lo <= x /\ x < hi) \/ Live(E, SegOf(x)) \/ SegOf(x) \in sv \/ Entire(i, x)
        BY DEF Whole
      <3>1. CASE x = y
        BY <1>8, <2>3, <3>1
      <3>2. CASE x \in h
        <4>1. Entire(h, x) => Entire(i, x)
          BY DEF Entire
        <4> QED
          BY <1>8, <2>1, <3>2, <4>1 DEF Whole
      <3> QED
        BY <3>1, <3>2
    <2> QED
      BY <2>5, <2>6, <2>7, <2>8, <2>9, <2>10, <2>11, <2>12, <2>13 DEF Pieces
  <1> QED
    BY <1>11, <1>12 DEF Good, E, i, y, q

\* What is asked are positions.
LEMMA WantIds ==
  ASSUME NEW D, Fit(D), NEW s \in Sources
  PROVE  Want(D, s) \subseteq Ids
  <1>1. D.src[s] \in SourceType
    BY WindowFacts
  <1>2. D.src[s].queue \in Seq(Ids)
    BY <1>1 DEF SourceType
  <1> QED
    BY <1>2 DEF Want, ToSet

\* One segment of the window is changed.
LEMMA OneSegment ==
  ASSUME NEW D, Fit(D), NEW g \in Segs, Live(D, g), NEW v \in Infos, v.seg = g
  PROVE  LET E == PutSeg(D, At(D, g), v)
         IN  /\ Fit(E) /\ E.src = D.src /\ E.dl.tseg = D.dl.tseg
             /\ \A c : Live(E, c) <=> Live(D, c)
             /\ Info(E, g) = v
             /\ \A c \in Segs : c # g /\ Live(D, c) => Info(E, c) = Info(D, c)
  <1> DEFINE a == At(D, g)
             E == PutSeg(D, a, v)
  <1>1. g \in Int /\ Segs \subseteq Int
    BY Constants
  <1>2. a \in DOMAIN D.dl.segs /\ D.dl.segs[a].seg = g
    BY <1>1, LiveFacts
  <1>3. a = g - D.dl.beg + 1 /\ D.dl.beg \in Int
    BY WindowFacts DEF At
  <1> HIDE DEF a
  <1>4. /\ Fit(E) /\ E.src = D.src /\ E.dl.beg = D.dl.beg /\ E.dl.tseg = D.dl.tseg
        /\ DOMAIN E.dl.segs = DOMAIN D.dl.segs /\ E.dl.segs[a] = v
        /\ \A j \in DOMAIN D.dl.segs : j # a => E.dl.segs[j] = D.dl.segs[j]
    BY <1>2, SegPut
  <1> HIDE DEF E
  <1>5. \A c : (Live(E, c) <=> Live(D, c)) /\ At(E, c) = At(D, c)
    BY <1>4 DEF Live, At
  <1>6. Info(E, g) = v
    BY <1>4, <1>5 DEF Info, a
  <1>7. ASSUME NEW c \in Segs, c # g, Live(D, c) PROVE Info(E, c) = Info(D, c)
    <2>1. At(D, c) # a
      BY <1>1, <1>3, <1>7 DEF At
    <2>2. At(D, c) \in DOMAIN D.dl.segs
      BY <1>7 DEF Live
    <2> QED
      BY <1>4, <1>5, <2>1, <2>2 DEF Info
  <1> QED
    BY <1>4, <1>5, <1>6, <1>7 DEF E, a

\* The size of a segment becomes known.
LEMMA UpdateGood ==
  ASSUME Peers = {}, order \in Seq(Sources), NEW k, NEW g \in Segs, NEW sv, NEW h, NEW lo, NEW hi,
         NEW D, Good(D, k, k \union {g}, sv, h, lo, hi)
  PROVE  Good(update_segment(D, g), k \union {g}, k \union {g}, sv, h, lo, hi)
  <1> DEFINE n == k \union {g}
             a == At(D, g)
             u == D.dl.segs[a]
             v == [u EXCEPT !.ready = TRUE, !.end = SegLen[g]]
             F == PutSeg(D, a, v)
  <1>1. Calm(D) /\ Fit(D) /\ Quiet(D) /\ Exact(D)
    BY DEF Good, Calm
  <1>2. \A c \in Segs : c # g => (c \in n <=> c \in k) /\ piece_count(c, n) = piece_count(c, k)
    BY DEF piece_count
  <1>3. piece_count(g, n) = SegLen[g] /\ g \in n /\ (piece_count(g, k) = SegLen[g] \/ piece_count(g, k) = SegPos)
        /\ SegLen[g] \in Nat /\ SegLen[g] <= SegPos /\ SegPos \in Nat /\ SegLen[g] \in 0 .. SegPos
    <2>1. SegLen[g] \in 1 .. SegPos /\ SegLen[g] \in Nat /\ SegPos \in Nat
      BY Constants
    <2> QED
      BY <2>1 DEF piece_count
  <1>0. Good(D, k, n, sv, h, lo, hi)
    OBVIOUS
  <1> HIDE DEF n
  <1>4. CASE ~Live(D, g)
    <2>1. update_segment(D, g) = D
      BY <1>4 DEF update_segment
    <2>2. ASSUME Sized(D, k) PROVE Sized(D, n)
      <3> SUFFICES ASSUME NEW c \in Segs, Live(D, c)
                   PROVE  Info(D, c).ready = (c \in n) /\ Info(D, c).end = piece_count(c, n)
        BY DEF Sized
      <3>1. c # g
        BY <1>4
      <3>2. Info(D, c).ready = (c \in k) /\ Info(D, c).end = piece_count(c, k)
        BY <2>2 DEF Sized
      <3>3. (c \in k) = (c \in n) /\ piece_count(c, n) = piece_count(c, k)
        BY <1>2, <3>1
      <3> QED
        BY <3>2, <3>3
    <2> QED
      BY <1>0, <2>1, <2>2 DEF Good, Pieces, n
  <1>5. CASE Live(D, g)
    <2>1. a \in DOMAIN D.dl.segs /\ u \in Infos /\ Info(D, g) = u /\ u.seg = g
      BY <1>1, <1>5, LiveFacts, Constants
    <2>2. F = [D EXCEPT !.dl.segs[a].ready = TRUE, !.dl.segs[a].end = SegLen[g]]
      <3> HIDE DEF a
      <3>1. D \in [dl : Windows, src : [Sources -> SourceType]] /\ D.dl \in Windows
        BY <1>1 DEF Fit, Worlds
      <3>2. [D.dl.segs EXCEPT ![a].ready = TRUE, ![a].end = SegLen[g]] = [D.dl.segs EXCEPT ![a] = v]
        BY <2>1
      <3> QED
        BY <3>1, <3>2 DEF PutSeg
    <2>3. update_segment(D, g) = ServeAll(F, g)
      BY <1>5, <2>2 DEF update_segment
    <2>4. /\ v \in Infos /\ v.seg = g /\ v.ready = TRUE /\ v.end = SegLen[g] /\ v.pos = u.pos /\ v.late = u.late
          /\ v.np2p = u.np2p /\ v.nsource = u.nsource /\ u.pos \in Nat
      <3> DEFINE e == SegLen[g]
      <3>0. v = [u EXCEPT !.ready = TRUE, !.end = e]
        OBVIOUS
      <3>1. e \in 0 .. SegPos
        BY <1>3
      <3> HIDE DEF u, e, v
      <3>2. /\ v \in Infos /\ v.seg = u.seg /\ v.ready = TRUE /\ v.end = e /\ v.pos = u.pos /\ v.late = u.late
            /\ v.np2p = u.np2p /\ v.nsource = u.nsource
        BY <2>1, <3>0, <3>1 DEF Infos
      <3>3. u.pos \in Nat
        BY <2>1, Constants DEF Infos
      <3> QED
        BY <2>1, <3>2, <3>3 DEF e
    <2> HIDE DEF v
    <2>5. /\ Fit(F) /\ F.src = D.src /\ F.dl.tseg = D.dl.tseg
          /\ \A c : Live(F, c) <=> Live(D, c)
          /\ Info(F, g) = v
          /\ \A c \in Segs : c # g /\ Live(D, c) => Info(F, c) = Info(D, c)
      BY <1>1, <1>5, <2>4, OneSegment
    <2> HIDE DEF F, a, u
    <2>6. \A c \in Segs : Live(D, c) => /\ Info(F, c).late = Info(D, c).late /\ Info(F, c).np2p = Info(D, c).np2p
                                        /\ Info(F, c).nsource = Info(D, c).nsource /\ Info(F, c).pos = Info(D, c).pos
      <3> TAKE c \in Segs
      <3>1. CASE c = g
        BY <2>1, <2>4, <2>5, <3>1
      <3>2. CASE c # g
        BY <2>5, <3>2
      <3> QED
        BY <3>1, <3>2
    <2>7. \A s : Want(F, s) = Want(D, s)
      BY <2>5 DEF Want
    <2>8. Calm(F)
      <3>1. Quiet(F)
        BY <1>1, <2>5, <2>6, QuietLive
      <3>2. Exact(F)
        BY <1>1, <2>5, <2>6 DEF Exact, Workers
      <3> QED
        BY <2>5, <3>1, <3>2 DEF Calm
    <2>9. ASSUME Regular PROVE Pieces(F, n, n, sv, h, lo, hi)
      <3>1. /\ Sized(D, k) /\ Ahead(D, h) /\ Passed(D, sv, h)
            /\ Stands(D, n) /\ Queued(D, h) /\ Sorted(D) /\ Disjoint(D)
            /\ There(n, h) /\ Whole(D, sv, h, lo, hi)
        BY <1>0, <2>9 DEF Pieces, Good
      <3>2. Sized(F, n)
        <4> SUFFICES ASSUME NEW c \in Segs, Live(F, c)
                     PROVE  Info(F, c).ready = (c \in n) /\ Info(F, c).end = piece_count(c, n)
          BY DEF Sized
        <4>1. CASE c = g
          BY <1>3, <2>4, <2>5, <4>1
        <4>2. CASE c # g
          <5>1. Live(D, c) /\ Info(F, c) = Info(D, c)
            BY <2>5, <4>2
          <5>2. Info(D, c).ready = (c \in k) /\ Info(D, c).end = piece_count(c, k)
            BY <3>1, <5>1 DEF Sized
          <5>3. (c \in k) = (c \in n) /\ piece_count(c, n) = piece_count(c, k)
            BY <1>2, <4>2
          <5> QED
            BY <5>1, <5>2, <5>3
        <4> QED
          BY <4>1, <4>2
      <3>3. \A x \in Ids : SegOf(x) \in Segs /\ OffOf(x) \in Nat
        BY Placed, Constants
      <3>4. Ahead(F, h)
        <4> SUFFICES ASSUME NEW x \in Ids, Live(F, SegOf(x)), Info(F, SegOf(x)).pos <= OffOf(x),
                            OffOf(x) < Info(F, SegOf(x)).end
                     PROVE  x \notin h
          BY DEF Ahead
        <4>1. CASE SegOf(x) # g
          BY <2>5, <3>1, <3>3, <4>1 DEF Ahead
        <4>2. CASE SegOf(x) = g
          <5>1. Info(D, g).end = piece_count(g, k)
            BY <1>5, <3>1 DEF Sized
          <5>2. OffOf(x) < SegLen[g] /\ Info(D, g).pos <= OffOf(x)
            BY <2>1, <2>4, <2>5, <4>2
          <5>3. OffOf(x) < Info(D, g).end
            BY <1>3, <3>3, <5>1, <5>2
          <5> QED
            BY <1>5, <3>1, <4>2, <5>2, <5>3 DEF Ahead
        <4> QED
          BY <4>1, <4>2
      <3>5. Passed(F, sv, h)
        BY <2>5, <2>6, <2>7, <3>1, <3>3 DEF Passed
      <3>6. Queued(F, h)
        <4> SUFFICES ASSUME NEW s \in Sources, NEW x \in Want(F, s)
                     PROVE  SegOf(x) = F.src[s].ctx /\ OffOf(x) < Info(F, SegOf(x)).pos /\ x \notin h
          BY DEF Queued
        <4>1. SegOf(x) = D.src[s].ctx /\ OffOf(x) < Info(D, SegOf(x)).pos /\ x \notin h
          BY <2>7, <3>1 DEF Queued
        <4>2. x \in Ids
          <5>1. Want(D, s) \subseteq Ids
            BY <1>1, WantIds
          <5> QED
            BY <2>7, <5>1
        <4>3. SegOf(x) \in Segs /\ SegOf(x) >= 0
          BY <3>3, <4>2, Constants
        <4>4. Live(D, SegOf(x))
          BY <1>1, <4>1, <4>3 DEF Fit
        <4> QED
          BY <2>5, <2>6, <4>1, <4>3, <4>4
      <3>7. Stands(F, n) /\ Sorted(F) /\ Disjoint(F) /\ Whole(F, sv, h, lo, hi)
        <4>1. Stands(F, n) /\ Sorted(F)
          BY <2>5, <3>1 DEF Stands, Sorted
        <4>2. Disjoint(F) /\ Whole(F, sv, h, lo, hi)
          BY <2>5, <2>7, <3>1 DEF Disjoint, Whole
        <4> QED
          BY <4>1, <4>2
      <3> QED
        BY <3>1, <3>2, <3>4, <3>5, <3>6, <3>7 DEF Pieces
    <2>10. Good(F, n, n, sv, h, lo, hi)
      BY <2>8, <2>9 DEF Good
    <2> QED
      BY <2>3, <2>10, ServedGood DEF n
  <1> QED
    BY <1>4, <1>5

-----------------------------------------------------------------------------
(* Pieces in a new window *)

\* The window that starts with the segment of p, and what is kept of the pieces m for it.
Moved(F, D, p, count, m, kept, from, to) ==
  /\ Fit(F) /\ Prepared(F, D, p, count, kept)
  /\ kept = Kept(m, D.dl.beg .. D.dl.end - 1, [beg |-> SegOf(p), end |-> SegOf(p) + count], from, to)

\* Where the position of a segment is put at least.
Begin(p, g) == IF g = SegOf(p) THEN OffOf(p) ELSE 0

\* A source keeps what it has, or loses its segment.
Stays(F, D, s) ==
  \/ F.src[s] = D.src[s] /\ (D.src[s].ctx >= 0 => Live(F, D.src[s].ctx))
  \/ F.src[s].queue = <<>> /\ F.src[s].st = D.src[s].st /\ F.src[s].ctx = FULL /\ ~Live(F, D.src[s].ctx)

\* A segment that was in the window before.
Older(v, u, o) ==
  /\ u \in Infos /\ v.ready = u.ready /\ v.end = u.end /\ v.late = u.late /\ v.np2p = u.np2p /\ v.nsource = u.nsource
  /\ u.pos \in Nat /\ v.pos = (IF u.pos <= o THEN o ELSE u.pos)

\* A segment of the new window.
Renewed(F, D, p, kept, g) ==
  IF Live(D, g) THEN Older(Info(F, g), Info(D, g), Begin(p, g))
  ELSE Info(F, g) = NewInfo(F.src, g, Begin(p, g), meta, kept)

\* The new window, segment by segment and source by source.
LEMMA MovedFacts ==
  ASSUME NEW D, Fit(D), NEW p \in Ids, NEW count \in Nat, NEW m, NEW kept, NEW from, NEW to, NEW F,
         Moved(F, D, p, count, m, kept, from, to)
  PROVE  /\ kept \subseteq m
         /\ \A g \in Segs : Live(F, g) <=> SegOf(p) <= g /\ g < SegOf(p) + count
         /\ \A x \in m : x \in Ids /\ Live(F, SegOf(x)) => x \in kept
         /\ \A x \in m : x \in Ids /\ ~Live(D, SegOf(x)) => x \in kept
         /\ \A x \in kept : x \in Ids => ~Live(D, SegOf(x)) \/ Live(F, SegOf(x)) \/ (from <= x /\ x < to)
         /\ \A g \in Segs : Live(F, g) => Renewed(F, D, p, kept, g)
         /\ \A s \in Sources : Stays(F, D, s)
  <1> DEFINE b == SegOf(p)
             z == b + count
             e == Top(b, count)
  <1>1. Fit(F) /\ Prepared(F, D, p, count, kept)
        /\ kept = Kept(m, D.dl.beg .. D.dl.end - 1, [beg |-> SegOf(p), end |-> SegOf(p) + count], from, to)
    BY DEF Moved
  <1>2. kept = {x \in m : \/ SegOf(x) \notin D.dl.beg .. D.dl.end - 1
                          \/ SegOf(x) \in b .. z - 1
                          \/ from <= x /\ x < to}
    BY <1>1 DEF Kept
  <1>3. b \in Nat /\ SegCount \in Nat /\ b < SegCount /\ Segs = 0 .. SegCount - 1
    <2>1. b \in Segs
      BY Placed
    <2> HIDE DEF b
    <2> QED
      BY <2>1, Constants
  <1>4. F.dl.beg = b /\ F.dl.end = e
    BY <1>1 DEF Prepared
  <1>5. \A g \in Int : Live(F, g) <=> b <= g /\ g < e
    BY <1>1, <1>4, LiveFacts
  <1>6. \A g \in Int : Live(D, g) <=> D.dl.beg <= g /\ g < D.dl.end
    BY LiveFacts
  <1> HIDE DEF b
  <1>7. e \in Nat /\ z \in Nat /\ \A g \in Segs : g < e <=> g < z
    BY <1>3 DEF Top
  <1> HIDE DEF z, e
  <1>8. \A g \in Segs : Live(F, g) <=> b <= g /\ g < z
    <2> TAKE g \in Segs
    <2>1. g \in Int
      BY Constants
    <2>2. Live(F, g) <=> b <= g /\ g < e
      BY <1>5, <2>1
    <2> QED
      BY <1>7, <2>2
  <1>9. \A x \in Ids : SegOf(x) \in Segs /\ SegOf(x) \in Int
    BY Placed, Constants
  <1>10. D.dl.beg \in Nat /\ D.dl.end \in Nat
    BY WindowFacts
  <1>11. ASSUME NEW x \in m, x \in Ids
         PROVE  /\ Live(F, SegOf(x)) => x \in kept
                /\ ~Live(D, SegOf(x)) => x \in kept
                /\ x \in kept => ~Live(D, SegOf(x)) \/ Live(F, SegOf(x)) \/ (from <= x /\ x < to)
    <2> DEFINE g == SegOf(x)
    <2>1. g \in Segs /\ g \in Int
      BY <1>9, <1>11
    <2>2. x \in kept <=> g \notin D.dl.beg .. D.dl.end - 1 \/ g \in b .. z - 1 \/ (from <= x /\ x < to)
      BY <1>2
    <2> HIDE DEF g
    <2>3. g \in b .. z - 1 <=> Live(F, g)
      BY <1>3, <1>7, <1>8, <2>1
    <2>4. g \in D.dl.beg .. D.dl.end - 1 <=> Live(D, g)
      BY <1>6, <1>10, <2>1
    <2> QED
      BY <2>2, <2>3, <2>4 DEF g
  <1>12. ASSUME NEW g \in Segs, Live(F, g)
         PROVE  Renewed(F, D, p, kept, g)
    <2> DEFINE u == Info(D, g)
               v == Info(F, g)
               o == Begin(p, g)
    <2>1. g \in b .. e - 1
      BY <1>3, <1>5, <1>7, <1>12
    <2>2. Widened(F, D, g, o, kept)
      BY <1>1, <2>1 DEF Prepared, b, e, Begin
    <2>3. o \in Nat
      BY Placed, Constants DEF Begin
    <2>4. CASE Live(D, g)
      <3>1. v = [u EXCEPT !.pos = Max({u.pos, o})]
        BY <2>2, <2>4 DEF Widened
      <3>2. u \in Infos
        BY <2>4, LiveFacts, Constants
      <3> HIDE DEF u, v, o
      <3>3. u.pos \in Nat
        BY <3>2, Constants DEF Infos
      <3> DEFINE y == u.pos
                 w == Max({y, o})
      <3>4. y \in Int /\ o \in Int
        BY <2>3, <3>3
      <3> HIDE DEF y
      <3>5. w = IF y <= o THEN o ELSE y
        BY <3>4, MinMax
      <3>6. v = [u EXCEPT !.pos = w]
        BY <3>1 DEF y
      <3> HIDE DEF w
      <3>7. v.ready = u.ready /\ v.end = u.end /\ v.late = u.late /\ v.np2p = u.np2p /\ v.nsource = u.nsource /\ v.pos = w
        BY <3>2, <3>6 DEF Infos
      <3> QED
        BY <2>4, <3>2, <3>3, <3>5, <3>7 DEF Older, Renewed, u, v, o, y
    <2>5. CASE ~Live(D, g)
      BY <2>2, <2>5 DEF Widened, Renewed
    <2> QED
      BY <2>4, <2>5
  <1>13. ASSUME NEW s \in Sources PROVE Stays(F, D, s)
    <2> DEFINE u == D.src[s]
               c == u.ctx
    <2>1. F.src[s] = IF Live(D, c) /\ ~(b <= c /\ c < e) THEN Dropped(u) ELSE u
      BY <1>1 DEF Prepared, b, e
    <2>2. u \in SourceType /\ c \in Int /\ (c >= 0 => Live(D, c))
      <3>1. u \in SourceType
        BY WindowFacts
      <3>2. c \in {NULL, FULL} \union Segs
        BY <3>1 DEF SourceType
      <3> QED
        BY <3>1, <3>2, Constants DEF Fit
    <2>3. CASE Live(D, c) /\ ~(b <= c /\ c < e)
      <3>1. F.src[s] = Dropped(u) /\ ~Live(F, c)
        BY <1>5, <2>1, <2>2, <2>3
      <3>2. Dropped(u).queue = <<>> /\ Dropped(u).st = u.st /\ Dropped(u).ctx = FULL
        <4> DEFINE q == <<>>
                   y == u.st \in {"open", "read"}
        <4>1. Dropped(u) = [u EXCEPT !.queue = q, !.zero = y, !.ctx = FULL] /\ q = <<>>
          BY DEF Dropped
        <4> HIDE DEF q, y, u
        <4> QED
          BY <2>2, <4>1 DEF SourceType
      <3> QED
        BY <3>1, <3>2 DEF Stays
    <2>4. CASE ~(Live(D, c) /\ ~(b <= c /\ c < e))
      <3>1. F.src[s] = u
        BY <2>1, <2>4
      <3>2. c >= 0 => Live(F, c)
        BY <1>5, <2>2, <2>4
      <3> QED
        BY <3>1, <3>2 DEF Stays
    <2> QED
      BY <2>3, <2>4
  <1>14. kept \subseteq m
    BY <1>2
  <1> QED
    BY <1>8, <1>11, <1>12, <1>13, <1>14 DEF b, z

\* A new window is calm.
LEMMA MovedCalm ==
  ASSUME Peers = {}, NEW D, Calm(D), NEW p \in Ids, NEW count \in Nat, NEW m, NEW kept, NEW from, NEW to, NEW F,
         Moved(F, D, p, count, m, kept, from, to)
  PROVE  Calm(F)
  <1>1. Fit(D) /\ Quiet(D) /\ Exact(D) /\ Fit(F) /\ Prepared(F, D, p, count, kept)
    BY DEF Calm, Moved
  <1>2. ASSUME NEW g \in Segs, Live(F, g) PROVE Renewed(F, D, p, kept, g)
    BY <1>1, <1>2, MovedFacts, Zenon
  <1>3. ASSUME NEW s \in Sources PROVE Stays(F, D, s)
    BY <1>1, MovedFacts, Zenon
  <1>4. ASSUME NEW g \in Segs, Live(F, g), Live(D, g)
        PROVE  Info(F, g).late = {} /\ Info(F, g).np2p = 0 /\ Info(F, g).nsource = Workers(F, g)
    <2>1. Older(Info(F, g), Info(D, g), Begin(p, g))
      BY <1>2, <1>4 DEF Renewed
    <2>2. Info(D, g).late = {} /\ Info(D, g).np2p = 0 /\ Info(D, g).nsource = Workers(D, g)
      BY <1>1, <1>4, QuietLive DEF Exact
    <2>3. \A s \in Sources : F.src[s].ctx = g <=> D.src[s].ctx = g
      <3> TAKE s \in Sources
      <3>1. g # FULL
        BY Constants
      <3> QED
        BY <1>3, <1>4, <3>1 DEF Stays
    <2>4. Workers(F, g) = Workers(D, g)
      BY <2>3 DEF Workers
    <2> QED
      BY <2>1, <2>2, <2>4 DEF Older
  <1>5. ASSUME NEW g \in Segs, Live(F, g), ~Live(D, g)
        PROVE  Info(F, g).late = {} /\ Info(F, g).np2p = 0 /\ Info(F, g).nsource = Workers(F, g)
    <2>1. Info(F, g) = NewInfo(F.src, g, Begin(p, g), meta, kept)
      BY <1>2, <1>5 DEF Renewed
    <2> DEFINE v == Info(F, g)
               P == {t \in Peers : t \in ToSet(order) /\ has_segment(F.src, t, g)}
    <2>2. P = {} /\ Cardinality({}) = 0
      BY FS_EmptySet
    <2>3. v.late = {} /\ v.np2p = Cardinality(P) /\ v.nsource = 0
      BY <2>1 DEF NewInfo
    <2>4. {s \in Sources : F.src[s].ctx = g} = {}
      <3> SUFFICES ASSUME NEW s \in Sources, F.src[s].ctx = g PROVE FALSE
        OBVIOUS
      <3>1. g # FULL /\ g >= 0
        BY Constants
      <3> QED
        BY <1>1, <1>3, <1>5, <3>1 DEF Stays, Fit
    <2> QED
      BY <2>2, <2>3, <2>4 DEF Workers
  <1>6. Quiet(F)
    <2>1. F.dl.tseg = NULL
      BY <1>1 DEF Prepared, Quiet
    <2> QED
      BY <1>1, <1>4, <1>5, <2>1, QuietLive
  <1>7. Exact(F)
    BY <1>4, <1>5 DEF Exact
  <1> QED
    BY <1>1, <1>6, <1>7 DEF Calm

\* Serving sources leaves the window where it is.
LEMMA ServedLive ==
  ASSUME NEW D, Fit(D), NEW c, order \in Seq(Sources)
  PROVE  \A g : Live(ServeAll(D, c), g) <=> Live(D, g)
  <1> DEFINE W == {F \in Worlds : Fit(F) /\ F.dl.beg = D.dl.beg /\ DOMAIN F.dl.segs = DOMAIN D.dl.segs}
  <1>1. \A F \in W : \A s \in Sources : Serve(F, c, s) \in W
    <2> TAKE F \in W
    <2> TAKE s \in Sources
    <2>1. Near(on_ready(F, s), F, s)
      BY ReadyFacts
    <2>2. Serve(F, c, s) = on_ready(F, s) \/ Serve(F, c, s) = F
      BY DEF Serve
    <2> QED
      BY <2>1, <2>2 DEF Near, Fit
  <1>2. D \in W
    BY DEF Fit
  <1>3. \A F \in W : \A g : Live(F, g) <=> Live(D, g)
    BY DEF Live, At
  <1> HIDE DEF W
  <1>4. ServeAll(D, c) \in W
    BY <1>1, <1>2, ServeAllKeeps
  <1> QED
    BY <1>3, <1>4

\* Nothing is missing before the place p of its segment.
NoGap(p, sv, h) ==
  \A x \in Ids : SegOf(x) = SegOf(p) /\ OffOf(x) < OffOf(p) /\ Exists(x) => x \in h \/ SegOf(x) \in sv

\* A segment that comes into the window is there as a whole, or is saved, or there is nothing
\* of it.
LEMMA NewInfoPieces ==
  ASSUME NEW S, NEW g \in Segs, NEW o \in Nat, NEW h, There(meta, h),
         \A x \in h : SegOf(x) = g => g \in saved \/ Entire(h, x),
         o # 0 => \A x \in Ids : SegOf(x) = g /\ OffOf(x) < o /\ Exists(x) => x \in h \/ g \in saved
  PROVE  LET v == NewInfo(S, g, o, meta, h)
         IN  /\ v.ready = (g \in meta) /\ v.end = piece_count(g, meta)
             /\ \/ v.pos = v.end /\ (g \in saved \/ \A x \in Ids : SegOf(x) = g /\ Exists(x) => x \in h)
                \/ v.pos = 0 /\ \A x \in h : SegOf(x) # g
  <1> DEFINE v == NewInfo(S, g, o, meta, h)
             n == piece_count(g, meta)
             y == g * SegPos + 0
             whole == \A x \in Ids : SegOf(x) = g /\ Exists(x) => x \in h
  <1>1. v.ready = (g \in meta) /\ v.end = n
        /\ v.pos = (IF g \in saved \/ full(g, meta, h) THEN n ELSE seek(g, o, meta, h))
    BY DEF NewInfo
  <1>2. 0 \in 0 .. SegPos - 1 /\ SegLen[g] \in Nat /\ SegLen[g] >= 1 /\ SegLen[g] <= SegPos /\ SegPos \in Nat
    <2>1. SegLen[g] \in 1 .. SegPos /\ SegPos \in Nat
      BY Constants
    <2> DEFINE e == SegLen[g]
    <2> HIDE DEF e
    <2>2. e \in 1 .. SegPos /\ SegPos \in Nat
      BY <2>1 DEF e
    <2>3. 0 \in 0 .. SegPos - 1 /\ e \in Nat /\ e >= 1 /\ e <= SegPos
      BY <2>2
    <2> QED
      BY <2>1, <2>3 DEF e
  <1>3. y \in Ids /\ SegOf(y) = g /\ OffOf(y) = 0 /\ Exists(y)
    <2>1. y \in Ids /\ SegOf(y) = g /\ OffOf(y) = 0
      BY <1>2, Places, OnePlace
    <2> HIDE DEF y
    <2> QED
      BY <1>2, <2>1 DEF Exists
  <1>4. n \in 1 .. SegPos /\ n \in Nat /\ 0 \in 0 .. n - 1
    <2>1. n \in 1 .. SegPos
      BY SeekFacts
    <2> HIDE DEF n
    <2> QED
      BY <1>2, <2>1
  <1> HIDE DEF v
  <1>5. CASE g \in saved
    BY <1>1, <1>5 DEF v
  <1>6. CASE g \notin saved /\ \E x \in h : SegOf(x) = g
    <2>1. PICK x \in h : SegOf(x) = g
      BY <1>6
    <2>2. Entire(h, x) /\ g \in meta
      BY <1>6, <2>1 DEF There
    <2>3. whole
      BY <2>1, <2>2 DEF Entire
    <2>4. n = SegLen[g]
      BY <2>2 DEF piece_count
    <2>5. full(g, meta, h)
      <3> SUFFICES ASSUME NEW a \in 0 .. n - 1 PROVE g * SegPos + a \in h
        BY DEF full, Missing
      <3> DEFINE z == g * SegPos + a
      <3>1. a \in 0 .. SegPos - 1 /\ a < SegLen[g] /\ a \in Nat
        BY <1>2, <2>4
      <3>2. z \in Ids /\ SegOf(z) = g /\ OffOf(z) = a
        BY <3>1, Places, OnePlace
      <3> HIDE DEF z
      <3>3. Exists(z)
        BY <3>1, <3>2 DEF Exists
      <3> QED
        BY <2>3, <3>2, <3>3 DEF z
    <2>6. v.pos = n
      BY <1>1, <2>5
    <2> QED
      BY <1>1, <2>3, <2>6 DEF v
  <1>7. CASE g \notin saved /\ \A x \in h : SegOf(x) # g
    <2>1. y \notin h
      BY <1>3, <1>7
    <2>2. 0 \in Missing(g, meta, h)
      BY <1>4, <2>1 DEF Missing
    <2>3. ~full(g, meta, h)
      BY <2>2 DEF full
    <2>4. o = 0
      <3> SUFFICES ASSUME o # 0 PROVE FALSE
        OBVIOUS
      <3>1. OffOf(y) < o
        BY <1>3
      <3> QED
        BY <1>3, <1>7, <2>1, <3>1
    <2>5. seek(g, o, meta, h) = 0
      <3> DEFINE hole == {x \in Missing(g, meta, h) : x >= o}
                 k == seek(g, o, meta, h)
      <3>1. k \in 0 .. SegPos /\ (IF hole = {} THEN k = 0 ELSE k \in hole /\ \A x \in hole : k <= x)
        BY SeekFacts
      <3>2. 0 \in hole
        BY <2>2, <2>4
      <3> HIDE DEF hole, k
      <3>3. k <= 0 /\ k \in 0 .. SegPos
        BY <3>1, <3>2
      <3>4. k = 0
        BY <1>2, <3>3
      <3> QED
        BY <3>4 DEF k
    <2>6. v.pos = 0
      BY <1>1, <1>7, <2>3, <2>5
    <2> QED
      BY <1>1, <1>7, <2>6 DEF v
  <1> QED
    BY <1>5, <1>6, <1>7

\* The pieces in a new window.
LEMMA MovedPieces ==
  ASSUME NEW D, Fit(D), NEW p \in Ids, NEW count \in Nat, NEW m, NEW kept, NEW from, NEW to, NEW F,
         Moved(F, D, p, count, m, kept, from, to), Pieces(D, meta, meta, saved, m, 0, 0), NoGap(p, saved, m)
  PROVE  Pieces(F, meta, meta, saved, kept, from, to)
  <1>1. /\ Sized(D, meta) /\ Ahead(D, m) /\ Passed(D, saved, m)
        /\ Stands(D, meta) /\ Queued(D, m) /\ Sorted(D) /\ Disjoint(D)
        /\ There(meta, m) /\ Whole(D, saved, m, 0, 0)
    BY DEF Pieces
  <1>2. kept \subseteq m /\ (\A x \in m : x \in Ids) /\ Fit(F)
    <2>1. kept \subseteq m
      BY MovedFacts, Zenon
    <2> QED
      BY <1>1, <2>1 DEF There, Moved
  <1>3. \A x \in m : Live(F, SegOf(x)) => x \in kept
    BY <1>2, MovedFacts, Zenon
  <1>4. \A x \in m : ~Live(D, SegOf(x)) => x \in kept
    BY <1>2, MovedFacts, Zenon
  <1>5. \A x \in kept : ~Live(D, SegOf(x)) \/ Live(F, SegOf(x)) \/ (from <= x /\ x < to)
    <2>1. \A x \in kept : x \in Ids => ~Live(D, SegOf(x)) \/ Live(F, SegOf(x)) \/ (from <= x /\ x < to)
      BY MovedFacts
    <2> QED
      BY <1>2, <2>1
  <1>6. \A g \in Segs : Live(F, g) => Renewed(F, D, p, kept, g)
    BY MovedFacts, Zenon
  <1>7. \A s \in Sources : Stays(F, D, s)
    BY MovedFacts, Zenon
  <1>8. \A x \in Ids : SegOf(x) \in Segs /\ OffOf(x) \in Nat /\ SegOf(x) \in Nat
    BY Placed, Constants
  <1>9. There(meta, kept)
    BY <1>1, <1>2 DEF There
  <1>10. \A s \in Sources : /\ \A x \in Want(F, s) : x \in Want(D, s) /\ F.src[s] = D.src[s] /\ x \in Ids
                            /\ F.src[s].st = D.src[s].st
    <2> TAKE s \in Sources
    <2>1. CASE F.src[s] = D.src[s]
      <3>1. Want(F, s) = Want(D, s) /\ Want(D, s) \subseteq Ids
        BY <2>1, WantIds DEF Want
      <3> QED
        BY <2>1, <3>1
    <2>2. CASE F.src[s].queue = <<>> /\ F.src[s].st = D.src[s].st
      <3>1. Want(F, s) = {}
        BY <2>2 DEF Want, ToSet
      <3> QED
        BY <2>2, <3>1
    <2> QED
      BY <1>7, <2>1, <2>2 DEF Stays
  <1>11. ASSUME NEW x \in m, ~Live(D, SegOf(x)) PROVE SegOf(x) \in saved \/ Entire(kept, x)
    <2>1. x \in Ids /\ x \in Nat
      BY <1>2, Constants
    <2>2. SegOf(x) \in saved \/ Entire(m, x)
      BY <1>1, <1>11, <2>1 DEF Whole
    <2>3. Entire(m, x) => Entire(kept, x)
      BY <1>4, <1>11 DEF Entire
    <2> QED
      BY <2>2, <2>3
  <1>12. \A g \in Segs : Begin(p, g) \in Nat /\ (Begin(p, g) # 0 => g = SegOf(p) /\ Begin(p, g) = OffOf(p))
    BY <1>8 DEF Begin
  <1>13. ASSUME NEW g \in Segs, Live(F, g), ~Live(D, g)
         PROVE  LET v == Info(F, g)
                IN  /\ v.ready = (g \in meta) /\ v.end = piece_count(g, meta)
                    /\ \/ v.pos = v.end /\ (g \in saved \/ \A x \in Ids : SegOf(x) = g /\ Exists(x) => x \in kept)
                       \/ v.pos = 0 /\ \A x \in kept : SegOf(x) # g
    <2>1. Info(F, g) = NewInfo(F.src, g, Begin(p, g), meta, kept)
      BY <1>6, <1>13 DEF Renewed
    <2>2. \A x \in kept : SegOf(x) = g => g \in saved \/ Entire(kept, x)
      BY <1>2, <1>11, <1>13
    <2>3. Begin(p, g) # 0 => \A x \in Ids : SegOf(x) = g /\ OffOf(x) < Begin(p, g) /\ Exists(x) => x \in kept \/ g \in saved
      <3> SUFFICES ASSUME Begin(p, g) # 0, NEW x \in Ids, SegOf(x) = g, OffOf(x) < Begin(p, g), Exists(x), g \notin saved
                   PROVE  x \in kept
        OBVIOUS
      <3>1. x \in m
        BY <1>12 DEF NoGap
      <3> QED
        BY <1>3, <1>13, <3>1
    <2> DEFINE o == Begin(p, g)
    <2>4. o \in Nat
      BY <1>12
    <2>5. o # 0 => \A x \in Ids : SegOf(x) = g /\ OffOf(x) < o /\ Exists(x) => x \in kept \/ g \in saved
      BY <2>3
    <2> HIDE DEF o
    <2> QED
      BY <1>9, <2>1, <2>2, <2>4, <2>5, NewInfoPieces DEF o
  <1>14. ASSUME NEW g \in Segs, Live(F, g), Live(D, g) PROVE Older(Info(F, g), Info(D, g), Begin(p, g))
    BY <1>6, <1>14 DEF Renewed
  <1>15. Sized(F, meta)
    <2> SUFFICES ASSUME NEW g \in Segs, Live(F, g)
                 PROVE  Info(F, g).ready = (g \in meta) /\ Info(F, g).end = piece_count(g, meta)
      BY DEF Sized
    <2>1. CASE Live(D, g)
      BY <1>1, <1>14, <2>1 DEF Older, Sized
    <2>2. CASE ~Live(D, g)
      BY <1>13, <2>2
    <2> QED
      BY <2>1, <2>2
  <1>16. Ahead(F, kept)
    <2> SUFFICES ASSUME NEW x \in Ids, Live(F, SegOf(x)), Info(F, SegOf(x)).pos <= OffOf(x),
                        OffOf(x) < Info(F, SegOf(x)).end
                 PROVE  x \notin kept
      BY DEF Ahead
    <2> DEFINE g == SegOf(x)
               u == Info(D, g)
               v == Info(F, g)
               o == OffOf(x)
    <2>1. g \in Segs /\ o \in Nat
      BY <1>8
    <2>2. CASE Live(D, g)
      <3>1. Older(v, u, Begin(p, g)) /\ Begin(p, g) \in Nat
        BY <1>12, <1>14, <2>1, <2>2
      <3>2. v.end = u.end /\ u.pos \in Nat /\ u.pos <= v.pos /\ v.pos \in Nat
        <4> HIDE DEF u, v
        <4> QED
          BY <3>1 DEF Older
      <3>3. u.pos <= o /\ o < u.end
        <4>1. v.pos <= o /\ o < v.end
          OBVIOUS
        <4> HIDE DEF u, v, o
        <4> QED
          BY <2>1, <3>2, <4>1
      <3>4. x \notin m
        BY <1>1, <2>2, <3>3 DEF Ahead
      <3> QED
        BY <1>2, <3>4
    <2>3. CASE ~Live(D, g)
      <3>1. v.pos = v.end \/ \A y \in kept : SegOf(y) # g
        BY <1>13, <2>1, <2>3
      <3>2. v.pos # v.end
        <4>1. v \in Infos
          BY <1>2, <2>1, LiveFacts, Constants
        <4>2. v.pos <= o /\ o < v.end
          OBVIOUS
        <4> HIDE DEF v, o
        <4>3. v.pos \in Nat /\ v.end \in Nat
          BY <4>1, Constants DEF Infos
        <4> QED
          BY <2>1, <4>2, <4>3
      <3> QED
        BY <3>1, <3>2
    <2> QED
      BY <2>2, <2>3
  <1>17. Passed(F, saved, kept)
    <2> SUFFICES ASSUME NEW x \in Ids, Exists(x), Live(F, SegOf(x)), SegOf(x) \notin saved,
                        OffOf(x) < Info(F, SegOf(x)).pos
                 PROVE  x \in kept \/ \E s \in Sources : x \in Want(F, s)
      BY DEF Passed
    <2> DEFINE g == SegOf(x)
               u == Info(D, g)
               v == Info(F, g)
               o == OffOf(x)
    <2>1. g \in Segs /\ o \in Nat
      BY <1>8
    <2>2. CASE Live(D, g) /\ o < u.pos
      <3>1. x \in m \/ \E s \in Sources : x \in Want(D, s)
        BY <1>1, <2>2 DEF Passed
      <3>2. CASE x \in m
        BY <1>3, <3>2
      <3>3. ASSUME NEW s \in Sources, x \in Want(D, s) PROVE x \in Want(F, s)
        <4>1. g = D.src[s].ctx
          BY <1>1, <3>3 DEF Queued
        <4>2. Live(F, D.src[s].ctx)
          BY <4>1
        <4>3. F.src[s] = D.src[s]
          BY <1>7, <4>2 DEF Stays
        <4> QED
          BY <3>3, <4>3 DEF Want
      <3> QED
        BY <3>1, <3>2, <3>3
    <2>3. CASE Live(D, g) /\ ~(o < u.pos)
      <3>1. Older(v, u, Begin(p, g)) /\ Begin(p, g) \in Nat
        BY <1>12, <1>14, <2>1, <2>3
      <3>2. o < Begin(p, g)
        <4>1. o < v.pos
          OBVIOUS
        <4>2. ~(o < u.pos)
          BY <2>3
        <4> HIDE DEF u, v, o
        <4> QED
          BY <2>1, <3>1, <4>1, <4>2 DEF Older
      <3>3. Begin(p, g) # 0
        <4> HIDE DEF o
        <4> QED
          BY <2>1, <3>1, <3>2
      <3>4. x \in m
        BY <1>12, <2>1, <3>2, <3>3 DEF NoGap
      <3> QED
        BY <1>3, <3>4
    <2>4. CASE ~Live(D, g)
      <3>1. v.pos = 0 \/ \A y \in Ids : SegOf(y) = g /\ Exists(y) => y \in kept
        BY <1>13, <2>1, <2>4
      <3>2. v.pos # 0
        <4>1. o < v.pos
          OBVIOUS
        <4> HIDE DEF o, v
        <4> QED
          BY <2>1, <4>1
      <3> QED
        BY <3>1, <3>2
    <2> QED
      BY <2>2, <2>3, <2>4
  <1>18. Stands(F, meta)
    <2> SUFFICES ASSUME NEW s \in Sources
                 PROVE  /\ F.src[s].st \in {"m3u8", "idle"} => F.src[s].queue = <<>>
                        /\ F.src[s].st = "read" /\ F.src[s].queue # <<>> => SegOf(Head(F.src[s].queue)) \in meta
      BY DEF Stands
    <2>1. CASE F.src[s] = D.src[s]
      BY <1>1, <2>1 DEF Stands
    <2>2. CASE F.src[s].queue = <<>>
      BY <2>2
    <2> QED
      BY <1>7, <2>1, <2>2 DEF Stays
  <1>19. Queued(F, kept)
    <2> SUFFICES ASSUME NEW s \in Sources, NEW x \in Want(F, s)
                 PROVE  SegOf(x) = F.src[s].ctx /\ OffOf(x) < Info(F, SegOf(x)).pos /\ x \notin kept
      BY DEF Queued
    <2> DEFINE g == SegOf(x)
               u == Info(D, g)
               v == Info(F, g)
               o == OffOf(x)
    <2>1. x \in Want(D, s) /\ F.src[s] = D.src[s] /\ x \in Ids /\ g \in Segs /\ o \in Nat /\ g \in Nat
      BY <1>8, <1>10
    <2>2. g = D.src[s].ctx /\ o < u.pos /\ x \notin m
      BY <1>1, <2>1 DEF Queued
    <2>3. Live(D, g) /\ Live(F, g)
      <3>1. g >= 0
        BY <2>1, Constants
      <3> QED
        BY <1>2, <2>1, <2>2, <3>1 DEF Fit
    <2>4. Older(v, u, Begin(p, g)) /\ Begin(p, g) \in Nat
      BY <1>12, <1>14, <2>1, <2>3
    <2>5. o < v.pos
      <3> HIDE DEF o, u, v
      <3> QED
        BY <2>1, <2>2, <2>4 DEF Older
    <2> QED
      BY <1>2, <2>1, <2>2, <2>5
  <1>20. Sorted(F)
    <2> SUFFICES ASSUME NEW s \in Sources, NEW j \in DOMAIN F.src[s].queue, NEW k \in DOMAIN F.src[s].queue, j < k
                 PROVE  F.src[s].queue[j] < F.src[s].queue[k]
      BY DEF Sorted
    <2>1. F.src[s].queue[j] \in Want(F, s)
      BY DEF Want, ToSet
    <2>2. F.src[s] = D.src[s]
      BY <1>10, <2>1
    <2> QED
      BY <1>1, <2>2 DEF Sorted
  <1>21. Disjoint(F)
    BY <1>1, <1>10 DEF Disjoint
  <1>22. Whole(F, saved, kept, from, to)
    <2> SUFFICES ASSUME NEW x \in kept
                 PROVE  (from <= x /\ x < to) \/ Live(F, SegOf(x)) \/ SegOf(x) \in saved \/ Entire(kept, x)
      BY DEF Whole
    <2> QED
      BY <1>2, <1>5, <1>11
  <1> QED
    BY <1>9, <1>15, <1>16, <1>17, <1>18, <1>19, <1>20, <1>21, <1>22 DEF Pieces

\* prepare_taskwindow keeps what is good.
LEMMA PreparedGood ==
  ASSUME Peers = {}, NEW D, NEW p \in Ids, NEW count \in Nat, count = Window \/ (count = 0 /\ SegOf(p) = 0),
         NEW m, NEW from, NEW to, order \in Seq(Sources), Good(D, meta, meta, saved, m, 0, 0),
         Regular => NoGap(p, saved, m), NEW r, r = prepare_taskwindow(D, p, count, m, from, to)
  PROVE  Good(r.d, meta, meta, saved, r.has, from, to)
  <1>1. Fit(D) /\ Calm(D)
    BY DEF Good, Calm
  <1>2. /\ r.has = Kept(m, D.dl.beg .. D.dl.end - 1, [beg |-> SegOf(p), end |-> SegOf(p) + count], from, to)
        /\ \E F : Fit(F) /\ r.d = ServeAll(F, NULL) /\ Prepared(F, D, p, count, r.has)
    BY <1>1, PrepareFacts
  <1>3. PICK F : Fit(F) /\ r.d = ServeAll(F, NULL) /\ Prepared(F, D, p, count, r.has)
    BY <1>2
  <1>4. Moved(F, D, p, count, m, r.has, from, to)
    BY <1>2, <1>3 DEF Moved
  <1>5. Calm(F)
    BY <1>1, <1>4, MovedCalm
  <1>6. Regular => Pieces(F, meta, meta, saved, r.has, from, to)
    BY <1>1, <1>4, MovedPieces DEF Good
  <1>7. Good(F, meta, meta, saved, r.has, from, to)
    BY <1>5, <1>6 DEF Good
  <1> QED
    BY <1>3, <1>7, ServedGood

\* It only takes pieces away, and none that is in the interval or in the new window.
LEMMA PreparedKept ==
  ASSUME NEW D, Fit(D), NEW p \in Ids, NEW count \in Nat, count = Window \/ (count = 0 /\ SegOf(p) = 0),
         NEW m \in SUBSET Ids, NEW from, NEW to, order \in Seq(Sources)
  PROVE  LET r == prepare_taskwindow(D, p, count, m, from, to)
         IN  /\ r.has \in SUBSET m
             /\ \A x \in m : from <= x /\ x < to => x \in r.has
             /\ count = Window => Live(r.d, SegOf(p))
  <1> DEFINE r == prepare_taskwindow(D, p, count, m, from, to)
  <1>1. /\ r.has = Kept(m, D.dl.beg .. D.dl.end - 1, [beg |-> SegOf(p), end |-> SegOf(p) + count], from, to)
        /\ \E F : Fit(F) /\ r.d = ServeAll(F, NULL) /\ Prepared(F, D, p, count, r.has)
    BY PrepareFacts, Zenon
  <1> HIDE DEF r
  <1>2. PICK F : Fit(F) /\ r.d = ServeAll(F, NULL) /\ Prepared(F, D, p, count, r.has)
    BY <1>1
  <1>3. Moved(F, D, p, count, m, r.has, from, to)
    BY <1>1, <1>2 DEF Moved
  <1>4. r.has \subseteq m /\ \A x \in m : from <= x /\ x < to => x \in r.has
    BY <1>1 DEF Kept
  <1>5. ASSUME count = Window PROVE Live(r.d, SegOf(p))
    <2> DEFINE g == SegOf(p)
    <2>1. g \in Segs /\ g \in Nat
      BY Placed, Constants
    <2> HIDE DEF g
    <2>2. g <= g /\ g < g + count
      BY <1>5, <2>1, Constants
    <2>3. \A c \in Segs : Live(F, c) <=> SegOf(p) <= c /\ c < SegOf(p) + count
      BY <1>3, MovedFacts, Zenon
    <2>4. Live(F, g)
      BY <2>1, <2>2, <2>3 DEF g
    <2>5. \A c : Live(ServeAll(F, NULL), c) <=> Live(F, c)
      BY <1>2, ServedLive, Zenon
    <2> QED
      BY <1>2, <2>4, <2>5 DEF g
  <1> QED
    BY <1>4, <1>5 DEF r

\* The first position.
LEMMA Origin == 0 \in Ids /\ SegOf(0) = 0 /\ OffOf(0) = 0 /\ 0 \in 0 .. End /\ End \in Nat
  <1>1. SegPos \in Nat /\ SegPos >= 1 /\ SegCount \in Nat \ {0} /\ 0 \in Segs /\ 0 \in 0 .. SegPos - 1
    BY Constants, DownloadAssumption
  <1> DEFINE z == 0 * SegPos
             y == z + 0
  <1>2. y \in Ids /\ SegOf(y) = 0 /\ OffOf(y) = 0
    BY <1>1, Places, OnePlace
  <1>3. y = 0
    BY <1>1
  <1>4. End \in Nat
    BY <1>1 DEF End
  <1> HIDE DEF y
  <1> QED
    BY <1>2, <1>3, <1>4

-----------------------------------------------------------------------------
(* What holds in every state *)

\* The lock of a sink that is only moved to the beginning of segments is that of a segment
\* or empty, and what the sink has passed of it is there (k: the sink).
Locks(k, sv, h) ==
  /\ k.on \/ (k.from = 0 /\ k.to = 0)
  /\ \/ k.from = 0 /\ k.to = 0
     \/ k.from \in Ids /\ OffOf(k.from) = 0 /\ k.to = k.from + SegPos
  /\ k.on => /\ k.from <= k.pos /\ k.pos <= k.to
             /\ \A x \in Ids : k.from <= x /\ x < k.pos /\ Exists(x) => x \in h \/ SegOf(x) \in sv

SinkOk(k) == k \in [on : BOOLEAN, pos : 0 .. End, from : 0 .. End, to : 0 .. End]

Ranges ==
  /\ order \in Seq(Sources) /\ has \subseteq Ids /\ saved \subseteq Segs /\ meta \subseteq Segs
  /\ SinkOk(sink) /\ play \in 0 .. End /\ download \in 0 .. End
  /\ saved # {} => DiskCache

\* The inductive invariant.
WebInv ==
  /\ Ranges /\ Good(Cur, meta, meta, saved, has, 0, 0)
  /\ Regular => Locks(sink, saved, has)

\* The positions of a segment are those from its beginning to the next one's.
LEMMA LockSegment ==
  ASSUME NEW a \in Ids, OffOf(a) = 0, NEW x \in Int
  PROVE  /\ x \in Ids => (a <= x /\ x < a + SegPos <=> SegOf(x) = SegOf(a))
         /\ a + SegPos = (SegOf(a) + 1) * SegPos
         /\ a + SegPos <= End
         /\ a <= x /\ x < a + SegPos => x \in Ids
  <1> DEFINE g == SegOf(a)
             c == SegOf(x)
             o == OffOf(x)
             b == c * SegPos
             e == g * SegPos
             n == SegCount - 1
             z == n * SegPos
  <1>1. g \in Nat /\ g <= n /\ a = e + 0 /\ e \in Nat /\ SegPos \in Nat /\ SegPos >= 1 /\ n \in Nat /\ z \in Nat
    <2>1. g \in Segs /\ a = g * SegPos + OffOf(a) /\ SegPos \in Nat /\ SegPos >= 1 /\ SegCount \in Nat
      BY Placed, Constants
    <2> HIDE DEF g
    <2>2. g \in Nat /\ g <= n /\ n \in Nat
      BY <2>1, Constants
    <2>3. e \in Nat /\ z \in Nat
      BY <2>1, <2>2, Products
    <2> QED
      BY <2>1, <2>2, <2>3
  <1>2. a + SegPos = (g + 1) * SegPos
    <2> HIDE DEF g
    <2> QED
      BY <1>1, Products
  <1>3. End = z + SegPos /\ (g < n => e + SegPos <= z)
    <2>1. SegCount \in Nat /\ SegCount = n + 1
      BY <1>1, Constants
    <2> HIDE DEF g, n
    <2>2. (n + 1) * SegPos = n * SegPos + SegPos
      BY <1>1, Products
    <2>3. g < n => e + SegPos <= z
      BY <1>1, Products
    <2> QED
      BY <2>1, <2>2, <2>3 DEF End
  <1>4. a + SegPos <= End
    <2>1. g = n => e = z
      OBVIOUS
    <2> HIDE DEF g, n, e, z
    <2> QED
      BY <1>1, <1>3, <2>1
  <1>5. a <= x /\ x < a + SegPos => x \in Ids
    <2>1. Ids = 0 .. End - 1 /\ End \in Int /\ a \in Nat
      BY <1>1, <1>3, Constants
    <2> QED
      BY <1>1, <1>4, <2>1
  <1>6. ASSUME x \in Ids PROVE a <= x /\ x < a + SegPos <=> SegOf(x) = SegOf(a)
    <2>1. c \in Nat /\ o \in Nat /\ o < SegPos /\ x = b + o
      BY <1>6, Placed, Constants
    <2> HIDE DEF c, o, g
    <2>2. b \in Nat
      BY <1>1, <2>1, Products
    <2>3. c < g => b + SegPos <= e
      BY <1>1, <2>1, Products
    <2>4. g < c => e + SegPos <= b
      BY <1>1, <2>1, Products
    <2>5. c = g => b = e
      OBVIOUS
    <2> HIDE DEF b, e
    <2>6. a <= x /\ x < a + SegPos <=> c = g
      BY <1>1, <2>1, <2>2, <2>3, <2>4, <2>5
    <2> QED
      BY <2>6 DEF c, g
  <1> QED
    BY <1>2, <1>4, <1>5, <1>6

\* Pieces are released, but none of a segment of the window.
LEMMA ReleasedGood ==
  ASSUME NEW k, NEW m, NEW sv, NEW h, NEW lo, NEW hi, NEW D, Good(D, k, m, sv, h, lo, hi),
         NEW i \in SUBSET h, \A x \in h : Live(D, SegOf(x)) => x \in i, NEW u, NEW v,
         Regular => Whole(D, sv, i, u, v)
  PROVE  Good(D, k, m, sv, i, u, v)
  <1>1. ASSUME Regular PROVE Pieces(D, k, m, sv, i, u, v)
    <2>1. /\ Sized(D, k) /\ Ahead(D, h) /\ Passed(D, sv, h)
          /\ Stands(D, m) /\ Queued(D, h) /\ Sorted(D) /\ Disjoint(D)
          /\ There(m, h)
      BY <1>1 DEF Good, Pieces
    <2>2. Ahead(D, i)
      BY <2>1 DEF Ahead
    <2>3. Passed(D, sv, i)
      BY <2>1 DEF Passed
    <2>4. Queued(D, i)
      BY <2>1 DEF Queued
    <2>5. There(m, i)
      BY <2>1 DEF There
    <2> QED
      BY <1>1, <2>1, <2>2, <2>3, <2>4, <2>5 DEF Pieces
  <1> QED
    BY <1>1 DEF Good

\* With a disk cache the saved segments may be any: nothing is said of the pieces.
LEMMA SavedGood ==
  ASSUME NEW k, NEW m, NEW sv, NEW h, NEW lo, NEW hi, NEW D, Good(D, k, m, sv, h, lo, hi), NEW u, DiskCache
  PROVE  Good(D, k, m, u, h, lo, hi)
  BY DEF Good, Regular

\* The downloader becomes a good one.
LEMMA BecomesGood ==
  ASSUME NEW D, NEW k, NEW h, NEW sv, Good(D, k, k, sv, h, 0, 0), Becomes(D), meta' = k, saved' = sv, has' = h
  PROVE  Good(Cur, meta, meta, saved, has, 0, 0)'
  <1>1. [dl |-> dl', src |-> src'] = D
    BY DEF Becomes, Good, Calm, Fit, Worlds
  <1>2. Good([dl |-> dl', src |-> src'], meta', meta', saved', has', 0, 0)
    BY <1>1
  <1> QED
    BY <1>2 DEF Cur

\* A step that leaves the sink alone and takes nothing away.
LEMMA WebStep ==
  ASSUME WebInv, NEW D, NEW k \in SUBSET Segs, NEW h \in SUBSET Ids, Good(D, k, k, saved, h, 0, 0), Becomes(D),
         meta' = k, saved' = saved, has' = h, has \subseteq h, order' \in Seq(Sources),
         sink' = sink, play' = play, download' = download
  PROVE  WebInv'
  <1>1. Good(Cur, meta, meta, saved, has, 0, 0)'
    BY BecomesGood
  <1>2. Ranges'
    BY DEF WebInv, Ranges, SinkOk
  <1>3. Regular => Locks(sink, saved, h)
    BY DEF WebInv, Locks
  <1>4. Regular => Locks(sink, saved, has)'
    BY <1>3
  <1> QED
    BY <1>1, <1>2, <1>4 DEF WebInv

\* Nothing stands before the beginning of a segment.
LEMMA NothingBefore ==
  ASSUME NEW p \in Ids, OffOf(p) = 0, NEW sv, NEW h
  PROVE  NoGap(p, sv, h)
  <1>1. \A x \in Ids : OffOf(x) \in 0 .. SegPos - 1 /\ SegPos \in Nat
    BY Placed, Constants
  <1>2. \A x \in Ids : ~(OffOf(x) < 0)
    BY <1>1
  <1> QED
    BY <1>2 DEF NoGap

\* The pieces of the window.
LEMMA Within ==
  ASSUME NEW D, Fit(D)
  PROVE  \A x \in Ids : SegOf(x) \in D.dl.beg .. D.dl.end - 1 <=> Live(D, SegOf(x))
  <1> TAKE x \in Ids
  <1> DEFINE g == SegOf(x)
  <1>1. g \in Int /\ D.dl.beg \in Nat /\ D.dl.end \in Nat
    BY Placed, Constants, WindowFacts
  <1>2. Live(D, g) <=> D.dl.beg <= g /\ g < D.dl.end
    BY <1>1, LiveFacts
  <1> HIDE DEF g
  <1>3. g \in D.dl.beg .. D.dl.end - 1 <=> Live(D, g)
    BY <1>1, <1>2
  <1> QED
    BY <1>3 DEF g

\* The places in a segment are in the order of the positions.
LEMMA SameOrder ==
  ASSUME NEW x \in Ids, NEW y \in Ids, SegOf(x) = SegOf(y)
  PROVE  x <= y <=> OffOf(x) <= OffOf(y)
  <1> DEFINE a == SegOf(x) * SegPos
             o == OffOf(x)
             p == OffOf(y)
  <1>1. a \in Nat /\ o \in Nat /\ p \in Nat /\ x = a + o /\ y = a + p
    BY Placed, Constants
  <1> HIDE DEF a, o, p
  <1>2. x <= y <=> o <= p
    BY <1>1
  <1> QED
    BY <1>2 DEF o, p

-----------------------------------------------------------------------------
(* The sources act *)

\* A source goes on to another state.
LEMMA TurnsGood ==
  ASSUME Peers = {}, NEW k, NEW m, NEW n, NEW sv, NEW h, NEW D, Good(D, k, m, sv, h, 0, 0), m \subseteq n,
         NEW s \in Sources, NEW x \in {"m3u8", "idle", "open", "read"}, NEW z \in BOOLEAN,
         Regular => /\ x \in {"m3u8", "idle"} => D.src[s].queue = <<>>
                    /\ x = "read" /\ D.src[s].queue # <<>> => SegOf(Head(D.src[s].queue)) \in n
  PROVE  /\ Good([D EXCEPT !.src[s].st = x], k, n, sv, h, 0, 0)
         /\ Good([D EXCEPT !.src[s].st = x, !.src[s].zero = z], k, n, sv, h, 0, 0)
  <1> DEFINE u == D.src[s]
             w == [u EXCEPT !.st = x]
             v == [u EXCEPT !.st = x, !.zero = z]
  <1>1. u \in SourceType /\ D \in [dl : Windows, src : [Sources -> SourceType]] /\ D.src \in [Sources -> SourceType]
    BY WindowFacts DEF Good, Calm, Fit, Worlds
  <1>2. [D EXCEPT !.src[s].st = x] = PutSrc(D, s, w) /\ [D EXCEPT !.src[s].st = x, !.src[s].zero = z] = PutSrc(D, s, v)
    BY <1>1 DEF PutSrc
  <1>3. w \in SourceType /\ w.ctx = u.ctx /\ w.queue = u.queue /\ w.st = x
    <2> HIDE DEF u
    <2> QED
      BY <1>1 DEF SourceType
  <1>4. v \in SourceType /\ v.ctx = u.ctx /\ v.queue = u.queue /\ v.st = x
    <2> HIDE DEF u
    <2> QED
      BY <1>1 DEF SourceType
  <1> HIDE DEF w, v
  <1>5. Good(PutSrc(D, s, w), k, n, sv, h, 0, 0)
    BY <1>3, SourceGood
  <1>6. Good(PutSrc(D, s, v), k, n, sv, h, 0, 0)
    BY <1>4, SourceGood
  <1> QED
    BY <1>2, <1>5, <1>6

\* The piece_ of a source becomes one of size 0, or another one.
LEMMA ZeroGood ==
  ASSUME Peers = {}, NEW k, NEW m, NEW sv, NEW h, NEW D, Good(D, k, m, sv, h, 0, 0), NEW s \in Sources, NEW z \in BOOLEAN
  PROVE  Good([D EXCEPT !.src[s].zero = z], k, m, sv, h, 0, 0)
  <1> DEFINE u == D.src[s]
             w == [u EXCEPT !.zero = z]
  <1>1. u \in SourceType /\ D \in [dl : Windows, src : [Sources -> SourceType]] /\ D.src \in [Sources -> SourceType]
    BY WindowFacts DEF Good, Calm, Fit, Worlds
  <1>2. [D EXCEPT !.src[s].zero = z] = PutSrc(D, s, w)
    BY <1>1 DEF PutSrc
  <1>3. w \in SourceType /\ w.ctx = u.ctx /\ w.queue = u.queue /\ w.st = u.st
    <2> HIDE DEF u
    <2> QED
      BY <1>1 DEF SourceType
  <1>4. Regular => /\ u.st \in {"m3u8", "idle"} => u.queue = <<>>
                   /\ u.st = "read" /\ u.queue # <<>> => SegOf(Head(u.queue)) \in m
    BY DEF Good, Pieces, Stands
  <1> HIDE DEF w
  <1>5. Good(PutSrc(D, s, w), k, m, sv, h, 0, 0)
    BY <1>3, <1>4, SourceGood
  <1> QED
    BY <1>2, <1>5

\* A source whose request is over asks for the next task.
LEMMA DoneGood ==
  ASSUME Peers = {}, NEW k, NEW sv, NEW h, NEW D, Good(D, k, k, sv, h, 0, 0), NEW s \in Sources,
         Regular => D.src[s].queue = <<>>
  PROVE  Good(Done(D, s), k, k, sv, h, 0, 0)
  <1> DEFINE E == [D EXCEPT !.src[s].st = "idle", !.src[s].zero = FALSE]
  <1>1. Good(E, k, k, sv, h, 0, 0)
    BY TurnsGood
  <1>2. Done(D, s) = on_ready(E, s)
    BY DEF Done
  <1> HIDE DEF E
  <1> QED
    BY <1>1, <1>2, ReadyGood

\* A source acts.
LEMMA SourceActs ==
  ASSUME Peers = {}, WebInv, NEW s \in Sources,
         \/ on_sources(s) \/ handle_m3u8_open(s)
         \/ handle_open_canceled(s) \/ handle_open_error(s) \/ handle_open(s)
         \/ handle_read_canceled(s) \/ handle_read(s) \/ on_timer_stalled(s)
         \/ on_bind(s) \/ on_map(s) \/ on_tunnel_disconnect(s)
         \/ \E k \in 1 .. PeerWindow : on_data(s, k) \/ on_timer_late(s, k)
  PROVE  WebInv'
  <1> DEFINE q == src[s].queue
             G(D) == Good(D, meta, meta, saved, has, 0, 0)
  <1>1. /\ G(Cur) /\ Cur.src = src /\ Cur.dl = dl
        /\ order \in Seq(Sources) /\ has \subseteq Ids /\ saved \subseteq Segs /\ meta \subseteq Segs
    BY DEF WebInv, Ranges, Cur
  <1>2. src[s] \in SourceType /\ q \in Seq(Ids) /\ Cur \in [dl : Windows, src : [Sources -> SourceType]]
        /\ src \in [Sources -> SourceType] /\ Fit(Cur)
    <2>1. Fit(Cur) /\ Cur \in [dl : Windows, src : [Sources -> SourceType]]
      BY <1>1 DEF Good, Calm, Fit, Worlds
    <2>2. src \in [Sources -> SourceType] /\ src[s] \in SourceType
      BY <1>1, <2>1, WindowFacts
    <2> QED
      BY <2>1, <2>2 DEF SourceType
  <1>3. Regular => /\ src[s].st \in {"m3u8", "idle"} => q = <<>>
                   /\ src[s].st = "read" /\ q # <<>> => SegOf(Head(q)) \in meta
    BY <1>1 DEF Good, Pieces, Stands
  <1>4. \A D : G(D) /\ Becomes(D) /\ UNCHANGED <<has, saved, meta, sink, play, download>> /\ order' \in Seq(Sources) => WebInv'
    BY <1>1, WebStep
  <1>5. \A D : G(D) => G(on_ready(D, s))
    BY ReadyGood
  <1>6. ASSUME on_sources(s) PROVE WebInv'
    <2> DEFINE E == IF src[s].st = "idle" THEN on_ready(Cur, s) ELSE Cur
    <2>1. G(E)
      BY <1>1, <1>5
    <2>2. Becomes(E) /\ order' = Append(order, s) /\ UNCHANGED <<has, saved, meta, sink, play, download>>
      BY <1>6 DEF on_sources
    <2>3. order' \in Seq(Sources)
      BY <1>1, <2>2
    <2> HIDE DEF E, G
    <2> QED
      BY <1>4, <2>1, <2>2, <2>3
  <1>7. ASSUME handle_m3u8_open(s) PROVE WebInv'
    <2> DEFINE D == [Cur EXCEPT !.src[s].st = "idle"]
               E == on_ready(D, s)
    <2>1. src[s].st = "m3u8" /\ Becomes(E) /\ UNCHANGED <<order, has, saved, meta, sink, play, download>>
      BY <1>7 DEF handle_m3u8_open
    <2>2. Regular => Cur.src[s].queue = <<>>
      BY <1>1, <1>3, <2>1
    <2>3. G(D)
      BY <1>1, <2>2, TurnsGood
    <2>4. G(E)
      <3> HIDE DEF D, G
      <3> QED
        BY <1>5, <2>3
    <2> HIDE DEF E, G
    <2> QED
      BY <1>1, <1>4, <2>1, <2>4
  <1>8. ASSUME handle_open_canceled(s) PROVE WebInv'
    <2>1. q = <<>> /\ Becomes(Done(Cur, s)) /\ UNCHANGED <<order, has, saved, meta, sink, play, download>>
      BY <1>8 DEF handle_open_canceled
    <2>2. G(Done(Cur, s))
      BY <1>1, <2>1, DoneGood
    <2> HIDE DEF G
    <2> QED
      BY <1>1, <1>4, <2>1, <2>2
  <1>9. ASSUME NEW z \in BOOLEAN, src' = [src EXCEPT ![s].zero = z],
               UNCHANGED <<dl, order, has, saved, meta, sink, play, download>>
        PROVE  WebInv'
    <2> DEFINE E == [Cur EXCEPT !.src[s].zero = z]
    <2>1. G(E)
      BY <1>1, ZeroGood
    <2>2. Becomes(E)
      BY <1>1, <1>2, <1>9 DEF Becomes, Cur
    <2> HIDE DEF E, G
    <2> QED
      BY <1>1, <1>4, <1>9, <2>1, <2>2
  <1>10. ASSUME handle_open_error(s) \/ on_timer_stalled(s) PROVE WebInv'
    BY <1>9, <1>10 DEF handle_open_error, on_timer_stalled
  <1>11. ASSUME handle_open(s) PROVE WebInv'
    <2> DEFINE g == SegOf(Head(q))
               n == meta \union {g}
               D == [Cur EXCEPT !.src[s].st = "read"]
               E == IF g \in meta THEN D ELSE update_segment(D, g)
    <2>1. /\ q # <<>> /\ meta' = n /\ Becomes(E) /\ UNCHANGED <<order, has, saved, sink, play, download>>
      BY <1>11 DEF handle_open
    <2>2. Head(q) \in Ids /\ g \in Segs
      <3>1. Head(q) \in Ids
        BY <1>2, <2>1
      <3> QED
        BY <3>1, Placed
    <2>3. n \subseteq Segs /\ g \in n /\ meta \subseteq n
      BY <1>1, <2>2
    <2>4. Good(D, meta, n, saved, has, 0, 0)
      BY <1>1, <2>3, TurnsGood
    <2>5. Good(E, n, n, saved, has, 0, 0)
      <3>1. CASE g \in meta
        <4>1. n = meta /\ E = D
          BY <3>1
        <4> QED
          BY <2>4, <4>1
      <3>2. CASE g \notin meta
        <4>1. E = update_segment(D, g)
          BY <3>2
        <4> HIDE DEF D, E, g
        <4> QED
          BY <1>1, <2>2, <2>4, <4>1, UpdateGood
      <3> QED
        BY <3>1, <3>2
    <2> HIDE DEF E, n, G
    <2> QED
      BY <1>1, <2>1, <2>3, <2>5, WebStep
  <1>12. ASSUME handle_read_canceled(s) PROVE WebInv'
    <2> DEFINE E == IF q = <<>> THEN Done(Cur, s) ELSE [Cur EXCEPT !.src[s].st = "open", !.src[s].zero = FALSE]
    <2>1. Becomes(E) /\ UNCHANGED <<order, has, saved, meta, sink, play, download>>
      BY <1>12 DEF handle_read_canceled
    <2>2. G(E)
      <3>1. CASE q = <<>>
        BY <1>1, <3>1, DoneGood
      <3>2. CASE q # <<>>
        <4>1. G([Cur EXCEPT !.src[s].st = "open", !.src[s].zero = FALSE])
          BY <1>1, TurnsGood
        <4> QED
          BY <3>2, <4>1
      <3> QED
        BY <3>1, <3>2
    <2> HIDE DEF E, G
    <2> QED
      BY <1>1, <1>4, <2>1, <2>2
  <1>13. ASSUME handle_read(s) PROVE WebInv'
    <2> DEFINE y == Head(q)
               h == has \union {y}
               r == Tail(q)
               D == [Cur EXCEPT !.src[s].queue = r]
               E == IF Len(q) = 1 THEN Done(D, s) ELSE IF q[2] # q[1] + 1 THEN [D EXCEPT !.src[s].st = "open"] ELSE D
               w == [Cur.src[s] EXCEPT !.queue = Tail(Cur.src[s].queue)]
    <2>1. /\ src[s].st = "read" /\ q # <<>> /\ Exists(y) /\ has' = h /\ Becomes(E)
          /\ UNCHANGED <<order, saved, meta, sink, play, download>>
      BY <1>13 DEF handle_read
    <2>2. D = PutSrc(Cur, s, w) /\ D.src[s] = [src[s] EXCEPT !.queue = r]
      BY <1>1, <1>2 DEF PutSrc
    <2>3. Good(D, meta, meta, saved, h, 0, 0)
      <3>1. Good(PutSrc(Cur, s, w), meta, meta, saved, has \union {Head(Cur.src[s].queue)}, 0, 0)
        BY <1>1, <2>1, PieceGood
      <3> QED
        BY <1>1, <2>2, <3>1
    <2>4. D.src[s].queue = r /\ (Len(q) = 1 => r = <<>>)
      <3>1. r \in Seq(Ids) /\ Len(r) = Len(q) - 1
        BY <1>2, <2>1
      <3>2. Len(q) = 1 => r = <<>>
        <4> SUFFICES ASSUME Len(q) = 1 PROVE r = <<>>
          OBVIOUS
        <4> HIDE DEF r
        <4>1. Len(r) = 0
          BY <3>1
        <4> QED
          BY <3>1, <4>1
      <3> HIDE DEF D, r
      <3> QED
        BY <1>2, <2>2, <3>2 DEF SourceType
    <2>5. h \subseteq Ids /\ has \subseteq h
      BY <1>1, <1>2, <2>1
    <2> HIDE DEF D, r, h, y, w
    <2>6. Good(E, meta, meta, saved, h, 0, 0)
      <3>1. CASE Len(q) = 1
        <4>1. Good(Done(D, s), meta, meta, saved, h, 0, 0)
          BY <2>3, <2>4, <3>1, DoneGood
        <4> QED
          BY <3>1, <4>1
      <3>2. CASE Len(q) # 1 /\ q[2] # q[1] + 1
        <4>1. Good([D EXCEPT !.src[s].st = "open"], meta, meta, saved, h, 0, 0)
          BY <2>3, TurnsGood
        <4> QED
          BY <3>2, <4>1
      <3>3. CASE Len(q) # 1 /\ ~(q[2] # q[1] + 1)
        BY <2>3, <3>3
      <3> QED
        BY <3>1, <3>2, <3>3
    <2> HIDE DEF E, G
    <2> QED
      BY <1>1, <2>1, <2>5, <2>6, WebStep
  <1>14. ~(on_bind(s) \/ on_map(s) \/ on_tunnel_disconnect(s) \/ \E k \in 1 .. PeerWindow : on_data(s, k) \/ on_timer_late(s, k))
    BY DEF on_bind, on_map, on_tunnel_disconnect, on_data, on_timer_late
  <1> QED
    BY <1>6, <1>7, <1>8, <1>10, <1>11, <1>12, <1>13, <1>14

-----------------------------------------------------------------------------
(* The sink and the disk cache act *)

\* What a step of the sink keeps of the pieces comes by segments.
LEMMA SegmentsStay ==
  ASSUME NEW D, NEW sv, NEW h \in SUBSET Ids, NEW i \in SUBSET h, NEW lo, NEW hi, NEW a, NEW b,
         Whole(D, sv, h, lo, hi),
         \A x \in i : (lo <= x /\ x < hi) => Live(D, SegOf(x)) \/ SegOf(x) \in sv \/ Entire(h, x),
         \A x \in i : ~Live(D, SegOf(x)) => \A y \in h : SegOf(y) = SegOf(x) => y \in i
  PROVE  Whole(D, sv, i, a, b)
  <1> SUFFICES ASSUME NEW x \in i, ~Live(D, SegOf(x)), SegOf(x) \notin sv
               PROVE  Entire(i, x)
    BY DEF Whole
  <1>1. Entire(h, x)
    BY DEF Whole
  <1> QED
    BY <1>1 DEF Entire

\* A segment is within the lock of the sink or outside it.
LEMMA InLock ==
  ASSUME SinkOk(sink), Locks(sink, saved, has), NEW x \in Ids, NEW y \in Ids, SegOf(x) = SegOf(y)
  PROVE  sink.from <= x /\ x < sink.to <=> sink.from <= y /\ y < sink.to
  <1>1. CASE sink.from = 0 /\ sink.to = 0
    <2>1. x \in Nat /\ y \in Nat
      BY Constants
    <2> QED
      BY <1>1, <2>1
  <1>2. CASE sink.from \in Ids /\ OffOf(sink.from) = 0 /\ sink.to = sink.from + SegPos
    <2>1. x \in Int /\ y \in Int
      BY Constants
    <2>2. sink.from <= x /\ x < sink.from + SegPos <=> SegOf(x) = SegOf(sink.from)
      BY <1>2, <2>1, LockSegment
    <2>3. sink.from <= y /\ y < sink.from + SegPos <=> SegOf(y) = SegOf(sink.from)
      BY <1>2, <2>1, LockSegment
    <2> QED
      BY <1>2, <2>2, <2>3
  <1> QED
    BY <1>1, <1>2 DEF Locks

\* The sink starts at the beginning.
LEMMA AddGood ==
  ASSUME Peers = {}, WebInv, add_sink
  PROVE  WebInv'
  <1> DEFINE r == prepare_taskwindow(Cur, 0, Window, has, 0, 0)
             k == [on |-> TRUE, pos |-> 0, from |-> 0, to |-> 0]
  <1>1. /\ Good(Cur, meta, meta, saved, has, 0, 0) /\ order \in Seq(Sources)
        /\ has \subseteq Ids /\ saved \subseteq Segs /\ meta \subseteq Segs
    BY DEF WebInv, Ranges
  <1>2. /\ sink' = k /\ play' = 0 /\ download' = 0 /\ Becomes(r.d) /\ has' = r.has
        /\ order' = order /\ saved' = saved /\ meta' = meta
    BY DEF add_sink, reset
  <1>3. 0 \in Ids /\ OffOf(0) = 0 /\ 0 \in 0 .. End
    BY Origin
  <1>4. NoGap(0, saved, has)
    <2>1. \A x \in Ids : OffOf(x) \in 0 .. SegPos - 1 /\ SegPos \in Nat
      BY Placed, Constants
    <2>2. \A x \in Ids : ~(OffOf(x) < 0)
      BY <2>1
    <2> QED
      BY <1>3, <2>2 DEF NoGap
  <1> HIDE DEF r
  <1>5. Good(r.d, meta, meta, saved, r.has, 0, 0)
    BY <1>1, <1>3, <1>4, Constants, PreparedGood DEF r
  <1>6. r.has \subseteq has
    <2>1. Fit(Cur) /\ Window \in Nat
      BY <1>1, Constants DEF Good, Calm
    <2> QED
      BY <1>1, <1>3, <2>1, PreparedKept DEF r
  <1>7. Good(Cur, meta, meta, saved, has, 0, 0)'
    BY <1>2, <1>5, BecomesGood
  <1>8. k \in [on : BOOLEAN, pos : 0 .. End, from : 0 .. End, to : 0 .. End]
    BY <1>3
  <1>9. Ranges'
    BY <1>1, <1>2, <1>3, <1>6, <1>8 DEF WebInv, Ranges, SinkOk
  <1>10. Locks(k, saved, r.has)
    BY Constants DEF Locks
  <1>11. Locks(sink, saved, has)'
    <2> HIDE DEF k
    <2> QED
      BY <1>2, <1>10
  <1> QED
    BY <1>7, <1>9, <1>11 DEF WebInv

\* The sink is gone.
LEMMA DelGood ==
  ASSUME Peers = {}, WebInv, del_sink
  PROVE  WebInv'
  <1> DEFINE kept == {x \in has : SegOf(x) \in dl.beg .. dl.end - 1 \/ ~(sink.from <= x /\ x < sink.to)}
             r == prepare_taskwindow(Cur, 0, 0, kept, 0, 0)
  <1>1. /\ Good(Cur, meta, meta, saved, has, 0, 0) /\ order \in Seq(Sources) /\ SinkOk(sink)
        /\ has \subseteq Ids /\ saved \subseteq Segs /\ meta \subseteq Segs /\ Cur.dl = dl
    BY DEF WebInv, Ranges, Cur
  <1>2. /\ sink' = [sink EXCEPT !.on = FALSE, !.from = 0, !.to = 0] /\ Becomes(r.d) /\ has' = r.has
        /\ order' = order /\ saved' = saved /\ meta' = meta /\ play' = play /\ download' = download
    BY DEF del_sink, reset
  <1>3. Fit(Cur) /\ 0 \in Nat
    BY <1>1 DEF Good, Calm
  <1>4. kept \in SUBSET has /\ kept \in SUBSET Ids
    BY <1>1
  <1>5. \A x \in has : x \in kept <=> Live(Cur, SegOf(x)) \/ ~(sink.from <= x /\ x < sink.to)
    BY <1>1, <1>3, Within
  <1> HIDE DEF kept, r
  <1>6. Good(Cur, meta, meta, saved, kept, 0, 0)
    <2>1. ASSUME Regular PROVE Whole(Cur, saved, kept, 0, 0)
      <3>1. Whole(Cur, saved, has, 0, 0) /\ Locks(sink, saved, has)
        BY <1>1, <2>1 DEF Good, Pieces, WebInv
      <3>2. ASSUME NEW x \in kept, ~Live(Cur, SegOf(x)), NEW y \in has, SegOf(y) = SegOf(x) PROVE y \in kept
        <4>1. x \in Ids /\ y \in Ids /\ x \in has
          BY <1>1, <1>4
        <4>2. sink.from <= x /\ x < sink.to <=> sink.from <= y /\ y < sink.to
          BY <1>1, <3>1, <3>2, <4>1, InLock
        <4> QED
          BY <1>5, <3>2, <4>1, <4>2
      <3>3. \A x \in kept : ~(0 <= x /\ x < 0)
        BY <1>4, Constants
      <3> QED
        BY <1>1, <1>4, <3>1, <3>2, <3>3, SegmentsStay
    <2> QED
      BY <1>1, <1>4, <1>5, <2>1, ReleasedGood
  <1>7. NoGap(0, saved, kept)
    BY NothingBefore, Origin
  <1>8. Good(r.d, meta, meta, saved, r.has, 0, 0)
    BY <1>1, <1>3, <1>6, <1>7, Origin, PreparedGood DEF r
  <1>9. r.has \subseteq kept
    BY <1>1, <1>3, <1>4, Origin, PreparedKept DEF r
  <1>10. Good(Cur, meta, meta, saved, has, 0, 0)'
    BY <1>2, <1>8, BecomesGood
  <1>11. SinkOk(sink') /\ sink'.on = FALSE /\ sink'.from = 0 /\ sink'.to = 0
    <2> DEFINE k == [sink EXCEPT !.on = FALSE, !.from = 0, !.to = 0]
    <2>1. SinkOk(k) /\ k.on = FALSE /\ k.from = 0 /\ k.to = 0
      BY <1>1, Origin DEF SinkOk
    <2> HIDE DEF k
    <2> QED
      BY <1>2, <2>1 DEF k
  <1>12. Ranges'
    <2>1. play \in 0 .. End /\ download \in 0 .. End
      BY DEF WebInv, Ranges
    <2> QED
      BY <1>1, <1>2, <1>4, <1>9, <1>11, <2>1 DEF WebInv, Ranges
  <1>13. Locks(sink', saved', has')
    BY <1>11 DEF Locks
  <1>14. Locks(sink, saved, has)'
    BY <1>13
  <1> QED
    BY <1>10, <1>12, <1>14 DEF WebInv

\* The sink reads a piece.
LEMMA ReadGood ==
  ASSUME WebInv, read
  PROVE  WebInv'
  <1> DEFINE p == sink.pos
             n == (SegOf(p) + 1) * SegPos
             x == IF Exists(p + 1) THEN p + 1 ELSE n
             k == [sink EXCEPT !.pos = x]
  <1>1. /\ Good(Cur, meta, meta, saved, has, 0, 0) /\ order \in Seq(Sources) /\ SinkOk(sink)
        /\ has \subseteq Ids /\ saved \subseteq Segs /\ meta \subseteq Segs
        /\ play \in 0 .. End /\ download \in 0 .. End
    BY DEF WebInv, Ranges
  <1>2. sink \in [on : BOOLEAN, pos : 0 .. End, from : 0 .. End, to : 0 .. End] /\ p \in Nat /\ End \in Nat
        /\ sink.from \in Nat /\ sink.to \in Nat /\ sink.to <= End
    <2>1. sink \in [on : BOOLEAN, pos : 0 .. End, from : 0 .. End, to : 0 .. End] /\ End \in Nat
      BY <1>1, Origin DEF SinkOk
    <2>2. p \in 0 .. End /\ sink.from \in 0 .. End /\ sink.to \in 0 .. End
      BY <2>1
    <2> HIDE DEF p
    <2> QED
      BY <2>1, <2>2
  <1>3. /\ sink.on /\ p < sink.to /\ (p \in has \/ SegOf(p) \in saved) /\ sink' = k
        /\ UNCHANGED <<dl, src, order, has, saved, meta, play, download>>
    BY <1>2 DEF read
  <1>4. p \in Ids
    <2>1. p < End
      <3> HIDE DEF p
      <3> QED
        BY <1>2, <1>3
    <2> QED
      BY <1>2, <2>1, Constants
  <1>5. Becomes(Cur)
    BY <1>3 DEF Becomes, Cur
  <1>6. Good(Cur, meta, meta, saved, has, 0, 0)'
    BY <1>1, <1>3, <1>5, BecomesGood
  <1>7. n \in 0 .. End /\ (Exists(p + 1) => p + 1 \in 0 .. End)
    <2>1. n \in Nat /\ n <= End
      <3>1. SegOf(p) \in Segs /\ SegPos \in Nat /\ SegCount \in Nat /\ End = SegCount * SegPos
        BY <1>4, Placed, Constants DEF End
      <3> DEFINE g == SegOf(p)
      <3> HIDE DEF g
      <3>2. g + 1 \in Nat /\ (g + 1 < SegCount \/ g + 1 = SegCount)
        BY <3>1, Constants DEF g
      <3>3. (g + 1) * SegPos \in Nat /\ (g + 1) * SegPos <= SegCount * SegPos
        BY <3>1, <3>2, Products
      <3> QED
        BY <3>1, <3>3 DEF g
    <2>2. Exists(p + 1) => p + 1 \in Ids
      BY DEF Exists
    <2> HIDE DEF n, p
    <2>3. p + 1 \in Ids => p + 1 \in 0 .. End
      BY <1>2, Constants
    <2> QED
      BY <1>2, <2>1, <2>2, <2>3
  <1>8. x \in 0 .. End
    BY <1>7
  <1>9. SinkOk(k) /\ k.on = sink.on /\ k.from = sink.from /\ k.to = sink.to /\ k.pos = x
    <2> HIDE DEF x
    <2> QED
      BY <1>2, <1>8 DEF SinkOk
  <1>10. Ranges'
    <2> HIDE DEF k
    <2> QED
      BY <1>1, <1>3, <1>9 DEF WebInv, Ranges
  <1>11. ASSUME Regular PROVE Locks(k, saved, has)
    <2> DEFINE a == sink.from
    <2>1. /\ a <= p /\ p <= sink.to
          /\ (a = 0 /\ sink.to = 0) \/ (a \in Ids /\ OffOf(a) = 0 /\ sink.to = a + SegPos)
          /\ \A y \in Ids : a <= y /\ y < p /\ Exists(y) => y \in has \/ SegOf(y) \in saved
      BY <1>3, <1>11 DEF WebInv, Locks
    <2>2. a \in Ids /\ OffOf(a) = 0 /\ sink.to = a + SegPos
      <3> HIDE DEF p, a
      <3> QED
        BY <1>2, <1>3, <2>1
    <2>3. /\ \A y \in Ids : a <= y /\ y < sink.to <=> SegOf(y) = SegOf(a)
          /\ sink.to = (SegOf(a) + 1) * SegPos /\ \A y \in Int : a <= y /\ y < sink.to => y \in Ids
      BY <2>2, LockSegment, Constants
    <2>4. SegOf(p) = SegOf(a) /\ n = sink.to
      BY <1>3, <1>4, <2>1, <2>3
    <2>5. a <= x /\ x <= sink.to
      <3> HIDE DEF n, p, a
      <3>1. a \in Nat
        BY <1>2 DEF a
      <3> QED
        BY <1>2, <1>3, <2>1, <2>4, <3>1
    <2>6. ASSUME NEW y \in Ids, a <= y, y < x, Exists(y) PROVE y \in has \/ SegOf(y) \in saved
      <3>1. y \in Nat /\ a \in Nat
        BY <1>2, Constants
      <3>2. CASE y < p
        BY <2>1, <2>6, <3>2
      <3>3. CASE y = p
        BY <1>3, <3>3
      <3>4. CASE p < y
        <4>1. ~Exists(p + 1) /\ x = n
          <5> SUFFICES ASSUME Exists(p + 1) PROVE FALSE
            OBVIOUS
          <5>1. y < p + 1
            BY <2>6
          <5> HIDE DEF p
          <5> QED
            BY <1>2, <3>1, <3>4, <5>1
        <4> DEFINE z == p + 1
        <4>2. z \in Int /\ a <= z /\ z <= y /\ y < sink.to
          <5>1. y < sink.to
            BY <2>4, <2>6, <4>1
          <5> HIDE DEF p, a
          <5> QED
            BY <1>2, <2>1, <3>1, <3>4, <5>1
        <4>3. z \in Ids /\ SegOf(z) = SegOf(a) /\ SegOf(y) = SegOf(a)
          <5>1. z < sink.to
            <6> HIDE DEF z
            <6> QED
              BY <1>2, <3>1, <4>2
          <5>2. z \in Ids
            BY <2>3, <4>2, <5>1
          <5> QED
            BY <2>3, <2>6, <4>2, <5>1, <5>2
        <4> HIDE DEF z
        <4>4. OffOf(z) <= OffOf(y)
          BY <2>6, <4>2, <4>3, SameOrder
        <4>5. Exists(z)
          <5>1. OffOf(y) < SegLen[SegOf(a)]
            BY <2>6, <4>3 DEF Exists
          <5>2. OffOf(y) \in Nat /\ OffOf(z) \in Nat /\ SegLen[SegOf(a)] \in Nat
            <6>1. OffOf(y) \in 0 .. SegPos - 1 /\ OffOf(z) \in 0 .. SegPos - 1 /\ SegOf(z) \in Segs
              BY <4>3, Placed
            <6>2. OffOf(y) \in Nat /\ OffOf(z) \in Nat
              BY <6>1, Constants
            <6>3. SegOf(a) \in Segs
              BY <4>3, <6>1
            <6> QED
              BY <6>2, <6>3, Constants
          <5>3. OffOf(z) < SegLen[SegOf(a)]
            BY <4>4, <5>1, <5>2
          <5> QED
            BY <4>3, <5>3 DEF Exists
        <4> QED
          BY <4>1, <4>5 DEF z
      <3> HIDE DEF p, x
      <3> QED
        BY <1>2, <3>1, <3>2, <3>3, <3>4
    <2>7. k.on => k.from <= k.pos /\ k.pos <= k.to
      BY <1>9, <2>5
    <2> HIDE DEF k, x
    <2> QED
      BY <1>3, <1>9, <2>2, <2>5, <2>6 DEF Locks
  <1>12. Regular => Locks(sink', saved', has')
    BY <1>3, <1>11
  <1>13. Regular => Locks(sink, saved, has)'
    BY <1>12
  <1> QED
    BY <1>6, <1>10, <1>13 DEF WebInv

\* The window follows the sink.
LEMMA TimerGood ==
  ASSUME Peers = {}, WebInv, on_timer
  PROVE  WebInv'
  <1> DEFINE p == sink.pos
             a == sink.from
             b == sink.to
             r == prepare_taskwindow(Cur, p, Window, has, a, b)
  <1>1. /\ Good(Cur, meta, meta, saved, has, 0, 0) /\ order \in Seq(Sources) /\ SinkOk(sink)
        /\ has \subseteq Ids /\ saved \subseteq Segs /\ meta \subseteq Segs
        /\ play \in 0 .. End /\ download \in 0 .. End
    BY DEF WebInv, Ranges
  <1>2. /\ sink.on /\ p < End /\ play' = p /\ Becomes(r.d) /\ has' = r.has
        /\ UNCHANGED <<order, saved, meta, sink, download>>
    BY DEF on_timer, reset, Behind
  <1>3. p \in 0 .. End /\ a \in 0 .. End /\ b \in 0 .. End /\ End \in Nat
    BY <1>1, Origin DEF SinkOk
  <1>4. p \in Ids /\ p \in Nat /\ a \in Nat /\ b \in Nat
    <2> HIDE DEF p, a, b
    <2> QED
      BY <1>2, <1>3, Constants
  <1>5. Fit(Cur) /\ Window \in Nat
    BY <1>1, Constants DEF Good, Calm
  <1>6. ASSUME Regular
        PROVE  /\ a <= p /\ p <= b
               /\ \A x \in Ids : a <= x /\ x < p /\ Exists(x) => x \in has \/ SegOf(x) \in saved
               /\ (a = 0 /\ b = 0) \/ (a \in Ids /\ OffOf(a) = 0 /\ b = a + SegPos)
    BY <1>2, <1>6 DEF WebInv, Locks
  <1>7. ASSUME Regular, a \in Ids, OffOf(a) = 0, b = a + SegPos
        PROVE  /\ \A x \in Ids : a <= x /\ x < b <=> SegOf(x) = SegOf(a)
               /\ p < b => SegOf(p) = SegOf(a)
               /\ p = b => OffOf(p) = 0
    <2>1. \A x \in Ids : a <= x /\ x < b <=> SegOf(x) = SegOf(a)
      BY <1>7, LockSegment, Constants
    <2>2. p < b => SegOf(p) = SegOf(a)
      BY <1>4, <1>6, <1>7, <2>1
    <2>3. ASSUME p = b PROVE OffOf(p) = 0
      <3>1. b = (SegOf(a) + 1) * SegPos /\ a \in Int
        BY <1>4, <1>7, LockSegment
      <3>2. SegOf(a) \in Nat /\ SegPos \in Nat /\ SegPos >= 1 /\ SegCount \in Nat /\ End = SegCount * SegPos
        BY <1>7, Placed, Constants DEF End
      <3> DEFINE g == SegOf(a) + 1
      <3>3. g \in Nat /\ b = g * SegPos /\ b < SegCount * SegPos
        BY <1>2, <2>3, <3>1, <3>2
      <3> HIDE DEF g
      <3>4. g < SegCount
        <4> SUFFICES ASSUME ~(g < SegCount) PROVE FALSE
          OBVIOUS
        <4>1. g = SegCount \/ SegCount < g
          BY <3>2, <3>3
        <4>2. SegCount < g => SegCount * SegPos + SegPos <= g * SegPos /\ SegCount * SegPos \in Nat
          BY <3>2, <3>3, Products
        <4> DEFINE y == g * SegPos
                   z == SegCount * SegPos
        <4>3. b = y /\ b < z /\ (g = SegCount => y = z) /\ (SegCount < g => z + SegPos <= y /\ z \in Nat)
          BY <3>3, <4>2
        <4> HIDE DEF y, z, b
        <4> QED
          BY <1>4, <3>2, <4>1, <4>3
      <3>5. g \in Segs /\ 0 \in 0 .. SegPos - 1
        BY <3>2, <3>3, <3>4, Constants
      <3> DEFINE w == g * SegPos + 0
      <3>6. OffOf(w) = 0
        BY <3>5, OnePlace
      <3>7. w = p
        BY <1>4, <2>3, <3>3
      <3> HIDE DEF w, p
      <3> QED
        BY <3>6, <3>7
    <2> QED
      BY <2>1, <2>2, <2>3
  <1>8. ASSUME Regular PROVE NoGap(p, saved, has)
    <2>1. CASE OffOf(p) = 0
      BY <1>4, <2>1, NothingBefore
    <2>2. CASE OffOf(p) # 0
      <3>1. p # 0
        BY <2>2, Origin
      <3>2. a \in Ids /\ OffOf(a) = 0 /\ b = a + SegPos
        <4> HIDE DEF p, a, b
        <4> QED
          BY <1>4, <1>6, <1>8, <3>1
      <3>3. p # b
        BY <1>7, <1>8, <2>2, <3>2
      <3>4. p < b
        <4>1. p <= b
          BY <1>6, <1>8
        <4> HIDE DEF p, a, b
        <4> QED
          BY <1>4, <3>3, <4>1
      <3>5. SegOf(p) = SegOf(a)
        BY <1>7, <1>8, <3>2, <3>4
      <3> SUFFICES ASSUME NEW x \in Ids, SegOf(x) = SegOf(p), OffOf(x) < OffOf(p), Exists(x)
                   PROVE  x \in has \/ SegOf(x) \in saved
        BY DEF NoGap
      <3>6. a <= x
        BY <1>7, <1>8, <3>2, <3>5
      <3>7. ~(p <= x)
        <4>1. p <= x <=> OffOf(p) <= OffOf(x)
          BY <1>4, SameOrder
        <4>2. OffOf(x) \in Nat /\ OffOf(p) \in Nat
          BY <1>4, Placed, Constants
        <4> QED
          BY <4>1, <4>2
      <3>8. x < p
        <4> HIDE DEF p
        <4> QED
          BY <1>4, <3>7, Constants
      <3> QED
        BY <1>6, <1>8, <3>6, <3>8
    <2> QED
      BY <2>1, <2>2
  <1> HIDE DEF r
  <1>9. Good(r.d, meta, meta, saved, r.has, a, b)
    <2> HIDE DEF p, a, b
    <2> QED
      BY <1>1, <1>4, <1>5, <1>8, PreparedGood DEF r
  <1>10. r.has \in SUBSET has /\ (\A x \in has : a <= x /\ x < b => x \in r.has) /\ Live(r.d, SegOf(p))
    <2> HIDE DEF p, a, b
    <2> QED
      BY <1>1, <1>4, <1>5, PreparedKept DEF r
  <1>11. ASSUME Regular PROVE Whole(r.d, saved, r.has, 0, 0)
    <2>1. Whole(r.d, saved, r.has, a, b)
      BY <1>9, <1>11 DEF Good, Pieces
    <2>2. ASSUME NEW x \in r.has, a <= x, x < b
          PROVE  Live(r.d, SegOf(x)) \/ SegOf(x) \in saved \/ Entire(r.has, x)
      <3>1. x \in Ids /\ x \in Nat
        BY <1>1, <1>10, Constants
      <3>2. a \in Ids /\ OffOf(a) = 0 /\ b = a + SegPos
        <4> HIDE DEF p, a, b
        <4> QED
          BY <1>4, <1>6, <1>11, <2>2, <3>1
      <3>3. SegOf(x) = SegOf(a)
        BY <1>7, <1>11, <2>2, <3>1, <3>2
      <3>4. CASE p < b
        BY <1>7, <1>10, <1>11, <3>2, <3>3, <3>4
      <3>5. CASE p = b
        <4> SUFFICES ASSUME SegOf(x) \notin saved, NEW y \in Ids, SegOf(y) = SegOf(x), Exists(y) PROVE y \in r.has
          BY DEF Entire
        <4>1. a <= y /\ y < b
          BY <1>7, <1>11, <3>2, <3>3
        <4>2. y \in has
          BY <1>6, <1>11, <3>5, <4>1
        <4> QED
          BY <1>10, <4>1, <4>2
      <3>6. p <= b
        BY <1>6, <1>11
      <3> HIDE DEF p, a, b
      <3> QED
        BY <1>4, <3>4, <3>5, <3>6
    <2> QED
      BY <2>1, <2>2 DEF Whole
  <1>12. Good(r.d, meta, meta, saved, r.has, 0, 0)
    BY <1>9, <1>11, ReleasedGood
  <1>13. Good(Cur, meta, meta, saved, has, 0, 0)'
    BY <1>2, <1>12, BecomesGood
  <1>14. Ranges'
    BY <1>1, <1>2, <1>3, <1>10 DEF WebInv, Ranges
  <1>15. Regular => Locks(sink, saved, r.has)
    <2> SUFFICES ASSUME Regular PROVE Locks(sink, saved, r.has)
      OBVIOUS
    <2>1. ASSUME NEW x \in Ids, a <= x, x < p, Exists(x) PROVE x \in r.has \/ SegOf(x) \in saved
      <3>1. x \in has \/ SegOf(x) \in saved
        BY <1>6, <2>1
      <3>2. x < b
        <4>1. p <= b /\ x \in Nat
          BY <1>6, Constants
        <4>2. x < p
          BY <2>1
        <4> HIDE DEF p, a, b
        <4> QED
          BY <1>4, <4>1, <4>2
      <3> QED
        BY <1>10, <2>1, <3>1, <3>2
    <2> QED
      BY <1>2, <1>6, <2>1 DEF Locks
  <1>16. Regular => Locks(sink', saved', has')
    BY <1>2, <1>15
  <1>17. Regular => Locks(sink, saved, has)'
    BY <1>16
  <1> QED
    BY <1>13, <1>14, <1>17 DEF WebInv

\* A segment is saved.
LEMMA SaveGood ==
  ASSUME WebInv, NEW g \in Segs, Save(g) \/ Evict(g)
  PROVE  WebInv'
  <1>1. /\ Good(Cur, meta, meta, saved, has, 0, 0) /\ order \in Seq(Sources) /\ SinkOk(sink)
        /\ has \subseteq Ids /\ saved \subseteq Segs /\ meta \subseteq Segs
        /\ play \in 0 .. End /\ download \in 0 .. End
    BY DEF WebInv, Ranges
  <1>2. /\ saved' \subseteq Segs /\ UNCHANGED <<dl, src, order, has, meta, sink, play, download>>
        /\ Becomes(Cur)
    BY <1>1 DEF Save, Evict, Becomes, Cur
  <1>0. DiskCache
    BY DEF WebInv, Ranges, Save, Evict
  <1>3. Good(Cur, meta, meta, saved', has, 0, 0)
    BY <1>0, <1>1, SavedGood DEF Regular
  <1>4. Good(Cur, meta, meta, saved, has, 0, 0)'
    <2> DEFINE v == saved'
    <2>1. Good(Cur, meta, meta, v, has, 0, 0) /\ saved' = v
      BY <1>2, <1>3
    <2> HIDE DEF v
    <2> QED
      BY <1>2, <2>1, BecomesGood
  <1>5. Ranges'
    BY <1>0, <1>1, <1>2 DEF Ranges
  <1>8. Regular => Locks(sink, saved, has)'
    BY <1>0 DEF Regular
  <1> QED
    BY <1>4, <1>5, <1>8 DEF WebInv

\* The sink is moved.
LEMMA SeekGood ==
  ASSUME Peers = {}, WebInv, NEW p \in SeekTo, seek_to(p)
  PROVE  WebInv'
  <1> DEFINE a == sink.from
             b == sink.to
             to == (SegOf(p) + 1) * SegPos
             moves == sink.pos # p /\ (play # p \/ download # p)
             r == prepare_taskwindow(Cur, p, Window, has, a, b)
             d == IF moves THEN r.d ELSE Cur
             m == IF moves THEN r.has ELSE has
             i == {x \in m : SegOf(x) \in d.dl.beg .. d.dl.end - 1 \/ (p <= x /\ x < to) \/ ~(a <= x /\ x < b)}
             k == [sink EXCEPT !.pos = p, !.from = p, !.to = to]
  <1>1. /\ Good(Cur, meta, meta, saved, has, 0, 0) /\ order \in Seq(Sources) /\ SinkOk(sink)
        /\ has \subseteq Ids /\ saved \subseteq Segs /\ meta \subseteq Segs
        /\ play \in 0 .. End /\ download \in 0 .. End
    BY DEF WebInv, Ranges
  <1>2. /\ sink.on /\ sink' = k /\ Becomes(d) /\ has' = i
        /\ (play' = p /\ download' = p) \/ UNCHANGED <<play, download>>
        /\ UNCHANGED <<order, saved, meta>>
    BY DEF seek_to
  <1>3. p \in Ids /\ (Regular => OffOf(p) = 0)
    BY DownloadAssumption DEF Regular
  <1>4. p \in Nat /\ p \in 0 .. End /\ to \in 0 .. End
    <2>1. SegOf(p) \in Segs /\ SegPos \in Nat /\ SegCount \in Nat /\ End = SegCount * SegPos /\ p \in Nat
      BY <1>3, Placed, Constants DEF End
    <2> DEFINE g == SegOf(p)
    <2> HIDE DEF g
    <2>2. g + 1 \in Nat /\ (g + 1 < SegCount \/ g + 1 = SegCount)
      BY <2>1, Constants DEF g
    <2>3. (g + 1) * SegPos \in Nat /\ (g + 1) * SegPos <= SegCount * SegPos
      BY <2>1, <2>2, Products
    <2>4. to \in Nat /\ to <= End
      BY <2>1, <2>3 DEF g
    <2> HIDE DEF to
    <2>5. p \in 0 .. End
      BY <1>3, <2>1, Origin, Constants
    <2> QED
      BY <2>1, <2>4, <2>5, Origin
  <1>5. Fit(Cur) /\ Window \in Nat
    BY <1>1, Constants DEF Good, Calm
  <1>6. Regular => NoGap(p, saved, has)
    BY <1>3, NothingBefore
  <1>7. Good(r.d, meta, meta, saved, r.has, a, b) /\ r.has \in SUBSET has /\ Live(r.d, SegOf(p))
    <2> HIDE DEF a, b, r
    <2>1. Good(r.d, meta, meta, saved, r.has, a, b)
      BY <1>1, <1>3, <1>5, <1>6, PreparedGood DEF r
    <2>2. r.has \in SUBSET has /\ Live(r.d, SegOf(p))
      BY <1>1, <1>3, <1>5, PreparedKept DEF r
    <2> QED
      BY <2>1, <2>2
  <1> HIDE DEF r
  <1>8. \E lo, hi : /\ Good(d, meta, meta, saved, m, lo, hi)
                    /\ \A x \in Ids : lo <= x /\ x < hi => a <= x /\ x < b /\ Live(d, SegOf(p))
    <2>1. CASE moves
      <3>1. Good(d, meta, meta, saved, m, a, b) /\ Live(d, SegOf(p))
        BY <1>7, <2>1
      <3> HIDE DEF d, m, a, b
      <3> QED
        BY <3>1
    <2>2. CASE ~moves
      <3>1. Good(d, meta, meta, saved, m, 0, 0)
        BY <1>1, <2>2
      <3>2. \A x \in Ids : ~(0 <= x /\ x < 0)
        BY Constants
      <3> HIDE DEF d, m, a, b
      <3> QED
        BY <3>1, <3>2
    <2> QED
      BY <2>1, <2>2
  <1>9. PICK lo, hi : /\ Good(d, meta, meta, saved, m, lo, hi)
                      /\ \A x \in Ids : lo <= x /\ x < hi => a <= x /\ x < b /\ Live(d, SegOf(p))
    BY <1>8
  <1>10. m \in SUBSET has /\ m \in SUBSET Ids
    BY <1>1, <1>7
  <1>11. Fit(d)
    BY <1>9 DEF Good, Calm
  <1> HIDE DEF d, m
  <1>12. \A x \in m : x \in i <=> Live(d, SegOf(x)) \/ (p <= x /\ x < to) \/ ~(a <= x /\ x < b)
    BY <1>10, <1>11, Within
  <1>13. i \in SUBSET m
    OBVIOUS
  <1> HIDE DEF i
  <1>14. ASSUME Regular PROVE Whole(d, saved, i, 0, 0)
    <2>1. Whole(d, saved, m, lo, hi) /\ Locks(sink, saved, has)
      BY <1>9, <1>14 DEF Good, Pieces, WebInv
    <2>2. \A x \in Ids : p <= x /\ x < to <=> SegOf(x) = SegOf(p)
      <3>1. to = p + SegPos
        BY <1>3, <1>4, <1>14, LockSegment
      <3>2. \A x \in Ids : p <= x /\ x < p + SegPos <=> SegOf(x) = SegOf(p)
        BY <1>3, <1>14, LockSegment, Constants
      <3> HIDE DEF to
      <3> QED
        BY <3>1, <3>2
    <2>3. ASSUME NEW x \in i, ~Live(d, SegOf(x)), NEW y \in m, SegOf(y) = SegOf(x) PROVE y \in i
      <3>1. x \in Ids /\ y \in Ids /\ x \in m
        BY <1>10, <1>13
      <3>2. a <= x /\ x < b <=> a <= y /\ y < b
        BY <1>1, <2>1, <2>3, <3>1, InLock
      <3>3. p <= x /\ x < to <=> p <= y /\ y < to
        BY <2>2, <2>3, <3>1
      <3> HIDE DEF a, b, to
      <3> QED
        BY <1>12, <2>3, <3>1, <3>2, <3>3
    <2>4. ASSUME NEW x \in i, lo <= x, x < hi PROVE Live(d, SegOf(x))
      <3>1. x \in Ids /\ x \in m
        BY <1>10, <1>13
      <3>2. a <= x /\ x < b /\ Live(d, SegOf(p))
        BY <1>9, <2>4, <3>1
      <3>3. Live(d, SegOf(x)) \/ (p <= x /\ x < to)
        BY <1>12, <3>1, <3>2
      <3> QED
        BY <2>2, <3>1, <3>2, <3>3
    <2> QED
      BY <1>10, <1>13, <2>1, <2>3, <2>4, SegmentsStay
  <1>15. Good(d, meta, meta, saved, i, 0, 0)
    <2>1. \A x \in m : Live(d, SegOf(x)) => x \in i
      BY <1>12
    <2> QED
      BY <1>9, <1>13, <1>14, <2>1, ReleasedGood
  <1>16. Good(Cur, meta, meta, saved, has, 0, 0)'
    BY <1>2, <1>15, BecomesGood
  <1>17. SinkOk(k) /\ k.on = sink.on /\ k.from = p /\ k.to = to /\ k.pos = p
    <2> HIDE DEF to
    <2> QED
      BY <1>1, <1>4 DEF SinkOk
  <1> HIDE DEF k
  <1>18. Ranges'
    BY <1>1, <1>2, <1>4, <1>10, <1>13, <1>17 DEF WebInv, Ranges
  <1>19. Regular => Locks(k, saved, i)
    <2> SUFFICES ASSUME Regular PROVE Locks(k, saved, i)
      OBVIOUS
    <2>1. to = p + SegPos
      BY <1>3, <1>4, LockSegment
    <2>2. p <= to
      <3> HIDE DEF to
      <3> QED
        BY <1>4, <2>1, Constants
    <2>3. \A x \in Ids : ~(p <= x /\ x < p)
      BY <1>4, Constants
    <2> HIDE DEF to
    <2> QED
      BY <1>2, <1>3, <1>4, <1>17, <2>1, <2>2, <2>3 DEF Locks
  <1>20. Regular => Locks(sink', saved', has')
    BY <1>2, <1>19
  <1>21. Regular => Locks(sink, saved, has)'
    BY <1>20
  <1> QED
    BY <1>16, <1>18, <1>21 DEF WebInv

\* In the beginning nothing is asked for and nothing is there.
LEMMA InitGood ==
  ASSUME Peers = {}, Init
  PROVE  WebInv
  <1>1. Fit(Cur) /\ order \in Seq(Sources)
    BY InitFits DEF FitInv
  <1>2. /\ dl = [beg |-> 0, end |-> 0, segs |-> <<>>, tseg |-> NULL] /\ src = [s \in Sources |-> NewSource(s)]
        /\ has = {} /\ saved = {} /\ meta = KnownMeta
        /\ sink = [on |-> FALSE, pos |-> 0, from |-> 0, to |-> 0] /\ play = 0 /\ download = 0
    BY DEF Init
  <1>3. Cur.dl = dl /\ Cur.src = src
    BY DEF Cur
  <1>4. \A g \in Segs : ~Live(Cur, g)
    <2> TAKE g \in Segs
    <2>1. g \in Nat
      BY Constants
    <2> QED
      BY <1>1, <1>2, <1>3, <2>1, LiveFacts
  <1>5. Calm(Cur)
    <2>1. Quiet(Cur)
      BY <1>1, <1>2, <1>3, <1>4, QuietLive
    <2>2. Exact(Cur)
      BY <1>4 DEF Exact
    <2> QED
      BY <1>1, <2>1, <2>2 DEF Calm
  <1>6. \A s \in Sources : Cur.src[s].queue = <<>> /\ Want(Cur, s) = {}
    <2> TAKE s \in Sources
    <2>1. Cur.src[s].queue = <<>>
      BY <1>2, <1>3 DEF NewSource
    <2> QED
      BY <2>1 DEF Want, ToSet
  <1>7. Pieces(Cur, meta, meta, saved, has, 0, 0)
    <2>0. \A x \in Ids : SegOf(x) \in Segs
      BY Placed
    <2>1. Sized(Cur, meta) /\ Ahead(Cur, has) /\ Passed(Cur, saved, has)
      BY <1>4, <2>0 DEF Sized, Ahead, Passed
    <2>2. Stands(Cur, meta) /\ Queued(Cur, has) /\ Disjoint(Cur)
      BY <1>6 DEF Stands, Queued, Disjoint
    <2>3. Sorted(Cur)
      BY <1>6 DEF Sorted
    <2>4. There(meta, has) /\ Whole(Cur, saved, has, 0, 0)
      BY <1>2 DEF There, Whole
    <2> QED
      BY <2>1, <2>2, <2>3, <2>4 DEF Pieces
  <1>8. Ranges
    <2>1. KnownMeta \subseteq Segs /\ 0 \in 0 .. End
      BY DownloadAssumption, Origin
    <2> QED
      BY <1>1, <1>2, <2>1 DEF Ranges, SinkOk
  <1>9. Locks(sink, saved, has)
    BY <1>2 DEF Locks
  <1> QED
    BY <1>5, <1>7, <1>8, <1>9 DEF WebInv, Good

\* The invariant holds in every state.
LEMMA AlwaysGood ==
  ASSUME Peers = {}
  PROVE  Spec => []WebInv
  <1>1. Init => WebInv
    BY InitGood
  <1>2. WebInv /\ [Next]_vars => WebInv'
    <2> SUFFICES ASSUME WebInv, [Next]_vars PROVE WebInv'
      OBVIOUS
    <2>1. CASE Next
      BY <2>1, SourceActs, AddGood, DelGood, ReadGood, TimerGood, SeekGood, SaveGood DEF Next
    <2>2. CASE UNCHANGED vars
      <3>1. /\ Good(Cur, meta, meta, saved, has, 0, 0) /\ order \in Seq(Sources)
            /\ has \subseteq Ids /\ saved \subseteq Segs /\ meta \subseteq Segs
        BY DEF WebInv, Ranges
      <3>2. Becomes(Cur) /\ UNCHANGED <<order, has, saved, meta, sink, play, download>>
        BY <2>2 DEF vars, Becomes, Cur
      <3> QED
        BY <3>1, <3>2, WebStep
    <2> QED
      BY <2>1, <2>2
  <1> QED
    BY <1>1, <1>2, PTL DEF Spec

-----------------------------------------------------------------------------
(* The theorems *)

\* segments_ is the window without gaps, and no source works for a segment that is not in it
\* (CdnDownloader::prepare_taskwindow, get_task), whatever the sources do.
THEOREM WindowIsWhole == Spec => []WindowMatches
  <1>1. FitInv => WindowMatches
    BY DEF FitInv, Fit, WindowMatches, Cur
  <1> QED
    BY <1>1, AlwaysFits, PTL

\* With web servers alone the window keeps its type and nsource of a segment is the number of
\* sources that work for it (CdnDownloader::get_task, prepare_taskwindow).
THEOREM SourcesAreCounted ==
  ASSUME Peers = {}
  PROVE  Spec => []WindowInv
  <1>1. WebInv => WindowInv
    <2> SUFFICES ASSUME WebInv PROVE WindowInv
      OBVIOUS
    <2>1. Ranges /\ Fit(Cur) /\ Quiet(Cur) /\ Exact(Cur) /\ Cur.dl = dl /\ Cur.src = src
      BY DEF WebInv, Good, Calm, Cur
    <2>2. /\ dl.beg \in 0 .. SegCount /\ dl.end \in 0 .. SegCount /\ dl.tseg \in {NULL, FREED} \union Segs
          /\ dl.segs \in Seq(Infos) /\ src \in [Sources -> SourceType]
      <3>1. Cur.dl \in Windows /\ Cur.src \in [Sources -> SourceType]
        BY <2>1 DEF Fit, Worlds
      <3> QED
        BY <2>1, <3>1 DEF Windows
    <2>3. dl.segs \in Seq(InfoType)
      <3>1. Cardinality(Peers) = 0 /\ 0 \in 0 .. 0
        BY FS_EmptySet
      <3>2. \A i \in DOMAIN dl.segs : dl.segs[i] \in InfoType
        <4> TAKE i \in DOMAIN dl.segs
        <4> DEFINE v == dl.segs[i]
        <4>1. v \in Infos /\ v.np2p = 0
          BY <2>1, <2>2 DEF Quiet
        <4>2. v.np2p \in 0 .. Cardinality(Peers)
          BY <3>1, <4>1
        <4> HIDE DEF v
        <4>3. v \in InfoType
          BY <4>1, <4>2 DEF Infos, InfoType
        <4> QED
          BY <4>3 DEF v
      <3> QED
        BY <2>2, <3>2
    <2>4. TypeOK
      BY <2>1, <2>2, <2>3 DEF TypeOK, Ranges, SinkOk
    <2>5. WindowMatches
      BY <2>1 DEF Fit, WindowMatches
    <2>6. NsourceIsExact
      <3> SUFFICES ASSUME NEW i \in DOMAIN dl.segs
                   PROVE  dl.segs[i].nsource = Cardinality({s \in Sources : src[s].ctx = dl.segs[i].seg})
        BY DEF NsourceIsExact
      <3> DEFINE g == dl.segs[i].seg
      <3>1. g \in Segs /\ Live(Cur, g) /\ Info(Cur, g) = dl.segs[i]
        BY <2>1, Indexed
      <3> HIDE DEF g
      <3>2. dl.segs[i].nsource = Workers(Cur, g)
        BY <2>1, <3>1 DEF Exact
      <3> QED
        BY <2>1, <3>2 DEF Workers, g
    <2> QED
      BY <2>4, <2>5, <2>6 DEF WindowInv
  <1> QED
    BY <1>1, AlwaysGood, PTL

\* With web servers alone, no disk cache and a sink that is moved to the beginning of segments, no piece is
\* asked of two sources, and none that is there (CdnDownloader::get_task, Segment::seek).
THEOREM PiecesAreAskedOnce ==
  ASSUME Peers = {}, Regular
  PROVE  Spec => []NoPieceTwice
  <1>1. WebInv => NoPieceTwice
    <2> SUFFICES ASSUME WebInv PROVE NoPieceTwice
      OBVIOUS
    <2>1. Queued(Cur, has) /\ Disjoint(Cur)
      BY DEF WebInv, Good, Pieces
    <2>2. \A s \in Sources : Asked(s) = Want(Cur, s)
      BY DEF Asked, Want, Cur
    <2>3. \A s \in Sources : Want(Cur, s) \intersect has = {}
      BY <2>1 DEF Queued
    <2>4. \A s \in Sources : \A t \in Sources \ {s} : Want(Cur, s) \intersect Want(Cur, t) = {}
      BY <2>1 DEF Disjoint
    <2> QED
      BY <2>2, <2>3, <2>4 DEF NoPieceTwice
  <1> QED
    BY <1>1, AlwaysGood, PTL

\* With web servers alone, no disk cache and a sink that is moved to the beginning of segments,
\* every piece that the position of a segment has passed is there or asked of a source
\* (CdnDownloader::get_task, prepare_taskwindow and CdnSource::cancel).
THEOREM NothingStaysBehind ==
  ASSUME Peers = {}, Regular
  PROVE  Spec => []NothingIsForgotten
  <1>1. WebInv => NothingIsForgotten
    <2> SUFFICES ASSUME WebInv, NEW i \in DOMAIN dl.segs, NEW o \in 0 .. dl.segs[i].pos - 1,
                        Exists(dl.segs[i].seg * SegPos + o)
                 PROVE  \/ dl.segs[i].seg * SegPos + o \in has
                        \/ \E s \in Sources : dl.segs[i].seg * SegPos + o \in Asked(s)
      BY DEF NothingIsForgotten
    <2> DEFINE g == dl.segs[i].seg
               x == g * SegPos + o
    <2>1. Fit(Cur) /\ Passed(Cur, saved, has) /\ Cur.dl = dl
      BY DEF WebInv, Good, Calm, Pieces, Cur
    <2>2. g \in Segs /\ Live(Cur, g) /\ Info(Cur, g) = dl.segs[i] /\ dl.segs[i] \in Infos
      BY <2>1, Indexed, WindowFacts
    <2>3. dl.segs[i].pos \in 0 .. SegPos /\ SegPos \in Nat
      BY <2>2, Constants DEF Infos
    <2>4. o \in 0 .. SegPos - 1 /\ o < dl.segs[i].pos
      BY <2>3
    <2>5. x \in Ids /\ SegOf(x) = g /\ OffOf(x) = o
      BY <2>2, <2>4, Places, OnePlace
    <2> HIDE DEF x, g
    <2>6. Exists(x) /\ g \notin saved /\ OffOf(x) < Info(Cur, SegOf(x)).pos
      BY <2>2, <2>4, <2>5 DEF WebInv, Ranges, Regular, x, g
    <2>7. x \in has \/ \E s \in Sources : x \in Want(Cur, s)
      BY <2>1, <2>2, <2>5, <2>6 DEF Passed
    <2>8. \A s \in Sources : Asked(s) = Want(Cur, s)
      BY DEF Asked, Want, Cur
    <2>9. x \in has \/ \E s \in Sources : x \in Asked(s)
      BY <2>7, <2>8
    <2> QED
      BY <2>9 DEF x, g
  <1> QED
    BY <1>1, AlwaysGood, PTL
=============================================================================
