-------------------------- MODULE ResourceData_proof --------------------------
(***************************************************************************)
(* Proofs about ResourceData, for segments, blocks and pieces in any       *)
(* number.                                                                 *)
(*                                                                         *)
(* Everything rests on what the counters left_ say.  That of a block is    *)
(* never below the pieces it lacks (BlockInv); where nothing is mapped,    *)
(* that of a segment is never below the blocks that are not full (Counts); *)
(* where moreover whole blocks are released, that of a block is exact      *)
(* (ExactInv).  The counters have sixteen bits: Room says that the walk of *)
(* remove_lock, wherever it stands, cannot make one wrap.                  *)
(***************************************************************************)
EXTENDS ResourceData, WellFoundedInduction, FiniteSetTheorems, TLAPS

-----------------------------------------------------------------------------
(* Numbers *)

\* Products of natural numbers grow with their factors.
LEMMA Products ==
  ASSUME NEW p \in Nat, NEW a \in Nat, NEW b \in Nat, a <= b
  PROVE  p * a \in Nat /\ p * b \in Nat /\ p * a <= p * b /\ p * (a + 1) = p * a + p
  <1>1. p * a \in Nat /\ p * b \in Nat
    OBVIOUS
  <1>2. p * (a + 1) = p * a + p
    OBVIOUS
  <1>3. p * (b - a) >= 0
    OBVIOUS
  <1>4. p * (b - a) = p * b - p * a
    OBVIOUS
  <1> QED
    BY <1>1, <1>2, <1>3, <1>4

\* A number is put together again from quotient and remainder.
LEMMA Divides ==
  ASSUME NEW a \in Nat, NEW p \in Nat \ {0}
  PROVE  /\ a \div p \in Nat /\ a % p \in 0 .. p - 1
         /\ p * (a \div p) \in Nat /\ a = p * (a \div p) + (a % p)
  OBVIOUS

\* What is put together from a quotient and a remainder has them.
LEMMA Composed ==
  ASSUME NEW p \in Nat \ {0}, NEW q \in Nat, NEW r \in 0 .. p - 1
  PROVE  (q * p + r) \div p = q /\ (q * p + r) % p = r /\ q * p + r \in Nat
  <1> DEFINE x == q * p + r
             k == x \div p
             m == x % p
  <1>1. q * p = p * q /\ p * q \in Nat /\ x = p * q + r /\ x \in Nat
    OBVIOUS
  <1> HIDE DEF x
  <1>2. k \in Nat /\ m \in 0 .. p - 1 /\ p * k \in Nat /\ x = p * k + m
    BY <1>1, Divides
  <1> HIDE DEF k, m
  <1>3. k = q
    <2>1. CASE k < q
      <3>1. p * (k + 1) <= p * q /\ p * (k + 1) = p * k + p
        BY <1>2, <2>1, Products
      <3> QED
        BY <1>1, <1>2, <3>1
    <2>2. CASE q < k
      <3>1. p * (q + 1) <= p * k /\ p * (q + 1) = p * q + p
        BY <1>2, <2>2, Products
      <3> QED
        BY <1>1, <1>2, <3>1
    <2> QED
      BY <1>2, <2>1, <2>2
  <1>4. m = r
    BY <1>1, <1>2, <1>3
  <1> QED
    BY <1>1, <1>3, <1>4 DEF k, m, x

\* Numbers are in the order of their quotients, those of one quotient in the order of
\* their remainders.
LEMMA InTheirOrder ==
  ASSUME NEW p \in Nat \ {0}, NEW x \in Nat, NEW y \in Nat
  PROVE  x <= y <=> \/ x \div p < y \div p
                    \/ x \div p = y \div p /\ x % p <= y % p
  <1> DEFINE k == x \div p
             m == x % p
             j == y \div p
             n == y % p
  <1>1. k \in Nat /\ m \in 0 .. p - 1 /\ p * k \in Nat /\ x = p * k + m
    BY Divides
  <1>2. j \in Nat /\ n \in 0 .. p - 1 /\ p * j \in Nat /\ y = p * j + n
    BY Divides
  <1> HIDE DEF k, m, j, n
  <1>3. k < j => p * k + p <= p * j
    BY <1>1, <1>2, Products
  <1>4. j < k => p * j + p <= p * k
    BY <1>1, <1>2, Products
  <1>5. x <= y <=> k < j \/ (k = j /\ m <= n)
    BY <1>1, <1>2, <1>3, <1>4
  <1> QED
    BY <1>5 DEF k, m, j, n

\* A set of naturals has a least member, by induction on the numbers below one.
LEMMA Smallest ==
  ASSUME NEW T, T \subseteq Nat, T # {}
  PROVE  \E x \in T : \A y \in T : x <= y
  <1>1. PICK x \in T : \A y \in T : ~ (<<y, x>> \in OpToRel(<, Nat))
    BY NatLessThanWellFounded, WFMin
  <1>2. \A y \in T : ~ (y < x)
    BY <1>1 DEF OpToRel
  <1> QED
    BY <1>2

\* Least(T) is that member.
LEMMA LeastFacts ==
  ASSUME NEW T, T \subseteq Nat, T # {}
  PROVE  Least(T) \in T /\ \A y \in T : Least(T) <= y
  BY Smallest DEF Least

\* What is stored in a counter of sixteen bits is a counter, and itself when it fits.
LEMMA U16Facts ==
  /\ Values \in Nat \ {0} /\ Counter = 0 .. Values - 1
  /\ \A x \in Int : U16(x) \in Counter
  /\ \A x \in Counter : U16(x) = x
  <1>1. Values \in Nat \ {0}
    BY DEF Values
  <1>2. Counter = 0 .. Values - 1
    BY DEF Counter
  <1>3. \A x \in Int : U16(x) \in Counter
    BY <1>1, <1>2 DEF U16
  <1>4. ASSUME NEW x \in Counter PROVE U16(x) = x
    <2>1. 0 * Values + x = x
      BY <1>1, <1>2
    <2>2. x % Values = x
      BY <1>1, <1>2, <2>1, Composed
    <2> QED
      BY <2>2 DEF U16
  <1> QED
    BY <1>1, <1>2, <1>3, <1>4
-----------------------------------------------------------------------------
(* Places *)

\* The counters of blocks and segments have room for what is counted: PIECE_PER_BLOCK and
\* BLOCK_PER_SEGMENT are 128, and MaxLeft is the bound that CountersSmall puts on them.
CountersFit == MaxLeft + PPB < Values /\ 2 * BPS < Values

\* The assumptions on the constants, and the numbers made from them.
LEMMA Constants ==
  /\ SegCount \in Nat \ {0} /\ BPS \in Nat \ {0, 1} /\ PPB \in Nat \ {0} /\ MaxLeft \in Nat
  /\ SegPos \in Nat \ {0} /\ SegPos = PPB * BPS /\ Max \in Nat \ {0} /\ Max = SegPos * SegCount
  /\ 2 * PPB \in 1 .. SegPos
  <1>1. SegCount \in Nat \ {0} /\ BPS \in Nat \ {0, 1} /\ PPB \in Nat \ {0} /\ MaxLeft \in Nat
    BY SizeAssumption
  <1>2. PPB * 1 = PPB /\ PPB * 2 = 2 * PPB /\ 1 <= BPS /\ 2 <= BPS
    BY <1>1
  <1>3. PPB * BPS \in Nat /\ PPB * 2 <= PPB * BPS
    BY <1>1, <1>2, Products
  <1>4. SegPos = PPB * BPS
    BY <1>1 DEF SegPos
  <1>5. SegPos \in Nat \ {0}
    BY <1>1, <1>2, <1>3, <1>4
  <1>6. Max = SegPos * SegCount
    BY <1>1, <1>5 DEF Max
  <1>7. SegPos * 1 = SegPos /\ 1 <= SegCount
    BY <1>1, <1>5
  <1>8. SegPos * SegCount \in Nat /\ SegPos * 1 <= SegPos * SegCount
    BY <1>1, <1>5, <1>7, Products
  <1>9. Max \in Nat \ {0}
    BY <1>5, <1>6, <1>7, <1>8
  <1>10. 2 * PPB \in 1 .. SegPos
    BY <1>1, <1>2, <1>3, <1>4
  <1> QED
    BY <1>1, <1>4, <1>5, <1>6, <1>9, <1>10

\* A quotient is below n when the number is below n times the divisor.
LEMMA QuotientBelow ==
  ASSUME NEW p \in Nat \ {0}, NEW n \in Nat, NEW x \in 0 .. p * n - 1
  PROVE  x \div p \in 0 .. n - 1 /\ x % p \in 0 .. p - 1
  <1> DEFINE k == x \div p
             m == x % p
             z == p * n
  <1>1. z \in Nat
    BY Products
  <1>2. x \in 0 .. z - 1
    OBVIOUS
  <1> HIDE DEF z
  <1>3. k \in Nat /\ m \in 0 .. p - 1 /\ p * k \in Nat /\ x = p * k + m
    <2>1. x \in Nat
      BY <1>1, <1>2
    <2>2. x \div p \in Nat /\ x % p \in 0 .. p - 1 /\ p * (x \div p) \in Nat /\ x = p * (x \div p) + (x % p)
      BY <2>1, Divides
    <2> QED
      BY <2>2
  <1> HIDE DEF k, m
  <1>4. n <= k => z <= p * k
    BY <1>3, Products DEF z
  <1>5. k \in 0 .. n - 1
    BY <1>1, <1>2, <1>3, <1>4
  <1> QED
    BY <1>3, <1>5 DEF k, m

\* An offset in a segment has a block and a piece.
LEMMA OffsetFacts ==
  ASSUME NEW o \in 0 .. SegPos - 1
  PROVE  BlkOf(o) \in Blocks /\ PieOf(o) \in 0 .. PPB - 1
  BY Constants, QuotientBelow DEF BlkOf, PieOf, Blocks

\* A place below Max has a segment, a block and a piece (DataId).
LEMMA PlaceFacts ==
  ASSUME NEW x \in Ids
  PROVE  /\ SegOf(x) \in Segs /\ OffOf(x) \in 0 .. SegPos - 1
         /\ BlkOf(OffOf(x)) \in Blocks /\ PieOf(OffOf(x)) \in 0 .. PPB - 1
  <1>1. x \in 0 .. SegPos * SegCount - 1
    BY Constants DEF Ids
  <1>2. SegOf(x) \in Segs /\ OffOf(x) \in 0 .. SegPos - 1
    BY <1>1, Constants, QuotientBelow DEF SegOf, OffOf, Segs
  <1> QED
    BY <1>2, OffsetFacts

\* Positions that are put together from a segment, a block and a piece.
LEMMA OffsetComposed ==
  ASSUME NEW b \in Blocks, NEW p \in 0 .. PPB - 1
  PROVE  b * PPB + p \in 0 .. SegPos - 1 /\ BlkOf(b * PPB + p) = b /\ PieOf(b * PPB + p) = p
  <1>1. b \in Nat /\ b + 1 \in Nat /\ b + 1 <= BPS /\ PPB \in Nat \ {0}
    BY Constants DEF Blocks
  <1>2. BlkOf(b * PPB + p) = b /\ PieOf(b * PPB + p) = p /\ b * PPB + p \in Nat
    BY <1>1, Composed DEF BlkOf, PieOf
  <1>3. PPB * (b + 1) <= PPB * BPS /\ PPB * b \in Nat
    BY <1>1, Constants, Products
  <1>4. PPB * (b + 1) = PPB * b + PPB /\ b * PPB = PPB * b
    BY <1>1
  <1>5. b * PPB + p < SegPos
    BY <1>1, <1>3, <1>4, Constants
  <1> QED
    BY <1>2, <1>5, Constants

\* A place made from a segment and an offset has these two.
LEMMA PlaceComposed ==
  ASSUME NEW s \in Segs, NEW o \in 0 .. SegPos - 1
  PROVE  s * SegPos + o \in Ids /\ SegOf(s * SegPos + o) = s /\ OffOf(s * SegPos + o) = o
  <1>1. s \in Nat /\ s + 1 \in Nat /\ s + 1 <= SegCount /\ SegPos \in Nat \ {0}
    BY Constants DEF Segs
  <1>2. SegOf(s * SegPos + o) = s /\ OffOf(s * SegPos + o) = o /\ s * SegPos + o \in Nat
    BY <1>1, Composed DEF SegOf, OffOf
  <1>3. SegPos * (s + 1) <= SegPos * SegCount /\ SegPos * s \in Nat
    BY <1>1, Constants, Products
  <1>4. SegPos * (s + 1) = SegPos * s + SegPos /\ s * SegPos = SegPos * s
    BY <1>1
  <1>5. s * SegPos + o < Max
    BY <1>1, <1>3, <1>4, Constants
  <1> QED
    BY <1>2, <1>5, Constants DEF Ids

\* The end of the resource.
LEMMA EndFacts ==
  /\ SegOf(Max) = SegCount /\ OffOf(Max) = 0
  /\ \A x \in 0 .. Max : x \in Ids \/ x = Max
  /\ \A x \in 0 .. Max : SegOf(x) \in 0 .. SegCount /\ OffOf(x) \in 0 .. SegPos - 1
  <1>1. SegPos \in Nat \ {0} /\ SegCount \in Nat \ {0} /\ 0 \in 0 .. SegPos - 1 /\ Max \in Nat
    BY Constants
  <1>2. Max = SegCount * SegPos + 0
    BY <1>1 DEF Max
  <1>3. SegOf(Max) = SegCount /\ OffOf(Max) = 0
    BY <1>1, <1>2, Composed DEF SegOf, OffOf
  <1>4. \A x \in 0 .. Max : x \in Ids \/ x = Max
    BY <1>1 DEF Ids
  <1>5. \A x \in 0 .. Max : SegOf(x) \in 0 .. SegCount /\ OffOf(x) \in 0 .. SegPos - 1
    BY <1>1, <1>3, <1>4, PlaceFacts DEF Segs
  <1> QED
    BY <1>3, <1>4, <1>5

\* The order of positions.
LEMMA OffsetOrder ==
  ASSUME NEW x \in 0 .. SegPos - 1, NEW y \in 0 .. SegPos - 1
  PROVE  x <= y <=> BlkOf(x) < BlkOf(y) \/ (BlkOf(x) = BlkOf(y) /\ PieOf(x) <= PieOf(y))
  <1>1. x \in Nat /\ y \in Nat /\ PPB \in Nat \ {0}
    BY Constants
  <1> QED
    BY <1>1, InTheirOrder DEF BlkOf, PieOf

\* Places are in the order of their segments, then of their offsets.
LEMMA PlaceOrder ==
  ASSUME NEW x \in 0 .. Max, NEW y \in 0 .. Max
  PROVE  x <= y <=> SegOf(x) < SegOf(y) \/ (SegOf(x) = SegOf(y) /\ OffOf(x) <= OffOf(y))
  <1>1. x \in Nat /\ y \in Nat /\ SegPos \in Nat \ {0}
    BY Constants
  <1> QED
    BY <1>1, InTheirOrder DEF SegOf, OffOf
-----------------------------------------------------------------------------
(* Blocks *)

\* The pieces a block lacks, and a block that has all of its pieces.
Missing(b) == (0 .. b.n - 1) \ b.has
Whole(b)   == 0 .. b.n - 1 \subseteq b.has

\* The counter of a block is never below the pieces it lacks; it may be above.
BlockInv(b) ==
  /\ b \in BlockType /\ (b.n = 0 => b = NoBlock)
  /\ b.left >= Cardinality(Missing(b))
BlockExact(b) == b.left = Cardinality(Missing(b))

\* The number of members of a range.
LEMMA HowMany ==
  ASSUME NEW a \in Nat, NEW b \in Nat, a <= b
  PROVE  IsFiniteSet(a .. b - 1) /\ Cardinality(a .. b - 1) = b - a
  <1> DEFINE c == b - 1
  <1>1. c \in Int /\ a \in Int
    OBVIOUS
  <1> HIDE DEF c
  <1>2. IsFiniteSet(a .. c) /\ Cardinality(a .. c) = IF a > c THEN 0 ELSE c - a + 1
    BY <1>1, FS_Interval
  <1>3. (IF a > c THEN 0 ELSE c - a + 1) = b - a
    BY DEF c
  <1> QED
    BY <1>2, <1>3 DEF c

\* The pieces that are missing can be counted, and none is missing in a whole block.
LEMMA MissingFacts ==
  ASSUME NEW b, b.n \in 0 .. PPB
  PROVE  /\ IsFiniteSet(Missing(b)) /\ Cardinality(Missing(b)) \in 0 .. b.n
         /\ Cardinality(Missing(b)) = 0 <=> Whole(b)
         /\ b.has = {} => Cardinality(Missing(b)) = b.n
  <1>1. b.n \in Nat
    BY Constants
  <1>2. IsFiniteSet(0 .. b.n - 1) /\ Cardinality(0 .. b.n - 1) = b.n
    <2>1. 0 <= b.n /\ b.n - 0 = b.n
      BY <1>1
    <2> QED
      BY <1>1, <2>1, HowMany
  <1>3. Missing(b) \subseteq 0 .. b.n - 1
    BY DEF Missing
  <1>4. IsFiniteSet(Missing(b)) /\ Cardinality(Missing(b)) <= b.n /\ Cardinality(Missing(b)) \in Nat
    BY <1>2, <1>3, FS_Subset, FS_CardinalityType
  <1>5. Cardinality(Missing(b)) = 0 <=> Missing(b) = {}
    BY <1>4, FS_EmptySet
  <1>6. Missing(b) = {} <=> Whole(b)
    BY DEF Missing, Whole
  <1>7. b.has = {} => Missing(b) = 0 .. b.n - 1
    BY DEF Missing
  <1> QED
    BY <1>1, <1>2, <1>4, <1>5, <1>6, <1>7

\* A NULL block satisfies the invariant of blocks.
LEMMA NoBlockFacts ==
  BlockInv(NoBlock) /\ BlockExact(NoBlock) /\ NoBlock.n = 0 /\ NoBlock.left = 0 /\ NoBlock.has = {}
  <1>1. NoBlock.n = 0 /\ NoBlock.left = 0 /\ NoBlock.has = {}
    BY DEF NoBlock
  <1>2. NoBlock \in BlockType
    BY Constants, U16Facts DEF NoBlock, BlockType
  <1>3. Cardinality(Missing(NoBlock)) = 0
    BY <1>1, Constants, MissingFacts
  <1> QED
    BY <1>1, <1>2, <1>3 DEF BlockInv, BlockExact

\* What Block::full says: true only of a whole block, and of every one whose counter is exact.
LEMMA FullIsWhole ==
  ASSUME NEW b, BlockInv(b)
  PROVE  /\ Block_full(b) => Whole(b)
         /\ BlockExact(b) /\ Whole(b) => Block_full(b)
  <1>1. b.n \in 0 .. PPB /\ b.left \in Nat
    BY U16Facts DEF BlockInv, BlockType
  <1>2. Cardinality(Missing(b)) \in Nat /\ (Cardinality(Missing(b)) = 0 <=> Whole(b))
    BY <1>1, MissingFacts
  <1>3. Block_full(b) => Cardinality(Missing(b)) = 0
    BY <1>1, <1>2 DEF Block_full, BlockInv
  <1> QED
    BY <1>2, <1>3 DEF Block_full, BlockExact

\* Block::set_size counts anew what is missing.
LEMMA BlockSized ==
  ASSUME CountersFit, NEW b \in BlockType, NEW n \in 1 .. PPB
  PROVE  LET v == Block_set_size(b, n)
         IN  /\ BlockInv(v) /\ v.n = n /\ v.has = b.has /\ v.left \in 0 .. n
             /\ v.left = Cardinality(Missing(v))
  <1> DEFINE v == Block_set_size(b, n)
             k == Cardinality((0 .. n - 1) \ b.has)
  <1>1. v = [b EXCEPT !.n = n, !.left = k]
    BY DEF Block_set_size
  <1> HIDE DEF k, v
  <1>2. v.n = n /\ v.left = k /\ v.has = b.has
    BY <1>1 DEF BlockType
  <1>3. n \in 0 .. PPB /\ n # 0
    BY Constants
  <1>4. k = Cardinality(Missing(v))
    BY <1>2 DEF Missing, k
  <1>5. k \in 0 .. n
    BY <1>2, <1>3, <1>4, MissingFacts
  <1>6. k \in Counter /\ k \in Nat
    BY <1>5, <1>3, Constants, U16Facts DEF CountersFit
  <1>7. v \in BlockType
    BY <1>1, <1>3, <1>6 DEF BlockType
  <1> QED
    BY <1>2, <1>3, <1>4, <1>5, <1>6, <1>7 DEF BlockInv, v

\* A block that was just allocated misses everything.
LEMMA NewBlockFacts ==
  ASSUME CountersFit, NEW n \in 1 .. PPB
  PROVE  LET v == NewBlock(n)
         IN  BlockInv(v) /\ BlockExact(v) /\ v.n = n /\ v.has = {} /\ v.left = n /\ v.left # 0
  <1> DEFINE v == NewBlock(n)
  <1>1. NoBlock \in BlockType /\ NoBlock.has = {}
    BY NoBlockFacts DEF BlockInv
  <1>2. v = Block_set_size(NoBlock, n)
    BY DEF NewBlock
  <1> HIDE DEF v
  <1>3. BlockInv(v) /\ v.n = n /\ v.has = {} /\ v.left = Cardinality(Missing(v))
    BY <1>1, <1>2, BlockSized
  <1>4. n \in 0 .. PPB /\ n # 0
    BY Constants
  <1>5. v.left = n
    BY <1>3, <1>4, MissingFacts
  <1> QED
    BY <1>3, <1>4, <1>5 DEF BlockExact, v

\* A piece comes that was missing.
Filled(b, p) == [b EXCEPT !.has = @ \union {p}, !.left = U16(@ - 1)]

\* A piece that is set was missing and is counted once.
LEMMA BlockFilled ==
  ASSUME NEW b, BlockInv(b), NEW p \in 0 .. b.n - 1, p \notin b.has
  PROVE  LET v == Filled(b, p)
         IN  /\ BlockInv(v) /\ v.n = b.n /\ v.has = b.has \union {p} /\ v.left = b.left - 1 /\ b.left # 0
             /\ BlockExact(b) => BlockExact(v)
  <1> DEFINE v == Filled(b, p)
             l == U16(b.left - 1)
             h == b.has \union {p}
  <1>1. b \in BlockType /\ b.n \in 0 .. PPB /\ b.left \in Counter /\ b.left \in Nat /\ b.has \subseteq 0 .. PPB - 1
    BY U16Facts DEF BlockInv, BlockType
  <1>2. v = [b EXCEPT !.has = h, !.left = l]
    BY DEF Filled
  <1>3. IsFiniteSet(Missing(b)) /\ p \in Missing(b)
    BY <1>1, MissingFacts DEF Missing
  <1>4. Cardinality(Missing(b) \ {p}) = Cardinality(Missing(b)) - 1 /\ Cardinality(Missing(b)) \in Nat
        /\ Cardinality(Missing(b) \ {p}) \in Nat
    BY <1>3, FS_RemoveElement, FS_CardinalityType
  <1>5. Cardinality(Missing(b)) >= 1
    BY <1>4
  <1>6. b.left >= 1
    BY <1>1, <1>4, <1>5 DEF BlockInv
  <1>7. l = b.left - 1 /\ l \in Counter
    BY <1>1, <1>6, U16Facts
  <1> HIDE DEF v, l, h
  <1>8. v.n = b.n /\ v.has = h /\ v.left = l
    BY <1>1, <1>2 DEF BlockType
  <1>9. p \in 0 .. PPB - 1 /\ b.n # 0
    BY <1>1, Constants
  <1>10. v \in BlockType
    BY <1>1, <1>2, <1>7, <1>9 DEF BlockType, h
  <1>11. Missing(v) = Missing(b) \ {p}
    BY <1>8 DEF Missing, h
  <1>12. v.left >= Cardinality(Missing(v))
    BY <1>1, <1>4, <1>7, <1>8, <1>11 DEF BlockInv
  <1>13. BlockExact(b) => BlockExact(v)
    BY <1>4, <1>7, <1>8, <1>11 DEF BlockExact
  <1>14. BlockInv(v)
    BY <1>8, <1>9, <1>10, <1>12 DEF BlockInv
  <1> QED
    BY <1>6, <1>7, <1>8, <1>13, <1>14, <1>1 DEF v, h

\* Pieces f .. t - 1 go; each is counted, whether it was there or not.
LEMMA BlockReleased ==
  ASSUME NEW b, BlockInv(b), b.n # 0, NEW f \in 0 .. PPB, NEW t \in 0 .. PPB, b.left + (t - f) < Values
  PROVE  LET v == Block_release(b, f, t)
         IN  /\ BlockInv(v) /\ v.n = b.n /\ v.has = b.has \ (f .. t - 1)
             /\ v.left = b.left + (IF f < t THEN t - f ELSE 0)
             /\ f >= t => v = b
  <1>1. b \in BlockType /\ b.n \in 0 .. PPB /\ b.left \in Counter /\ b.left \in Nat /\ b.has \subseteq 0 .. PPB - 1
    BY U16Facts DEF BlockInv, BlockType
  <1>2. f \in Nat /\ t \in Nat
    BY Constants
  <1>3. CASE f >= t
    <2>1. f .. t - 1 = {}
      BY <1>2, <1>3
    <2>2. b.has \ {} = b.has
      OBVIOUS
    <2>3. Block_release(b, f, t) = b
      BY <1>3 DEF Block_release
    <2>4. b.left + 0 = b.left /\ ~(f < t)
      BY <1>1, <1>2, <1>3
    <2> QED
      BY <2>1, <2>2, <2>3, <2>4
  <1>4. CASE f < t
    <2> DEFINE l == U16(b.left + (t - f))
               h == b.has \ (f .. t - 1)
               v == [b EXCEPT !.has = h, !.left = l]
    <2>1. Block_release(b, f, t) = v
      BY <1>2, <1>4 DEF Block_release
    <2>2. b.left + (t - f) \in Counter
      BY <1>1, <1>2, <1>4, U16Facts
    <2>3. l = b.left + (t - f) /\ l \in Counter
      BY <2>2, U16Facts
    <2> HIDE DEF l
    <2>4. v.n = b.n /\ v.left = l /\ v.has = h /\ v \in BlockType
      BY <1>1, <2>3 DEF BlockType
    <2> HIDE DEF v
    <2> DEFINE C == f .. t - 1
    <2>5. IsFiniteSet(C) /\ Cardinality(C) = t - f
      BY <1>2, <1>4, HowMany
    <2>6. Missing(v) \subseteq Missing(b) \union C
      BY <2>4 DEF Missing
    <2> HIDE DEF C
    <2>7. IsFiniteSet(Missing(b)) /\ Cardinality(Missing(b)) \in Nat
      BY <1>1, MissingFacts
    <2>8. /\ IsFiniteSet(Missing(b) \union C)
          /\ Cardinality(Missing(b) \union C) = Cardinality(Missing(b)) + Cardinality(C) - Cardinality(Missing(b) \intersect C)
      BY <2>5, <2>7, FS_Union
    <2>9. Cardinality(Missing(b) \intersect C) \in Nat
      BY <2>7, FS_Intersection, FS_CardinalityType
    <2>10. Cardinality(Missing(v)) <= Cardinality(Missing(b) \union C) /\ Cardinality(Missing(v)) \in Nat
      BY <2>6, <2>8, FS_Subset, FS_CardinalityType
    <2>11. v.left >= Cardinality(Missing(v))
      <3>1. b.left >= Cardinality(Missing(b))
        BY DEF BlockInv
      <3> QED
        BY <1>1, <1>2, <2>3, <2>4, <2>5, <2>7, <2>8, <2>9, <2>10, <3>1
    <2>12. BlockInv(v)
      BY <2>4, <2>11 DEF BlockInv
    <2> QED
      BY <1>2, <1>4, <2>1, <2>3, <2>4, <2>12
  <1> QED
    BY <1>2, <1>3, <1>4

\* A block is read from disk.
LEMMA BlockMapped ==
  ASSUME NEW b, BlockInv(b)
  PROVE  LET v == Block_set_data(b)
         IN  BlockInv(v) /\ v.n = b.n /\ v.has = b.has \union (0 .. b.n - 1) /\ v.left = b.left
  <1> DEFINE v == Block_set_data(b)
             h == b.has \union (0 .. b.n - 1)
  <1>1. b \in BlockType /\ b.n \in 0 .. PPB /\ b.left \in Counter /\ b.left \in Nat /\ b.has \subseteq 0 .. PPB - 1
    BY U16Facts DEF BlockInv, BlockType
  <1>2. v = [b EXCEPT !.has = h]
    BY DEF Block_set_data
  <1>3. h \subseteq 0 .. PPB - 1
    BY <1>1, Constants
  <1> HIDE DEF v
  <1>4. v.n = b.n /\ v.has = h /\ v.left = b.left /\ v \in BlockType
    BY <1>1, <1>2, <1>3 DEF BlockType
  <1>5. Whole(v)
    BY <1>4 DEF Whole
  <1>6. Cardinality(Missing(v)) = 0
    BY <1>1, <1>4, <1>5, MissingFacts
  <1>7. b.n = 0 => v = NoBlock
    <2> SUFFICES ASSUME b.n = 0 PROVE v = NoBlock
      OBVIOUS
    <2>1. b = NoBlock /\ h = {}
      BY <1>1, NoBlockFacts DEF BlockInv
    <2> QED
      BY <1>2, <2>1 DEF NoBlock
  <1> QED
    BY <1>1, <1>4, <1>6, <1>7 DEF BlockInv, v
-----------------------------------------------------------------------------
(* Segments *)

\* The shape of a segment: the size of each of its blocks, and nothing behind the last one.
SegInv(g) ==
  /\ g \in SegmentType /\ \A b \in Blocks : BlockInv(g.blk[b])
  /\ g.cnt = 0 => g = NoSeg
  /\ g.cnt # 0 => g.last \in 1 .. PPB

\* The blocks that are to come and those that are full: the counter of a segment is never
\* below the first, and has room for the second.
Holes(g)  == {b \in 0 .. g.cnt - 1 : ~FullBlock(g, b)}
Fulls(g)  == {b \in Blocks : FullBlock(g, b)}
\* left_ covers the blocks that are not full, and leaves room for those that are full.
Counts(g) == Cardinality(Holes(g)) <= g.left /\ g.left + Cardinality(Fulls(g)) <= 2 * BPS

\* Every block counts exactly what it lacks.
Exact(g) == \A b \in Blocks : BlockExact(g.blk[b])
Even(g)  == \A b \in Blocks : g.blk[b].n \in {0, PPB}

\* Types of the parts of a segment.
LEMMA SegmentFacts ==
  ASSUME NEW g, SegInv(g)
  PROVE  /\ g.cnt \in Nat /\ g.cnt \in 0 .. BPS /\ g.last \in 0 .. PPB /\ g.left \in Counter /\ g.left \in Nat
         /\ g.blk \in [Blocks -> BlockType] /\ 0 .. g.cnt - 1 \subseteq Blocks
         /\ \A b \in Blocks : g.blk[b].n \in 0 .. PPB /\ g.blk[b].left \in Nat
  <1>1. g.cnt \in 0 .. BPS /\ g.last \in 0 .. PPB /\ g.left \in Counter /\ g.blk \in [Blocks -> BlockType]
    BY DEF SegInv, SegmentType
  <1>2. g.left \in Nat /\ g.cnt \in Nat
    BY <1>1, U16Facts, Constants
  <1>3. 0 .. g.cnt - 1 \subseteq Blocks
    BY <1>1, Constants DEF Blocks
  <1>4. \A b \in Blocks : g.blk[b].n \in 0 .. PPB /\ g.blk[b].left \in Nat
    BY <1>1, U16Facts DEF BlockType
  <1> QED
    BY <1>1, <1>2, <1>3, <1>4

\* The blocks of a segment can be counted.
LEMMA CountFacts ==
  ASSUME NEW g, SegInv(g)
  PROVE  /\ IsFiniteSet(Blocks) /\ Cardinality(Blocks) = BPS
         /\ IsFiniteSet(Holes(g)) /\ Cardinality(Holes(g)) \in 0 .. g.cnt
         /\ IsFiniteSet(Fulls(g)) /\ Cardinality(Fulls(g)) \in 0 .. BPS
  <1>1. g.cnt \in Nat /\ 0 <= g.cnt /\ BPS \in Nat /\ 0 <= BPS /\ g.cnt - 0 = g.cnt /\ BPS - 0 = BPS
    BY SegmentFacts, Constants
  <1>2. IsFiniteSet(Blocks) /\ Cardinality(Blocks) = BPS
    BY <1>1, HowMany DEF Blocks
  <1>3. IsFiniteSet(0 .. g.cnt - 1) /\ Cardinality(0 .. g.cnt - 1) = g.cnt
    BY <1>1, HowMany
  <1>4. Holes(g) \subseteq 0 .. g.cnt - 1 /\ Fulls(g) \subseteq Blocks
    BY DEF Holes, Fulls
  <1>5. IsFiniteSet(Holes(g)) /\ Cardinality(Holes(g)) <= g.cnt /\ Cardinality(Holes(g)) \in Nat
    BY <1>3, <1>4, FS_Subset, FS_CardinalityType
  <1>6. IsFiniteSet(Fulls(g)) /\ Cardinality(Fulls(g)) <= BPS /\ Cardinality(Fulls(g)) \in Nat
    BY <1>2, <1>4, FS_Subset, FS_CardinalityType
  <1> QED
    BY <1>1, <1>2, <1>5, <1>6

\* A NULL segment satisfies the invariant of segments.
LEMMA NoSegFacts ==
  /\ SegInv(NoSeg) /\ Exact(NoSeg) /\ Even(NoSeg) /\ NoSeg.cnt = 0
  /\ NoSeg.blk = [b \in Blocks |-> NoBlock] /\ \A b \in Blocks : NoSeg.blk[b] = NoBlock
  <1>1. NoSeg.cnt = 0 /\ NoSeg.last = 0 /\ NoSeg.left = 0 /\ NoSeg.blk = [b \in Blocks |-> NoBlock]
    BY DEF NoSeg
  <1>2. \A b \in Blocks : NoSeg.blk[b] = NoBlock
    BY <1>1
  <1>3. NoBlock \in BlockType
    BY NoBlockFacts DEF BlockInv
  <1>4. NoSeg.blk \in [Blocks -> BlockType]
    BY <1>1, <1>3
  <1>5. 0 \in 0 .. BPS /\ 0 \in 0 .. PPB /\ 0 \in Counter
    BY Constants, U16Facts
  <1>6. NoSeg \in SegmentType
    BY <1>4, <1>5, <1>1 DEF SegmentType, NoSeg
  <1> QED
    BY <1>1, <1>2, <1>6, NoBlockFacts DEF SegInv, Exact, Even

\* The number of blocks and the size of the last.
LEMMA Ceiling ==
  ASSUME NEW size \in 1 .. SegPos
  PROVE  LET cnt == (size + PPB - 1) \div PPB
         IN  cnt \in 1 .. BPS /\ size - (cnt - 1) * PPB \in 1 .. PPB
  <1> DEFINE a == size + PPB - 1
             k == a \div PPB
             r == a % PPB
             z == PPB * BPS
  <1>1. PPB \in Nat \ {0} /\ BPS \in Nat /\ size \in Nat /\ size >= 1 /\ size <= z /\ z \in Nat
    BY Constants
  <1>2. a \in Nat /\ a = size + PPB - 1
    BY <1>1
  <1> HIDE DEF a, z
  <1>3. k \in Nat /\ r \in 0 .. PPB - 1 /\ PPB * k \in Nat /\ a = PPB * k + r
    BY <1>1, <1>2, Divides
  <1> HIDE DEF k, r
  <1>4. k # 0
    <2>1. PPB * 0 = 0
      BY <1>1
    <2> QED
      BY <1>1, <1>2, <1>3, <2>1
  <1>5. k <= BPS
    <2> SUFFICES ASSUME BPS < k PROVE FALSE
      BY <1>1, <1>3
    <2>1. PPB * (BPS + 1) <= PPB * k /\ PPB * (BPS + 1) = PPB * BPS + PPB
      BY <1>1, <1>3, Products
    <2> QED
      BY <1>1, <1>2, <1>3, <2>1 DEF z
  <1>6. (k - 1) * PPB = PPB * k - PPB
    BY <1>1, <1>3, <1>4
  <1>7. size - (k - 1) * PPB \in 1 .. PPB
    BY <1>1, <1>2, <1>3, <1>6
  <1> QED
    BY <1>1, <1>3, <1>4, <1>5, <1>7 DEF k, a

\* A segment gets its size.
LEMMA SegmentSized ==
  ASSUME CountersFit, NEW g, SegInv(g), NEW size \in 1 .. SegPos
  PROVE  LET v == Segment_set_size(g, size)
         IN  /\ SegInv(v) /\ v.cnt # 0
             /\ \A b \in Blocks : /\ v.blk[b].has = g.blk[b].has
                                  /\ v.blk[b] = g.blk[b] \/ v.blk[b].left <= PPB
             /\ Even(g) => Counts(v)
             /\ Exact(g) => Exact(v)
  <1> DEFINE cnt == (size + PPB - 1) \div PPB
             last == size - (cnt - 1) * PPB
             c == cnt - 1
             H == {b \in 0 .. cnt - 1 : ~FullBlock(g, b)}
             left == Cardinality(H)
             d == Block_set_size(g.blk[c], last)
             B == IF g.blk[c].n = 0 THEN g.blk ELSE [g.blk EXCEPT ![c] = d]
             v == Segment_set_size(g, size)
  <1>1. v = [cnt |-> cnt, last |-> last, left |-> left, blk |-> B]
    BY DEF Segment_set_size
  <1>2. cnt \in 1 .. BPS /\ last \in 1 .. PPB
    BY Ceiling
  <1>3. v.cnt = cnt /\ v.last = last /\ v.left = left /\ v.blk = B
    BY <1>1
  <1> HIDE DEF cnt, last, v
  <1>4. c \in Blocks /\ cnt \in Nat /\ cnt # 0 /\ BPS \in Nat /\ 0 .. cnt - 1 \subseteq Blocks
    BY <1>2, Constants DEF Blocks
  <1> HIDE DEF c
  <1>5. g.blk \in [Blocks -> BlockType] /\ \A b \in Blocks : BlockInv(g.blk[b])
    BY SegmentFacts DEF SegInv
  <1>6. BlockInv(d) /\ d.n = last /\ d.has = g.blk[c].has /\ d.left \in 0 .. last /\ d \in BlockType
        /\ d.left = Cardinality(Missing(d))
    <2>1. g.blk[c] \in BlockType
      BY <1>4, <1>5
    <2>2. BlockInv(d) /\ d.n = last /\ d.has = g.blk[c].has /\ d.left \in 0 .. last
          /\ d.left = Cardinality(Missing(d))
      BY <1>2, <2>1, BlockSized
    <2> QED
      BY <2>2 DEF BlockInv
  <1> HIDE DEF d
  <1>7. /\ B \in [Blocks -> BlockType]
        /\ \A b \in Blocks : B[b] = g.blk[b] \/ (b = c /\ g.blk[c].n # 0 /\ B[b] = d)
    BY <1>4, <1>5, <1>6
  <1> HIDE DEF B
  <1>8. \A b \in Blocks : BlockInv(B[b]) /\ B[b].has = g.blk[b].has /\ (B[b] = g.blk[b] \/ B[b].left <= PPB)
    <2>1. d.left <= PPB
      BY <1>2, <1>6, Constants
    <2> QED
      BY <1>5, <1>6, <1>7, <2>1
  <1>9. IsFiniteSet(H) /\ left \in 0 .. cnt
    <2>1. 0 <= cnt /\ cnt - 0 = cnt
      BY <1>4
    <2>2. IsFiniteSet(0 .. cnt - 1) /\ Cardinality(0 .. cnt - 1) = cnt
      BY <1>4, <2>1, HowMany
    <2>3. H \subseteq 0 .. cnt - 1
      OBVIOUS
    <2>4. IsFiniteSet(H) /\ left <= cnt /\ left \in Nat
      BY <2>2, <2>3, FS_Subset, FS_CardinalityType
    <2> QED
      BY <1>4, <2>4
  <1> HIDE DEF left
  <1>10. left \in Counter /\ cnt \in 0 .. BPS /\ last \in 0 .. PPB
    BY <1>2, <1>4, <1>9, Constants, U16Facts DEF CountersFit
  <1>11. SegInv(v)
    <2>1. v \in SegmentType
      BY <1>1, <1>7, <1>10 DEF SegmentType
    <2> QED
      BY <1>2, <1>3, <1>4, <1>8, <2>1 DEF SegInv
  <1>12. ASSUME Even(g) PROVE Counts(v)
    <2>1. Holes(v) \subseteq H
      <3> SUFFICES ASSUME NEW b \in 0 .. cnt - 1, ~FullBlock(v, b)
                   PROVE  ~FullBlock(g, b)
        BY <1>3 DEF Holes
      <3>1. b \in Blocks
        BY <1>4
      <3>2. CASE B[b] = g.blk[b]
        BY <1>3, <3>2 DEF FullBlock
      <3>3. CASE b = c /\ g.blk[c].n # 0 /\ B[b] = d
        <4> SUFFICES ASSUME FullBlock(g, c) PROVE FullBlock(v, c)
          BY <3>3
        <4>1. Whole(g.blk[c]) /\ g.blk[c].n = PPB
          BY <1>4, <1>5, <1>12, FullIsWhole DEF FullBlock, Even
        <4>2. Whole(d)
          BY <1>2, <1>6, <4>1, Constants DEF Whole
        <4>3. d.n \in 0 .. PPB /\ d.n # 0
          BY <1>2, <1>6, Constants
        <4>4. d.left = 0
          BY <1>6, <4>2, <4>3, MissingFacts
        <4> QED
          BY <1>3, <3>3, <4>3, <4>4 DEF FullBlock, Block_full
      <3> QED
        BY <1>7, <3>1, <3>2, <3>3
    <2>2. Cardinality(Holes(v)) <= left
      BY <1>9, <2>1, FS_Subset DEF left
    <2>3. Cardinality(Fulls(v)) \in 0 .. BPS
      BY <1>11, CountFacts
    <2>4. left + Cardinality(Fulls(v)) <= 2 * BPS
      BY <1>2, <1>9, <2>3, Constants
    <2> QED
      BY <1>3, <2>2, <2>4 DEF Counts
  <1>13. ASSUME Exact(g) PROVE Exact(v)
    <2>1. \A b \in Blocks : BlockExact(B[b])
      BY <1>6, <1>7, <1>13 DEF Exact, BlockExact
    <2> QED
      BY <1>3, <2>1 DEF Exact
  <1> QED
    BY <1>3, <1>4, <1>8, <1>11, <1>12, <1>13 DEF v

\* One block of a segment changes.
Changed(v, g, b, d, l) ==
  /\ SegInv(v) /\ v.cnt = g.cnt /\ v.last = g.last /\ v.left = l
  /\ v.blk[b] = d /\ \A c \in Blocks \ {b} : v.blk[c] = g.blk[c]

\* A segment in which one block and the counter are replaced.
LEMMA BlockChanged ==
  ASSUME NEW g, SegInv(g), g.cnt # 0, NEW b \in Blocks, NEW d, BlockInv(d), NEW l \in Counter
  PROVE  Changed([g EXCEPT !.blk[b] = d, !.left = l], g, b, d, l)
  <1> DEFINE B == [g.blk EXCEPT ![b] = d]
             v == [g EXCEPT !.blk = B, !.left = l]
  <1>1. g \in SegmentType /\ g.blk \in [Blocks -> BlockType] /\ d \in BlockType
    BY SegmentFacts DEF SegInv, BlockInv
  <1>2. B \in [Blocks -> BlockType] /\ B[b] = d /\ \A c \in Blocks \ {b} : B[c] = g.blk[c]
    BY <1>1
  <1>3. [g EXCEPT !.blk[b] = d, !.left = l] = v
    BY <1>1 DEF SegmentType
  <1> HIDE DEF B
  <1>5. v.cnt = g.cnt /\ v.last = g.last /\ v.left = l /\ v.blk = B /\ v \in SegmentType
    BY <1>1, <1>2 DEF SegmentType
  <1> HIDE DEF v
  <1>6. SegInv(v)
    BY <1>2, <1>5 DEF SegInv
  <1>7. Changed(v, g, b, d, l)
    BY <1>2, <1>5, <1>6 DEF Changed
  <1> QED
    BY <1>3, <1>7

\* The block of a piece is made.
Made(v, g, b) ==
  /\ SegInv(v) /\ v.cnt = g.cnt /\ v.last = g.last /\ v.left = g.left /\ v.blk[b].n # 0
  /\ v.blk[b].has = g.blk[b].has
  /\ FullBlock(v, b) <=> FullBlock(g, b)
  /\ v.blk[b] = g.blk[b] \/ (v.blk[b].left <= PPB /\ g.blk[b].n = 0 /\ BlockExact(v.blk[b]))
  /\ \A c \in Blocks \ {b} : v.blk[c] = g.blk[c]

\* Segment::modify_block makes a block that was NULL and changes nothing else.
LEMMA BlockMade ==
  ASSUME CountersFit, NEW g, SegInv(g), NEW b \in Blocks, b < g.cnt
  PROVE  Made(modify_block(g, b), g, b)
  <1> DEFINE v == modify_block(g, b)
             n == IF b < g.cnt - 1 THEN PPB ELSE g.last
             d == NewBlock(n)
  <1>1. g.cnt # 0 /\ g.cnt \in Nat /\ g.last \in 1 .. PPB
    <2>1. b >= 0 /\ b \in Int /\ g.cnt \in Nat
      BY SegmentFacts, Constants DEF Blocks
    <2> QED
      BY <2>1 DEF SegInv
  <1>2. CASE g.blk[b].n # 0
    <2>1. v = g
      BY <1>2 DEF modify_block
    <2> QED
      BY <1>2, <2>1 DEF Made
  <1>3. CASE g.blk[b].n = 0
    <2>1. n \in 1 .. PPB
      BY <1>1, Constants
    <2>2. v = [g EXCEPT !.blk[b] = d]
      BY <1>3 DEF modify_block
    <2> HIDE DEF n
    <2>3. BlockInv(d) /\ BlockExact(d) /\ d.n = n /\ d.has = {} /\ d.left = n /\ d.left # 0
      BY <2>1, NewBlockFacts
    <2> HIDE DEF d
    <2>4. g.left \in Counter /\ g \in SegmentType
      BY SegmentFacts DEF SegInv
    <2>5. v = [g EXCEPT !.blk[b] = d, !.left = g.left]
      BY <2>2, <2>4 DEF SegmentType
    <2> HIDE DEF v
    <2>6. /\ SegInv(v) /\ v.cnt = g.cnt /\ v.last = g.last /\ v.left = g.left
          /\ v.blk[b] = d /\ \A c \in Blocks \ {b} : v.blk[c] = g.blk[c]
      <3>1. Changed(v, g, b, d, g.left)
        BY <1>1, <2>3, <2>4, <2>5, BlockChanged
      <3> QED
        BY <3>1 DEF Changed
    <2>7. g.blk[b] = NoBlock /\ g.blk[b].has = {}
      BY <1>3, NoBlockFacts DEF SegInv, BlockInv
    <2>8. n <= PPB /\ n # 0
      BY <2>1, Constants
    <2> QED
      BY <1>3, <2>3, <2>6, <2>7, <2>8 DEF Made, FullBlock, Block_full, v
  <1> QED
    BY <1>2, <1>3

\* A block that is made misses pieces, as the NULL block did.
LEMMA MadeCounts ==
  ASSUME NEW v, NEW g, NEW b, Made(v, g, b)
  PROVE  /\ Holes(v) = Holes(g) /\ Fulls(v) = Fulls(g) /\ (Counts(g) => Counts(v))
         /\ Exact(g) => Exact(v)
         /\ \A c \in Blocks : v.blk[c].has = g.blk[c].has
  <1>1. ASSUME NEW c PROVE c \in Blocks => (FullBlock(v, c) <=> FullBlock(g, c))
    <2>1. CASE c = b
      BY <2>1 DEF Made
    <2>2. CASE c # b
      BY <2>2 DEF Made, FullBlock
    <2> QED
      BY <2>1, <2>2
  <1>2. Fulls(v) = Fulls(g)
    BY <1>1 DEF Fulls
  <1>3. 0 .. v.cnt - 1 = 0 .. g.cnt - 1 /\ 0 .. v.cnt - 1 \subseteq Blocks
    BY SegmentFacts DEF Made
  <1>4. Holes(v) = Holes(g)
    BY <1>1, <1>3 DEF Holes
  <1>5. Counts(g) => Counts(v)
    BY <1>2, <1>4 DEF Counts, Made
  <1>6. Exact(g) => Exact(v)
    BY DEF Exact, Made
  <1>7. \A c \in Blocks : v.blk[c].has = g.blk[c].has
    BY DEF Made
  <1> QED
    BY <1>2, <1>4, <1>5, <1>6, <1>7

\* A piece comes to a segment.
PieceAdded(v, g, b, p) ==
  /\ SegInv(v) /\ v.cnt = g.cnt /\ v.last = g.last
  /\ v.blk[b].has = g.blk[b].has \union {p}
  /\ \A c \in Blocks \ {b} : v.blk[c] = g.blk[c]
  /\ v.blk[b].left <= PPB \/ v.blk[b].left < g.blk[b].left
  /\ v.blk[b].n = modify_block(g, b).blk[b].n
  /\ Exact(g) => Exact(v)
  /\ Counts(g) => Counts(v)

\* Segment::set_piece adds one piece, and the counter goes down with a block that gets full.
LEMMA PieceSet ==
  ASSUME CountersFit, NEW g, SegInv(g), NEW o \in 0 .. SegPos - 1, BlkOf(o) < g.cnt,
         PieOf(o) < modify_block(g, BlkOf(o)).blk[BlkOf(o)].n, PieOf(o) \notin g.blk[BlkOf(o)].has
  PROVE  PieceAdded(Segment_set_piece(g, o), g, BlkOf(o), PieOf(o))
  <1> DEFINE b == BlkOf(o)
             p == PieOf(o)
             h == modify_block(g, b)
             d == Filled(h.blk[b], p)
             l == IF Block_full(d) THEN U16(h.left - 1) ELSE h.left
             v == Segment_set_piece(g, o)
  <1>1. b \in Blocks /\ p \in 0 .. PPB - 1 /\ b < g.cnt
    BY OffsetFacts
  <1>2. p < h.blk[b].n /\ p \notin g.blk[b].has
    OBVIOUS
  <1>3. h.blk \in [Blocks -> BlockType] /\ h \in SegmentType /\ SegInv(h) /\ Made(h, g, b)
    <2>1. Made(h, g, b)
      BY <1>1, BlockMade
    <2>2. SegInv(h)
      BY <2>1 DEF Made
    <2> QED
      BY <2>1, <2>2, SegmentFacts DEF SegInv
  <1>4. v = [h EXCEPT !.blk[b] = d, !.left = l]
    BY <1>3 DEF Segment_set_piece, Filled, SegmentType
  <1> HIDE DEF b, p, h, v
  <1>5. BlockInv(h.blk[b]) /\ p \in 0 .. h.blk[b].n - 1 /\ p \notin h.blk[b].has /\ h.blk[b].left \in Nat
    <2>1. BlockInv(h.blk[b]) /\ h.blk[b].n \in 0 .. PPB /\ h.blk[b].left \in Nat
      BY <1>1, <1>3, SegmentFacts DEF SegInv
    <2>2. p \notin h.blk[b].has
      BY <1>2, <1>3 DEF Made
    <2> QED
      BY <1>1, <1>2, <2>1, <2>2, Constants
  <1>6. /\ BlockInv(d) /\ d.n = h.blk[b].n /\ d.has = h.blk[b].has \union {p}
        /\ d.left = h.blk[b].left - 1 /\ h.blk[b].left # 0
        /\ BlockExact(h.blk[b]) => BlockExact(d)
    BY <1>5, BlockFilled
  <1> HIDE DEF d
  <1>7. h.left \in Counter /\ h.left \in Nat /\ h.cnt = g.cnt /\ h.cnt # 0 /\ g.cnt \in Nat
    <2>1. h.left \in Counter /\ h.left \in Nat /\ g.cnt \in Nat /\ b >= 0 /\ b \in Int
      BY <1>1, <1>3, SegmentFacts, Constants DEF Blocks
    <2> QED
      BY <1>1, <1>3, <2>1 DEF Made
  <1>8. l \in Counter
    <2>1. h.left - 1 \in Int
      BY <1>7
    <2> QED
      BY <1>7, <2>1, U16Facts
  <1>9. /\ SegInv(v) /\ v.cnt = h.cnt /\ v.last = h.last /\ v.left = l
        /\ v.blk[b] = d /\ \A c \in Blocks \ {b} : v.blk[c] = h.blk[c]
    <2> HIDE DEF l
    <2>1. Changed(v, h, b, d, l)
      BY <1>1, <1>3, <1>4, <1>6, <1>7, <1>8, BlockChanged
    <2> QED
      BY <2>1 DEF Changed
  <1>10. Exact(g) => Exact(v)
    BY <1>3, <1>6, <1>9, MadeCounts DEF Exact
  <1>11. ASSUME Counts(g) PROVE Counts(v)
    <2>1. Counts(h)
      BY <1>3, <1>11, MadeCounts
    <2>2. ~FullBlock(h, b) /\ d.n # 0 /\ b \in 0 .. h.cnt - 1
      <3>1. d.n # 0
        BY <1>5, <1>6
      <3>2. b \in 0 .. h.cnt - 1
        BY <1>1, <1>7, Constants DEF Blocks
      <3> QED
        BY <1>6, <3>1, <3>2 DEF FullBlock, Block_full
    <2>3. \A c \in Blocks : c # b => (FullBlock(v, c) <=> FullBlock(h, c))
      BY <1>9 DEF FullBlock
    <2>4. FullBlock(v, b) <=> Block_full(d)
      BY <1>9, <2>2 DEF FullBlock
    <2>5. 0 .. h.cnt - 1 \subseteq Blocks /\ v.cnt = h.cnt
      BY <1>3, <1>9, SegmentFacts
    <2>6. CASE Block_full(d)
      <3>1. Holes(v) = Holes(h) \ {b} /\ b \in Holes(h)
        BY <2>2, <2>3, <2>4, <2>5, <2>6 DEF Holes
      <3>2. Fulls(v) = Fulls(h) \union {b} /\ b \notin Fulls(h)
        BY <1>1, <2>2, <2>3, <2>4, <2>6 DEF Fulls
      <3>3. IsFiniteSet(Holes(h)) /\ IsFiniteSet(Fulls(h)) /\ Cardinality(Fulls(h)) \in Nat
            /\ Cardinality(Holes(h)) \in Nat
        BY <1>3, CountFacts, SegmentFacts, Constants
      <3>4. Cardinality(Holes(v)) = Cardinality(Holes(h)) - 1
        BY <3>1, <3>3, FS_RemoveElement
      <3>5. Cardinality(Fulls(v)) = Cardinality(Fulls(h)) + 1
        BY <3>2, <3>3, FS_AddElement
      <3>6. Cardinality(Holes(v)) \in Nat
        BY <1>9, CountFacts, SegmentFacts
      <3>7. h.left >= 1
        BY <1>7, <2>1, <3>3, <3>4, <3>6 DEF Counts
      <3>8. v.left = h.left - 1
        <4>1. h.left - 1 \in Counter
          BY <1>7, <3>7, U16Facts
        <4> QED
          BY <1>9, <2>6, <4>1, U16Facts
      <3> QED
        BY <1>7, <2>1, <3>3, <3>4, <3>5, <3>8, Constants DEF Counts
    <2>7. CASE ~Block_full(d)
      <3>1. Holes(v) = Holes(h) /\ Fulls(v) = Fulls(h)
        BY <1>1, <2>2, <2>3, <2>4, <2>5, <2>7 DEF Holes, Fulls
      <3> QED
        BY <1>9, <2>1, <2>7, <3>1 DEF Counts
    <2> QED
      BY <2>6, <2>7
  <1>12. v.blk[b].left <= PPB \/ v.blk[b].left < g.blk[b].left
    BY <1>3, <1>5, <1>6, <1>9, Constants DEF Made
  <1>13. v.blk[b].has = g.blk[b].has \union {p} /\ \A c \in Blocks \ {b} : v.blk[c] = g.blk[c]
    BY <1>3, <1>6, <1>9 DEF Made
  <1>14. v.last = g.last /\ v.blk[b].n = h.blk[b].n
    BY <1>3, <1>6, <1>9 DEF Made
  <1> QED
    BY <1>7, <1>9, <1>10, <1>11, <1>12, <1>13, <1>14 DEF b, p, h, v, PieceAdded

\* A block of a segment is read from disk.
BlockAdded(v, g, b, n) ==
  /\ SegInv(v) /\ v.cnt = g.cnt /\ v.last = g.last
  /\ n \in 1 .. PPB /\ v.blk[b].n = n /\ v.blk[b].has = g.blk[b].has \union (0 .. n - 1)
  /\ \A c \in Blocks \ {b} : v.blk[c] = g.blk[c]
  /\ v.blk[b].left <= PPB \/ v.blk[b].left = g.blk[b].left

\* Segment::map_block adds a whole block.
LEMMA MapSet ==
  ASSUME CountersFit, NEW g, SegInv(g), NEW b \in Blocks, b < g.cnt
  PROVE  BlockAdded(Segment_map_block(g, b), g, b, modify_block(g, b).blk[b].n)
  <1> DEFINE h == modify_block(g, b)
             d == Block_set_data(h.blk[b])
             l == U16(h.left - 1)
             v == Segment_map_block(g, b)
  <1>1. Made(h, g, b)
    BY BlockMade
  <1>2. SegInv(h)
    BY <1>1 DEF Made
  <1>3. h \in SegmentType /\ h.left \in Nat /\ h.cnt = g.cnt /\ h.cnt # 0 /\ BlockInv(h.blk[b])
        /\ h.blk[b].n \in 1 .. PPB
    <2>1. h \in SegmentType /\ h.left \in Nat /\ h.cnt = g.cnt /\ h.cnt \in Nat
          /\ h.blk[b].n \in 0 .. PPB /\ h.blk[b].n # 0 /\ BlockInv(h.blk[b])
      BY <1>1, <1>2, SegmentFacts DEF Made, SegInv
    <2> QED
      BY <2>1, Constants DEF Blocks
  <1>4. v = [h EXCEPT !.blk[b] = d, !.left = l]
    BY <1>3 DEF Segment_map_block, SegmentType
  <1>5. l \in Counter
    <2>1. h.left - 1 \in Int
      BY <1>3
    <2> QED
      BY <2>1, U16Facts
  <1> HIDE DEF h, v, l
  <1>6. BlockInv(d) /\ d.n = h.blk[b].n /\ d.has = h.blk[b].has \union (0 .. h.blk[b].n - 1) /\ d.left = h.blk[b].left
    BY <1>3, BlockMapped
  <1> HIDE DEF d
  <1>7. /\ SegInv(v) /\ v.cnt = h.cnt /\ v.last = g.last
        /\ v.blk[b] = d /\ \A c \in Blocks \ {b} : v.blk[c] = h.blk[c]
    <2>1. Changed(v, h, b, d, l)
      BY <1>2, <1>3, <1>4, <1>5, <1>6, BlockChanged
    <2> QED
      BY <1>1, <2>1 DEF Changed, Made
  <1>8. \A c \in Blocks \ {b} : v.blk[c] = g.blk[c]
    BY <1>1, <1>7 DEF Made
  <1>9. v.blk[b].has = g.blk[b].has \union (0 .. h.blk[b].n - 1)
        /\ (v.blk[b].left <= PPB \/ v.blk[b].left = g.blk[b].left)
    BY <1>1, <1>6, <1>7 DEF Made
  <1> QED
    BY <1>3, <1>6, <1>7, <1>8, <1>9 DEF h, v, BlockAdded
-----------------------------------------------------------------------------
(* Release *)

\* How many of the pieces of a block are before an offset.
Before(b, o) == IF b < BlkOf(o) THEN PPB ELSE IF b = BlkOf(o) THEN PieOf(o) ELSE 0
Till(b, t)   == IF t = 0 THEN PPB ELSE Before(b, t)

\* The pieces of a block that lie before an offset, and up to an offset.
LEMMA BeforeFacts ==
  ASSUME NEW b \in Blocks, NEW x \in 0 .. SegPos - 1, NEW y \in 0 .. SegPos - 1
  PROVE  /\ Before(b, x) \in 0 .. PPB /\ Till(b, x) \in 0 .. PPB
         /\ x <= y => Before(b, x) <= Before(b, y)
         /\ Before(b, 0) = 0
  <1>1. /\ BlkOf(x) \in Blocks /\ PieOf(x) \in 0 .. PPB - 1 /\ BlkOf(y) \in Blocks /\ PieOf(y) \in 0 .. PPB - 1
        /\ PPB \in Nat \ {0} /\ BPS \in Nat
    BY OffsetFacts, Constants
  <1>2. Before(b, x) \in 0 .. PPB
    BY <1>1 DEF Before, Blocks
  <1>3. ASSUME x <= y PROVE Before(b, x) <= Before(b, y)
    <2>1. BlkOf(x) < BlkOf(y) \/ (BlkOf(x) = BlkOf(y) /\ PieOf(x) <= PieOf(y))
      BY <1>3, OffsetOrder
    <2> QED
      BY <1>1, <2>1 DEF Before, Blocks
  <1>4. BlkOf(0) = 0 /\ PieOf(0) = 0
    BY <1>1 DEF BlkOf, PieOf
  <1>5. Before(b, 0) = 0
    BY <1>1, <1>4 DEF Before, Blocks
  <1> QED
    BY <1>1, <1>2, <1>3, <1>5 DEF Till

\* The block at which a release ends, and whether a block is the first or last, cut by it.
UpTo(g, t) == IF t = 0 THEN g.cnt ELSE BlkOf(t)
IsHead(g, f, t, b) == b = BlkOf(f) /\ BlkOf(f) < UpTo(g, t) /\ PieOf(f) # 0
IsMid(g, f, t, b)  == BlkOf(f) <= b /\ b < UpTo(g, t) /\ ~IsHead(g, f, t, b)
IsTail(g, f, t, b) == b = UpTo(g, t) /\ PieOf(t) # 0

\* What becomes of a block.
BlockAfter(g, f, t, b) ==
  IF g.blk[b].n = 0 THEN NoBlock
  ELSE IF IsMid(g, f, t, b) THEN NoBlock
  ELSE IF IsHead(g, f, t, b) THEN Block_release(g.blk[b], PieOf(f), g.blk[b].n)
  ELSE IF IsTail(g, f, t, b)
       THEN Block_release(g.blk[b], IF BlkOf(f) = UpTo(g, t) THEN PieOf(f) ELSE 0, PieOf(t))
  ELSE g.blk[b]

\* The full blocks that a release touches, and the first block when it is full after it.
Lost(g, f, t) ==
  {b \in Blocks : (IsHead(g, f, t, b) \/ IsMid(g, f, t, b) \/ IsTail(g, f, t, b)) /\ FullBlock(g, b)}
Kept(g, f, t) ==
  {b \in Blocks : /\ IsHead(g, f, t, b) /\ BlockAfter(g, f, t, b).n # 0
                  /\ Block_full(BlockAfter(g, f, t, b))}

\* Segment::release as one update: each block by itself, then the counter.
LEMMA ReleaseParts ==
  ASSUME NEW g, NEW f, NEW t
  PROVE  Segment_release(g, f, t) =
           [g EXCEPT !.blk = [b \in Blocks |-> BlockAfter(g, f, t, b)],
                     !.left = U16(@ + Cardinality(Lost(g, f, t)) - Cardinality(Kept(g, f, t)))]
  <1> DEFINE B == [b \in Blocks |-> BlockAfter(g, f, t, b)]
  <1>1. Kept(g, f, t) = {b \in Blocks : IsHead(g, f, t, b) /\ B[b].n # 0 /\ Block_full(B[b])}
    BY DEF Kept
  <1>2. Segment_release(g, f, t) =
           [g EXCEPT !.blk = B,
                     !.left = U16(@ + Cardinality(Lost(g, f, t))
                       - Cardinality({b \in Blocks : IsHead(g, f, t, b) /\ B[b].n # 0 /\ Block_full(B[b])}))]
    BY DEF Segment_release, BlockAfter, IsHead, IsMid, IsTail, UpTo, Lost
  <1> QED
    BY <1>1, <1>2

\* The bounds of a release inside a segment.
Bounds(f, t) == f \in 0 .. SegPos - 1 /\ t \in 0 .. SegPos - 1 /\ (t = 0 \/ f < t)

\* A block d is what is left of block b of g after the pieces f .. t - 1 are gone.
Left(d, g, f, t, b) ==
  /\ BlockInv(d) /\ d.n \in {0, g.blk[b].n} /\ d.left <= MaxLeft + Till(b, t)
  /\ d.has \subseteq g.blk[b].has
  /\ g.blk[b].left # 0 => d.n = 0 \/ d.left # 0
  /\ b \in Lost(g, f, t) /\ b \notin Kept(g, f, t) <=> FullBlock(g, b) /\ ~(d.n # 0 /\ Block_full(d))
  /\ PieOf(f) = 0 /\ PieOf(t) = 0 /\ BlockExact(g.blk[b]) => BlockExact(d)
\* What a block is after a release: its invariant holds, and its counter has risen by
\* the pieces before the end of the release at most.
LEMMA BlockLeft ==
  ASSUME CountersFit, NEW g, SegInv(g), NEW f, NEW t, Bounds(f, t), NEW b \in Blocks,
         g.blk[b].left <= MaxLeft + Before(b, f)
  PROVE  Left(BlockAfter(g, f, t, b), g, f, t, b)
  <1> DEFINE c == g.blk[b]
             d == BlockAfter(g, f, t, b)
             Bf == BlkOf(f)
             Pf == PieOf(f)
             Bt == BlkOf(t)
             Pt == PieOf(t)
  <1>1. /\ Bf \in Blocks /\ Pf \in 0 .. PPB - 1 /\ Bt \in Blocks /\ Pt \in 0 .. PPB - 1
        /\ PPB \in Nat \ {0} /\ BPS \in Nat /\ MaxLeft \in Nat
    BY OffsetFacts, Constants DEF Bounds
  <1>2. BlockInv(c) /\ c.n \in 0 .. PPB /\ c.left \in Nat
    BY SegmentFacts DEF SegInv
  <1>3. c.n = 0 => c = NoBlock
    BY <1>2 DEF BlockInv
  <1>4. c.left <= MaxLeft + Before(b, f)
    OBVIOUS
  <1>5. Before(b, f) \in 0 .. PPB /\ Till(b, t) \in 0 .. PPB
    BY BeforeFacts DEF Bounds
  <1>6. FullBlock(g, b) <=> c.n # 0 /\ Block_full(c)
    BY DEF FullBlock
  <1>7. t = 0 => Pt = 0 /\ Bt = 0
    BY <1>1 DEF PieOf, BlkOf
  <1>8. ASSUME BlockInv(d), d.n \in {0, c.n}, d.left <= MaxLeft + Till(b, t),
               d.has \subseteq c.has, c.left # 0 => d.n = 0 \/ d.left # 0,
               b \in Lost(g, f, t) /\ b \notin Kept(g, f, t) <=> FullBlock(g, b) /\ ~(d.n # 0 /\ Block_full(d)),
               Pf = 0 /\ Pt = 0 /\ BlockExact(c) => BlockExact(d)
        PROVE  Left(d, g, f, t, b)
    BY <1>8 DEF Left
  <1>9. b \in Lost(g, f, t) <=> (IsHead(g, f, t, b) \/ IsMid(g, f, t, b) \/ IsTail(g, f, t, b)) /\ FullBlock(g, b)
    BY DEF Lost
  <1>10. b \in Kept(g, f, t) <=> IsHead(g, f, t, b) /\ d.n # 0 /\ Block_full(d)
    BY DEF Kept
  <1> HIDE DEF c
  <1>11. CASE d = NoBlock /\ (c.n = 0 \/ IsMid(g, f, t, b))
    <2>1. BlockInv(d) /\ BlockExact(d) /\ d.n = 0 /\ d.left = 0 /\ d.has = {}
      BY <1>11, NoBlockFacts
    <2>2. d.left <= MaxLeft + Till(b, t)
      BY <1>1, <1>5, <2>1
    <2>3. b \in Lost(g, f, t) /\ b \notin Kept(g, f, t) <=> FullBlock(g, b) /\ ~(d.n # 0 /\ Block_full(d))
      BY <1>6, <1>9, <1>10, <1>11, <2>1
    <2> HIDE DEF d, Bf, Pf, Bt, Pt
    <2> QED
      BY <1>8, <2>1, <2>2, <2>3 DEF d
  <1>12. CASE c.n # 0 /\ ~IsMid(g, f, t, b) /\ IsHead(g, f, t, b)
    <2>1. d = Block_release(c, Pf, c.n)
      BY <1>12 DEF BlockAfter, c
    <2>2. b = Bf /\ Bf < UpTo(g, t) /\ Pf # 0
      BY <1>12 DEF IsHead
    <2> HIDE DEF d, Bf, Pf, Bt, Pt
    <2>3. Before(b, f) = Pf
      BY <1>1, <2>2 DEF Before, Bf, Pf, Blocks
    <2>4. Till(b, t) = PPB
      BY <1>1, <2>2 DEF Till, Before, UpTo, Bt, Blocks
    <2>5. Pf \in 0 .. PPB /\ c.left + (c.n - Pf) < Values
      <3>1. Pf \in 0 .. PPB /\ c.n <= PPB /\ c.n \in Nat
        BY <1>1, <1>2
      <3>2. Values \in Nat
        BY U16Facts
      <3> QED
        BY <1>1, <1>2, <1>4, <2>3, <3>1, <3>2 DEF CountersFit
    <2>6. /\ BlockInv(d) /\ d.n = c.n /\ d.has = c.has \ (Pf .. c.n - 1)
          /\ d.left = c.left + (IF Pf < c.n THEN c.n - Pf ELSE 0)
      BY <1>2, <1>12, <2>1, <2>5, BlockReleased
    <2>7. d.left <= MaxLeft + Till(b, t) /\ (c.left # 0 => d.left # 0)
      BY <1>1, <1>2, <1>4, <2>3, <2>4, <2>6
    <2>8. b \in Lost(g, f, t) /\ b \notin Kept(g, f, t) <=> FullBlock(g, b) /\ ~(d.n # 0 /\ Block_full(d))
      BY <1>9, <1>10, <1>12
    <2>9. d.n \in {0, c.n} /\ d.has \subseteq c.has
      BY <2>6
    <2> QED
      BY <1>8, <2>2, <2>6, <2>7, <2>8, <2>9 DEF d
  <1>13. CASE c.n # 0 /\ ~IsMid(g, f, t, b) /\ ~IsHead(g, f, t, b) /\ IsTail(g, f, t, b)
    <2> DEFINE q == IF Bf = UpTo(g, t) THEN Pf ELSE 0
    <2>1. d = Block_release(c, q, Pt)
      BY <1>13 DEF BlockAfter, c
    <2>2. b = UpTo(g, t) /\ Pt # 0
      BY <1>13 DEF IsTail
    <2> HIDE DEF d, Bf, Pf, Bt, Pt
    <2>3. t # 0 /\ b = Bt
      BY <1>7, <2>2 DEF UpTo, Bt
    <2>4. Bf < Bt \/ (Bf = Bt /\ Pf <= Pt)
      <3>1. f <= t /\ f \in 0 .. SegPos - 1 /\ t \in 0 .. SegPos - 1
        BY <2>3, Constants DEF Bounds
      <3> QED
        BY <3>1, OffsetOrder DEF Bf, Pf, Bt, Pt
    <2>5. Bf = Bt => Pf # Pt
      <3>1. f < t /\ f \in 0 .. SegPos - 1 /\ t \in 0 .. SegPos - 1
        BY <2>3 DEF Bounds
      <3>2. ~(t <= f)
        BY <3>1, Constants
      <3>3. ~(Bt < Bf \/ (Bt = Bf /\ Pt <= Pf))
        BY <3>1, <3>2, OffsetOrder DEF Bf, Pf, Bt, Pt
      <3> QED
        BY <1>1, <3>3
    <2>6. q = Before(b, f) /\ q \in 0 .. PPB /\ q < Pt
      <3>1. q = (IF Bf = b THEN Pf ELSE 0)
        BY <2>2
      <3>2. Before(b, f) = q
        BY <1>1, <2>3, <2>4, <3>1 DEF Before, Bf, Pf, Blocks
      <3>3. q \in 0 .. PPB
        BY <1>1, <3>1
      <3>4. q < Pt
        <4>1. Pt > 0
          BY <1>1, <2>2
        <4>2. Bf = b => Pf < Pt
          BY <1>1, <2>3, <2>4, <2>5 DEF Blocks
        <4> QED
          BY <3>1, <4>1, <4>2
      <3> QED
        BY <3>2, <3>3, <3>4
    <2>7. Till(b, t) = Pt
      BY <1>1, <2>3 DEF Till, Before, Bt, Pt, Blocks
    <2> HIDE DEF q
    <2>8. Pt \in 0 .. PPB /\ c.left + (Pt - q) < Values
      <3>1. Values \in Nat
        BY U16Facts
      <3> QED
        BY <1>1, <1>2, <1>4, <2>6, <3>1 DEF CountersFit
    <2>9. /\ BlockInv(d) /\ d.n = c.n /\ d.has = c.has \ (q .. Pt - 1)
          /\ d.left = c.left + (IF q < Pt THEN Pt - q ELSE 0)
      BY <1>2, <1>13, <2>1, <2>6, <2>8, BlockReleased
    <2>10. d.left <= MaxLeft + Till(b, t) /\ d.left # 0
      BY <1>1, <1>2, <1>4, <2>6, <2>7, <2>9
    <2>11. b \in Lost(g, f, t) /\ b \notin Kept(g, f, t) <=> FullBlock(g, b) /\ ~(d.n # 0 /\ Block_full(d))
      BY <1>9, <1>10, <1>13, <2>10 DEF Block_full
    <2>12. d.n \in {0, c.n} /\ d.has \subseteq c.has
      BY <2>9
    <2> QED
      BY <1>8, <2>2, <2>9, <2>10, <2>11, <2>12 DEF d
  <1>14. CASE d = c /\ ~IsMid(g, f, t, b) /\ ~IsHead(g, f, t, b) /\ ~IsTail(g, f, t, b)
    <2>1. Before(b, f) <= Till(b, t)
      <3>1. CASE t = 0
        BY <1>1, <1>5, <3>1 DEF Till
      <3>2. CASE t # 0
        <4>1. f <= t /\ f \in 0 .. SegPos - 1 /\ t \in 0 .. SegPos - 1
          BY <3>2, Constants DEF Bounds
        <4> QED
          BY <3>2, <4>1, BeforeFacts DEF Till
      <3> QED
        BY <3>1, <3>2
    <2>2. d.left <= MaxLeft + Till(b, t)
      BY <1>1, <1>2, <1>4, <1>5, <1>14, <2>1
    <2>3. b \in Lost(g, f, t) /\ b \notin Kept(g, f, t) <=> FullBlock(g, b) /\ ~(d.n # 0 /\ Block_full(d))
      BY <1>6, <1>9, <1>14
    <2>4. BlockInv(d) /\ d.n \in {0, c.n} /\ d.has \subseteq c.has /\ d.left = c.left
          /\ (BlockExact(c) => BlockExact(d))
      BY <1>2, <1>14
    <2> HIDE DEF d, Bf, Pf, Bt, Pt
    <2> QED
      BY <1>8, <2>2, <2>3, <2>4 DEF d
  <1>15. \/ d = NoBlock /\ (c.n = 0 \/ IsMid(g, f, t, b))
         \/ c.n # 0 /\ ~IsMid(g, f, t, b) /\ IsHead(g, f, t, b)
         \/ c.n # 0 /\ ~IsMid(g, f, t, b) /\ ~IsHead(g, f, t, b) /\ IsTail(g, f, t, b)
         \/ d = c /\ ~IsMid(g, f, t, b) /\ ~IsHead(g, f, t, b) /\ ~IsTail(g, f, t, b)
    BY DEF BlockAfter, c
  <1> QED
    BY <1>11, <1>12, <1>13, <1>14, <1>15
\* A segment v is what is left of g after the pieces f .. t - 1 are gone.
SegLeft(v, g, f, t) ==
  /\ SegInv(v) /\ v.cnt = g.cnt /\ v.last = g.last
  /\ \A b \in Blocks : /\ v.blk[b].n \in {0, g.blk[b].n} /\ v.blk[b].has \subseteq g.blk[b].has
                       /\ v.blk[b].left <= MaxLeft + Till(b, t)
  /\ Counts(g) => Counts(v)
  /\ PieOf(f) = 0 /\ PieOf(t) = 0 /\ Exact(g) => Exact(v)

\* The same for the segment: its invariant and its counter after a release.
LEMMA SegmentLeft ==
  ASSUME CountersFit, NEW g, SegInv(g), g.cnt # 0, NEW f, NEW t, Bounds(f, t),
         \A b \in Blocks : g.blk[b].left <= MaxLeft + Before(b, f)
  PROVE  /\ SegLeft(Segment_release(g, f, t), g, f, t)
         /\ \A b \in Blocks : Segment_release(g, f, t).blk[b] = BlockAfter(g, f, t, b)
  <1> DEFINE v == Segment_release(g, f, t)
             D(b) == BlockAfter(g, f, t, b)
             B == [b \in Blocks |-> D(b)]
             L == Lost(g, f, t)
             K == Kept(g, f, t)
             l == U16(g.left + Cardinality(L) - Cardinality(K))
             G == L \ K
  <1>1. v = [g EXCEPT !.blk = B, !.left = l]
    <2>1. v = [g EXCEPT !.blk = [b \in Blocks |-> BlockAfter(g, f, t, b)],
                        !.left = U16(@ + Cardinality(Lost(g, f, t)) - Cardinality(Kept(g, f, t)))]
      BY ReleaseParts
    <2> QED
      BY <2>1
  <1>2. \A b \in Blocks : Left(D(b), g, f, t, b) /\ B[b] = D(b)
    BY BlockLeft
  <1>3. \A b \in Blocks : D(b) \in BlockType
    BY <1>2 DEF Left, BlockInv
  <1> HIDE DEF D
  <1>4. B \in [Blocks -> BlockType]
    BY <1>3
  <1> HIDE DEF B
  <1>5. IsFiniteSet(Blocks) /\ L \subseteq Blocks /\ K \subseteq L /\ G \subseteq Fulls(g)
    <2>1. IsFiniteSet(Blocks) /\ L \subseteq Blocks
      BY CountFacts DEF Lost
    <2>2. ASSUME NEW b \in K PROVE b \in L
      <3>1. b \in Blocks /\ IsHead(g, f, t, b) /\ D(b).n # 0 /\ Block_full(D(b))
        BY <2>2 DEF Kept, D
      <3>2. Left(D(b), g, f, t, b)
        BY <1>2, <3>1
      <3>3. g.blk[b].n # 0 /\ g.blk[b].left = 0
        BY <3>1, <3>2 DEF Left, Block_full
      <3> QED
        BY <3>1, <3>3 DEF Lost, FullBlock, Block_full
    <2>3. L \subseteq Fulls(g)
      BY DEF Lost, Fulls
    <2> QED
      BY <2>1, <2>2, <2>3
  <1> HIDE DEF L, K
  <1>6. /\ IsFiniteSet(L) /\ IsFiniteSet(K) /\ IsFiniteSet(G)
        /\ Cardinality(L) \in Nat /\ Cardinality(K) \in Nat /\ Cardinality(G) \in Nat
        /\ Cardinality(G) = Cardinality(L) - Cardinality(K)
    <2>1. IsFiniteSet(L) /\ IsFiniteSet(K)
      BY <1>5, FS_Subset
    <2>2. L \intersect K = K
      BY <1>5
    <2>3. IsFiniteSet(L \ K) /\ Cardinality(L \ K) = Cardinality(L) - Cardinality(L \intersect K)
      BY <2>1, FS_Difference
    <2>4. Cardinality(L) \in Nat /\ Cardinality(K) \in Nat /\ Cardinality(L \ K) \in Nat
      BY <2>1, <2>3, FS_CardinalityType
    <2> QED
      BY <2>1, <2>2, <2>3, <2>4
  <1>7. g \in SegmentType /\ g.left \in Counter /\ g.left \in Nat
    BY SegmentFacts DEF SegInv
  <1>8. l \in Counter
    <2>1. g.left + Cardinality(L) - Cardinality(K) \in Int
      BY <1>6, <1>7
    <2> QED
      BY <2>1, U16Facts
  <1> HIDE DEF l
  <1>9. v.cnt = g.cnt /\ v.last = g.last /\ v.left = l /\ v.blk = B /\ v \in SegmentType
    BY <1>1, <1>4, <1>7, <1>8 DEF SegmentType
  <1> HIDE DEF v
  <1>10. SegInv(v)
    <2>1. \A b \in Blocks : BlockInv(B[b])
      BY <1>2 DEF Left
    <2> QED
      BY <1>9, <2>1 DEF SegInv
  <1>11. \A b \in Blocks : /\ v.blk[b].n \in {0, g.blk[b].n} /\ v.blk[b].has \subseteq g.blk[b].has
                           /\ v.blk[b].left <= MaxLeft + Till(b, t)
    BY <1>2, <1>9 DEF Left
  <1>12. \A b \in Blocks : FullBlock(v, b) <=> FullBlock(g, b) /\ b \notin G
    <2> TAKE b \in Blocks
    <2>1. Left(D(b), g, f, t, b) /\ v.blk[b] = D(b)
      BY <1>2, <1>9
    <2>2. FullBlock(v, b) => FullBlock(g, b)
      BY <2>1 DEF FullBlock, Block_full, Left
    <2>3. b \in G <=> FullBlock(g, b) /\ ~FullBlock(v, b)
      BY <2>1 DEF FullBlock, Left, L, K
    <2> QED
      BY <2>2, <2>3
  <1>13. ASSUME Counts(g) PROVE Counts(v)
    <2>1. Fulls(v) = Fulls(g) \ G
      BY <1>12 DEF Fulls
    <2>2. 0 .. g.cnt - 1 \subseteq Blocks
      BY SegmentFacts
    <2>3. Holes(v) \subseteq Holes(g) \union G
      BY <1>9, <1>12, <2>2 DEF Holes
    <2>4. IsFiniteSet(Holes(g)) /\ IsFiniteSet(Fulls(g)) /\ Cardinality(Holes(g)) \in Nat /\ Cardinality(Fulls(g)) \in Nat
      BY CountFacts, SegmentFacts, Constants
    <2> HIDE DEF G
    <2>5. Cardinality(Fulls(v)) = Cardinality(Fulls(g)) - Cardinality(G)
      <3>1. Fulls(g) \intersect G = G
        BY <1>5
      <3>2. Cardinality(Fulls(g) \ G) = Cardinality(Fulls(g)) - Cardinality(Fulls(g) \intersect G)
        BY <2>4, FS_Difference
      <3> QED
        BY <2>1, <3>1, <3>2
    <2>6. Cardinality(Holes(v)) <= Cardinality(Holes(g)) + Cardinality(G)
      <3>1. /\ IsFiniteSet(Holes(g) \union G)
            /\ Cardinality(Holes(g) \union G) = Cardinality(Holes(g)) + Cardinality(G) - Cardinality(Holes(g) \intersect G)
        BY <1>6, <2>4, FS_Union
      <3>2. Cardinality(Holes(g) \intersect G) \in Nat
        BY <2>4, FS_Intersection, FS_CardinalityType
      <3>3. Cardinality(Holes(v)) <= Cardinality(Holes(g) \union G) /\ Cardinality(Holes(v)) \in Nat
        BY <2>3, <3>1, FS_Subset, FS_CardinalityType
      <3> QED
        BY <1>6, <2>4, <3>1, <3>2, <3>3
    <2>7. Cardinality(Fulls(v)) \in Nat
      BY <1>10, CountFacts, Constants
    <2>8. g.left + Cardinality(L) - Cardinality(K) \in Counter
      <3>1. 0 <= g.left + Cardinality(G) /\ g.left + Cardinality(G) <= 2 * BPS
        BY <1>6, <1>7, <1>13, <2>4, <2>5, <2>7, Constants DEF Counts
      <3>2. 2 * BPS < Values /\ Values \in Nat /\ Counter = 0 .. Values - 1 /\ BPS \in Nat
        BY U16Facts, Constants DEF CountersFit
      <3>3. g.left + Cardinality(G) \in Counter
        BY <1>6, <1>7, <3>1, <3>2
      <3>4. g.left + Cardinality(L) - Cardinality(K) = g.left + Cardinality(G)
        BY <1>6, <1>7
      <3> QED
        BY <3>3, <3>4
    <2>9. v.left = g.left + Cardinality(G)
      <3>1. l = g.left + Cardinality(L) - Cardinality(K)
        BY <2>8, U16Facts DEF l
      <3> QED
        BY <1>6, <1>7, <1>9, <3>1
    <2>10. Cardinality(Holes(g)) <= g.left /\ g.left + Cardinality(Fulls(g)) <= 2 * BPS
      BY <1>13 DEF Counts
    <2>11. Cardinality(Holes(v)) \in Nat
      BY <1>10, CountFacts, SegmentFacts
    <2>12. Cardinality(Holes(v)) <= v.left
      BY <1>6, <1>7, <2>4, <2>6, <2>9, <2>10, <2>11
    <2>13. v.left + Cardinality(Fulls(v)) <= 2 * BPS
      BY <1>6, <1>7, <2>4, <2>5, <2>9, <2>10, Constants
    <2> QED
      BY <2>12, <2>13 DEF Counts
  <1>14. PieOf(f) = 0 /\ PieOf(t) = 0 /\ Exact(g) => Exact(v)
    BY <1>2, <1>9 DEF Exact, Left
  <1> QED
    BY <1>2, <1>9, <1>10, <1>11, <1>13, <1>14 DEF v, D, SegLeft
\* How many of the pieces of a block are before a position of the resource.
Earlier(s, b, x) == IF s < SegOf(x) THEN PPB ELSE IF s = SegOf(x) THEN Before(b, OffOf(x)) ELSE 0

\* The pieces of a block of a segment that lie before a place.
LEMMA EarlierFacts ==
  ASSUME NEW s \in Segs, NEW b \in Blocks, NEW x \in 0 .. Max, NEW y \in 0 .. Max
  PROVE  /\ Earlier(s, b, x) \in 0 .. PPB
         /\ x <= y => Earlier(s, b, x) <= Earlier(s, b, y)
  <1>1. /\ SegOf(x) \in 0 .. SegCount /\ OffOf(x) \in 0 .. SegPos - 1
        /\ SegOf(y) \in 0 .. SegCount /\ OffOf(y) \in 0 .. SegPos - 1
        /\ PPB \in Nat \ {0} /\ SegCount \in Nat
    BY EndFacts, Constants
  <1>2. /\ Before(b, OffOf(x)) \in 0 .. PPB /\ Before(b, OffOf(y)) \in 0 .. PPB
        /\ OffOf(x) <= OffOf(y) => Before(b, OffOf(x)) <= Before(b, OffOf(y))
    BY <1>1, BeforeFacts
  <1>3. Earlier(s, b, x) \in 0 .. PPB
    BY <1>1, <1>2 DEF Earlier, Segs
  <1>4. ASSUME x <= y PROVE Earlier(s, b, x) <= Earlier(s, b, y)
    <2>1. SegOf(x) < SegOf(y) \/ (SegOf(x) = SegOf(y) /\ OffOf(x) <= OffOf(y))
      BY <1>4, PlaceOrder
    <2> QED
      BY <1>1, <1>2, <2>1 DEF Earlier, Segs
  <1> QED
    BY <1>3, <1>4

\* The positions at which a block begins.
Aligned(x) == PieOf(OffOf(x)) = 0

\* A segment v is what is left of g when some of its pieces are gone.
Shrunk(v, g) ==
  /\ SegInv(v) /\ (v = NoSeg \/ (v.cnt = g.cnt /\ v.last = g.last))
  /\ \A b \in Blocks : v.blk[b].n \in {0, g.blk[b].n} /\ v.blk[b].has \subseteq g.blk[b].has
  /\ Counts(g) => Counts(v)

\* The counters of a segment have room for the pieces from x on.
Room(g, s, x) == \A b \in Blocks : g.blk[b].left <= MaxLeft + Earlier(s, b, x)

\* What becomes of a segment.
SegAfter(g, s, f, t) ==
  IF g.cnt = 0 THEN NoSeg
  ELSE IF s = SegOf(f) /\ SegOf(f) < SegOf(t) /\ OffOf(f) # 0 THEN Segment_release(g, OffOf(f), 0)
  ELSE IF SegOf(f) <= s /\ s < SegOf(t) THEN NoSeg
  ELSE IF s = SegOf(t) /\ OffOf(t) # 0
       THEN Segment_release(g, IF SegOf(f) = SegOf(t) THEN OffOf(f) ELSE 0, OffOf(t))
  ELSE g

\* ResourceData::release changes each segment by itself.
LEMMA ReleaseAfter ==
  ASSUME NEW sg, NEW f, NEW t, NEW s \in Segs
  PROVE  release(sg, f, t)[s] = SegAfter(sg[s], s, f, t)
  BY DEF release, SegAfter

\* A release keeps the invariant of a segment, leaves room for the next one, and keeps
\* the counters of blocks exact when it begins and ends at a block.
LEMMA SegmentShrunk ==
  ASSUME CountersFit, NEW g, SegInv(g), NEW s \in Segs, NEW f \in 0 .. Max, NEW t \in 0 .. Max, f < t,
         Room(g, s, f)
  PROVE  /\ Shrunk(SegAfter(g, s, f, t), g) /\ Room(SegAfter(g, s, f, t), s, t)
         /\ Aligned(f) /\ Aligned(t) /\ Exact(g) => Exact(SegAfter(g, s, f, t))
  <1> DEFINE v == SegAfter(g, s, f, t)
             sf == SegOf(f)
             st == SegOf(t)
             of == OffOf(f)
             ot == OffOf(t)
  <1>1. /\ sf \in 0 .. SegCount /\ of \in 0 .. SegPos - 1 /\ st \in 0 .. SegCount /\ ot \in 0 .. SegPos - 1
        /\ PPB \in Nat \ {0} /\ SegCount \in Nat /\ MaxLeft \in Nat /\ SegPos \in Nat \ {0}
    BY EndFacts, Constants
  <1>2. f <= t /\ ~(t <= f)
    BY Constants
  <1>3. sf < st \/ (sf = st /\ of <= ot)
    BY <1>2, PlaceOrder
  <1>4. ~(st < sf \/ (st = sf /\ ot <= of))
    BY <1>2, PlaceOrder
  <1>5. PieOf(0) = 0 /\ \A b \in Blocks : Before(b, 0) = 0
    <2>1. PieOf(0) = 0
      BY <1>1 DEF PieOf
    <2>2. 0 \in 0 .. SegPos - 1
      BY <1>1
    <2> QED
      BY <2>1, <2>2, BeforeFacts
  <1>6. ASSUME NEW b \in Blocks
        PROVE  /\ Earlier(s, b, f) \in 0 .. PPB /\ Earlier(s, b, t) \in 0 .. PPB /\ Earlier(s, b, f) <= Earlier(s, b, t)
               /\ g.blk[b].left <= MaxLeft + Earlier(s, b, f) /\ g.blk[b].left \in Nat
    <2>1. g.blk[b].left <= MaxLeft + Earlier(s, b, f) /\ g.blk[b].left \in Nat
      BY SegmentFacts DEF Room
    <2> QED
      BY <1>2, <2>1, EarlierFacts
  <1>7. CASE v = NoSeg
    <2>1. /\ SegInv(v) /\ Exact(v) /\ \A b \in Blocks : v.blk[b] = NoBlock
      BY <1>7, NoSegFacts
    <2>2. \A b \in Blocks : v.blk[b].n = 0 /\ v.blk[b].has = {} /\ v.blk[b].left = 0
      BY <2>1, NoBlockFacts
    <2>3. Room(v, s, t)
      BY <1>1, <1>6, <2>2 DEF Room
    <2>4. Counts(v)
      <3>1. v.cnt = 0 /\ v.left = 0
        BY <1>7 DEF NoSeg
      <3>2. Holes(v) = {} /\ Fulls(v) = {}
        BY <2>2, <3>1 DEF Holes, Fulls, FullBlock
      <3>3. Cardinality(Holes(v)) = 0 /\ Cardinality(Fulls(v)) = 0
        BY <3>2, FS_EmptySet
      <3> QED
        BY <3>1, <3>3, Constants DEF Counts
    <2>5. Shrunk(v, g)
      BY <1>7, <2>1, <2>2, <2>4 DEF Shrunk
    <2> QED
      BY <2>1, <2>3, <2>5
  <1>8. ASSUME NEW x, NEW y, v = Segment_release(g, x, y), g.cnt # 0, Bounds(x, y),
               \A b \in Blocks : Earlier(s, b, f) <= Before(b, x), \A b \in Blocks : Till(b, y) <= Earlier(s, b, t),
               Aligned(f) /\ Aligned(t) => PieOf(x) = 0 /\ PieOf(y) = 0
        PROVE  /\ Shrunk(v, g) /\ Room(v, s, t)
               /\ Aligned(f) /\ Aligned(t) /\ Exact(g) => Exact(v)
    <2>1. \A b \in Blocks : g.blk[b].left <= MaxLeft + Before(b, x)
      <3> TAKE b \in Blocks
      <3>1. Before(b, x) \in 0 .. PPB
        BY <1>8, BeforeFacts DEF Bounds
      <3> QED
        BY <1>1, <1>6, <1>8, <3>1
    <2>2. SegLeft(v, g, x, y)
      BY <1>8, <2>1, SegmentLeft
    <2> HIDE DEF v
    <2>3. SegInv(v)
      BY <2>2 DEF SegLeft
    <2>4. Shrunk(v, g)
      BY <2>2 DEF SegLeft, Shrunk
    <2>5. Room(v, s, t)
      <3> SUFFICES ASSUME NEW b \in Blocks PROVE v.blk[b].left <= MaxLeft + Earlier(s, b, t)
        BY DEF Room
      <3>1. v.blk[b].left \in Nat
        BY <2>3, SegmentFacts
      <3>2. Till(b, y) \in 0 .. PPB
        BY <1>8, BeforeFacts DEF Bounds
      <3>3. v.blk[b].left <= MaxLeft + Till(b, y)
        BY <2>2 DEF SegLeft
      <3> QED
        BY <1>1, <1>6, <1>8, <3>1, <3>2, <3>3
    <2>6. Aligned(f) /\ Aligned(t) /\ Exact(g) => Exact(v)
      BY <1>8, <2>2 DEF SegLeft
    <2> QED
      BY <2>4, <2>5, <2>6
  <1>9. CASE g.cnt # 0 /\ s = sf /\ sf < st /\ of # 0
    <2>1. v = Segment_release(g, of, 0)
      BY <1>9 DEF SegAfter
    <2>2. Bounds(of, 0)
      BY <1>1 DEF Bounds
    <2>3. \A b \in Blocks : Earlier(s, b, f) <= Before(b, of)
      <3> TAKE b \in Blocks
      <3>1. Earlier(s, b, f) = Before(b, of)
        BY <1>1, <1>9 DEF Earlier
      <3> QED
        BY <1>1, <1>6, <3>1
    <2>4. \A b \in Blocks : Till(b, 0) <= Earlier(s, b, t)
      BY <1>1, <1>9 DEF Till, Earlier
    <2>5. Aligned(f) => PieOf(of) = 0
      BY DEF Aligned
    <2> HIDE DEF v, of
    <2> QED
      BY <1>5, <1>8, <1>9, <2>1, <2>2, <2>3, <2>4, <2>5 DEF v
  <1>10. CASE /\ g.cnt # 0 /\ ~(s = sf /\ sf < st /\ of # 0) /\ ~(sf <= s /\ s < st)
              /\ s = st /\ ot # 0
    <2> DEFINE x == IF sf = st THEN of ELSE 0
    <2>1. v = Segment_release(g, x, ot)
      BY <1>10 DEF SegAfter
    <2>2. Bounds(x, ot)
      BY <1>1, <1>3, <1>4, <1>10 DEF Bounds
    <2>3. \A b \in Blocks : Earlier(s, b, f) <= Before(b, x)
      <3> TAKE b \in Blocks
      <3>1. Earlier(s, b, f) = Before(b, x)
        BY <1>1, <1>3, <1>5, <1>10 DEF Earlier
      <3> QED
        BY <1>1, <1>6, <3>1
    <2>4. \A b \in Blocks : Till(b, ot) <= Earlier(s, b, t)
      <3> TAKE b \in Blocks
      <3>1. Earlier(s, b, t) = Till(b, ot)
        BY <1>1, <1>10 DEF Earlier, Till
      <3> QED
        BY <1>1, <1>6, <3>1
    <2>5. Aligned(f) /\ Aligned(t) => PieOf(x) = 0 /\ PieOf(ot) = 0
      BY <1>5 DEF Aligned
    <2> HIDE DEF v, x, ot
    <2> QED
      BY <1>8, <1>10, <2>1, <2>2, <2>3, <2>4, <2>5 DEF v
  <1>11. CASE v = g
    <2>1. Room(v, s, t)
      <3> SUFFICES ASSUME NEW b \in Blocks PROVE g.blk[b].left <= MaxLeft + Earlier(s, b, t)
        BY <1>11 DEF Room
      <3> QED
        BY <1>1, <1>6
    <2>2. Shrunk(v, g)
      BY <1>11, NoSegFacts DEF Shrunk
    <2> QED
      BY <1>11, <2>1, <2>2
  <1>12. \/ v = NoSeg
         \/ g.cnt # 0 /\ s = sf /\ sf < st /\ of # 0
         \/ g.cnt # 0 /\ ~(s = sf /\ sf < st /\ of # 0) /\ ~(sf <= s /\ s < st) /\ s = st /\ ot # 0
         \/ v = g
    BY DEF SegAfter
  <1> QED
    BY <1>7, <1>9, <1>10, <1>11, <1>12
-----------------------------------------------------------------------------
(* What the operations do to a segment of the store *)

\* A segment of unknown size is made of two whole blocks.
Blank(g) == Even(g) /\ (g.cnt # 0 => g.cnt = 2 /\ g.last = PPB)

\* A segment s of size m (0: unknown) with room for the release of what is at x and after.
Tidy(g, s, m, x) == SegInv(g) /\ Room(g, s, x) /\ (m = 0 => Blank(g))

\* The counters are as good as they were.
NoWorse(v, g) == (Counts(g) => Counts(v)) /\ (Exact(g) => Exact(v))

\* Two segments with the same pieces.
SameHas(v, g) == \A b \in Blocks : v.blk[b].has = g.blk[b].has

\* A segment, made if it was NULL, as modify_segment does.
Sized(g, m) == IF g.cnt # 0 THEN g ELSE NewSegment(IF m # 0 THEN m ELSE 2 * PPB)

\* Every piece lies before Max.
LEMMA RoomAtTheEnd ==
  ASSUME NEW s \in Segs, NEW b \in Blocks
  PROVE  Earlier(s, b, Max) = PPB
  BY EndFacts, Constants DEF Earlier, Segs

\* The size of the block that modify_block returns.
LEMMA MadeSize ==
  ASSUME CountersFit, NEW g, SegInv(g), NEW b \in Blocks, b < g.cnt
  PROVE  modify_block(g, b).blk[b].n =
           IF g.blk[b].n # 0 THEN g.blk[b].n ELSE IF b < g.cnt - 1 THEN PPB ELSE g.last
  <1> DEFINE n == IF b < g.cnt - 1 THEN PPB ELSE g.last
             d == NewBlock(n)
  <1>1. CASE g.blk[b].n # 0
    BY <1>1 DEF modify_block
  <1>2. CASE g.blk[b].n = 0
    <2>1. g.cnt # 0 /\ g \in SegmentType /\ g.blk \in [Blocks -> BlockType]
      <3>1. b >= 0 /\ b \in Int /\ g.cnt \in Nat
        BY SegmentFacts, Constants DEF Blocks
      <3> QED
        BY <3>1, SegmentFacts DEF SegInv
    <2>2. n \in 1 .. PPB
      BY <2>1, Constants DEF SegInv
    <2> HIDE DEF n
    <2>3. d.n = n
      BY <2>2, NewBlockFacts
    <2>4. modify_block(g, b) = [g EXCEPT !.blk[b] = d]
      BY <1>2 DEF modify_block, n
    <2> HIDE DEF d
    <2>5. modify_block(g, b).blk[b] = d
      BY <2>1, <2>4 DEF SegmentType
    <2> QED
      BY <1>2, <2>3, <2>5 DEF n
  <1> QED
    BY <1>1, <1>2

\* modify_segment
LEMMA SegmentPrepared ==
  ASSUME CountersFit, NEW g, NEW s \in Segs, NEW m \in 0 .. SegPos, Tidy(g, s, m, Max)
  PROVE  /\ Tidy(Sized(g, m), s, m, Max) /\ Sized(g, m).cnt # 0
         /\ NoWorse(Sized(g, m), g) /\ SameHas(Sized(g, m), g)
         /\ \A b \in Blocks : Sized(g, m).blk[b] = g.blk[b]
  <1>1. CASE g.cnt # 0
    <2>1. Sized(g, m) = g
      BY <1>1 DEF Sized
    <2> QED
      BY <1>1, <2>1 DEF NoWorse, SameHas
  <1>2. CASE g.cnt = 0
    <2> DEFINE size == IF m # 0 THEN m ELSE 2 * PPB
               v == Segment_set_size(NoSeg, size)
               cnt == (size + PPB - 1) \div PPB
    <2>1. Sized(g, m) = v
      BY <1>2 DEF Sized, NewSegment
    <2>2. size \in 1 .. SegPos
      BY Constants
    <2>3. g = NoSeg /\ SegInv(NoSeg) /\ Exact(NoSeg) /\ Even(NoSeg)
          /\ \A b \in Blocks : NoSeg.blk[b] = NoBlock
      BY <1>2, NoSegFacts DEF Tidy, SegInv
    <2>4. cnt \in 1 .. BPS
      BY <2>2, Ceiling
    <2>5. v.cnt = cnt /\ v.last = size - (cnt - 1) * PPB
      BY DEF Segment_set_size
    <2>6. v.blk = NoSeg.blk
      <3>1. cnt - 1 \in Blocks
        BY <2>4, Constants DEF Blocks
      <3>2. NoSeg.blk[cnt - 1].n = 0
        BY <2>3, <3>1, NoBlockFacts
      <3> HIDE DEF cnt
      <3> QED
        BY <3>2 DEF Segment_set_size, cnt
    <2>7. m = 0 => cnt = 2 /\ v.last = PPB
      <3> SUFFICES ASSUME m = 0 PROVE cnt = 2 /\ v.last = PPB
        OBVIOUS
      <3>1. size = 2 * PPB /\ PPB \in Nat \ {0}
        BY Constants
      <3>2. size + PPB - 1 = 2 * PPB + (PPB - 1) /\ PPB - 1 \in 0 .. PPB - 1
        BY <3>1
      <3>3. cnt = 2
        BY <3>1, <3>2, Composed
      <3>4. (2 - 1) * PPB = PPB
        BY <3>1
      <3> HIDE DEF cnt
      <3> QED
        BY <2>5, <3>1, <3>3, <3>4
    <2> HIDE DEF v, size, cnt
    <2>8. SegInv(v) /\ v.cnt # 0 /\ Counts(v) /\ Exact(v)
      <3>1. \A b \in Blocks : NoSeg.blk[b].n = 0
        BY <2>3, NoBlockFacts
      <3> QED
        BY <2>2, <2>3, <3>1, SegmentSized DEF v
    <2>9. \A b \in Blocks : v.blk[b] = g.blk[b]
      BY <2>3, <2>6
    <2>10. Room(v, s, Max)
      BY <2>9 DEF Room, Tidy
    <2>11. m = 0 => Blank(v)
      BY <2>3, <2>5, <2>6, <2>7 DEF Blank, Even
    <2> QED
      BY <2>1, <2>8, <2>9, <2>10, <2>11 DEF Tidy, NoWorse, SameHas
  <1> QED
    BY <1>1, <1>2

\* What grows in place: a block is made, gets a piece or is read.
LEMMA OneBlockGrows ==
  ASSUME CountersFit, NEW g, NEW v, NEW s \in Segs, NEW m, NEW b \in Blocks, Tidy(g, s, m, Max),
         b < g.cnt, SegInv(v), v.cnt = g.cnt, v.last = g.last,
         \A c \in Blocks \ {b} : v.blk[c] = g.blk[c],
         v.blk[b].left <= PPB \/ v.blk[b].left <= g.blk[b].left,
         v.blk[b].n = modify_block(g, b).blk[b].n
  PROVE  Tidy(v, s, m, Max)
  <1>1. SegInv(g) /\ Room(g, s, Max)
    BY DEF Tidy
  <1>2. Room(v, s, Max)
    <2> SUFFICES ASSUME NEW c \in Blocks PROVE v.blk[c].left <= MaxLeft + Earlier(s, c, Max)
      BY DEF Room
    <2>1. Earlier(s, c, Max) = PPB /\ g.blk[c].left <= MaxLeft + PPB /\ MaxLeft \in Nat /\ PPB \in Nat
      BY <1>1, RoomAtTheEnd, Constants DEF Room
    <2>2. v.blk[c].left \in Nat /\ g.blk[c].left \in Nat
      BY <1>1, SegmentFacts
    <2> QED
      BY <2>1, <2>2
  <1>3. ASSUME m = 0 PROVE Blank(v)
    <2>1. Blank(g)
      BY <1>3 DEF Tidy
    <2>2. v.blk[b].n = (IF g.blk[b].n # 0 THEN g.blk[b].n ELSE IF b < g.cnt - 1 THEN PPB ELSE g.last)
      BY <1>1, MadeSize
    <2>3. g.cnt # 0
      BY <1>1, SegmentFacts, Constants DEF Blocks
    <2>4. v.blk[b].n \in {0, PPB}
      BY <2>1, <2>2, <2>3 DEF Blank, Even
    <2> QED
      BY <2>1, <2>4 DEF Blank, Even
  <1> QED
    BY <1>2, <1>3 DEF Tidy

\* A block is made, and a block is read.
LEMMA BlockOfPlace ==
  ASSUME CountersFit, NEW g, NEW s \in Segs, NEW m, NEW b \in Blocks, Tidy(g, s, m, Max), b < g.cnt
  PROVE  /\ Tidy(modify_block(g, b), s, m, Max)
         /\ NoWorse(modify_block(g, b), g) /\ SameHas(modify_block(g, b), g)
         /\ modify_block(g, b).cnt = g.cnt
         /\ Tidy(Segment_map_block(g, b), s, m, Max)
         /\ BlockAdded(Segment_map_block(g, b), g, b, modify_block(g, b).blk[b].n)
  <1> DEFINE h == modify_block(g, b)
             v == Segment_map_block(g, b)
  <1>1. SegInv(g)
    BY DEF Tidy
  <1>2. Made(h, g, b)
    BY <1>1, BlockMade
  <1>3. BlockAdded(v, g, b, h.blk[b].n)
    BY <1>1, MapSet
  <1> HIDE DEF v
  <1>4. NoWorse(h, g) /\ SameHas(h, g)
    BY <1>2, MadeCounts DEF NoWorse, SameHas
  <1>5. Tidy(h, s, m, Max)
    <2> HIDE DEF h
    <2>1. g.blk[b].left \in Nat
      BY <1>1, SegmentFacts
    <2>2. h.blk[b].left <= PPB \/ h.blk[b].left <= g.blk[b].left
      BY <1>2, <2>1 DEF Made
    <2> QED
      BY <1>2, <2>2, OneBlockGrows DEF Made, h
  <1>6. Tidy(v, s, m, Max)
    <2> HIDE DEF h
    <2>1. g.blk[b].left \in Nat
      BY <1>1, SegmentFacts
    <2>2. v.blk[b].left <= PPB \/ v.blk[b].left <= g.blk[b].left
      BY <1>3, <2>1 DEF BlockAdded
    <2> QED
      BY <1>3, <2>2, OneBlockGrows DEF BlockAdded, h
  <1>7. h.cnt = g.cnt
    BY <1>2 DEF Made
  <1> QED
    BY <1>3, <1>4, <1>5, <1>6, <1>7 DEF v

\* A piece comes.
LEMMA PieceOfPlace ==
  ASSUME CountersFit, NEW g, NEW s \in Segs, NEW m, NEW o \in 0 .. SegPos - 1, Tidy(g, s, m, Max),
         BlkOf(o) < g.cnt, PieOf(o) < modify_block(g, BlkOf(o)).blk[BlkOf(o)].n,
         PieOf(o) \notin g.blk[BlkOf(o)].has
  PROVE  /\ Tidy(Segment_set_piece(g, o), s, m, Max)
         /\ PieceAdded(Segment_set_piece(g, o), g, BlkOf(o), PieOf(o))
         /\ NoWorse(Segment_set_piece(g, o), g)
  <1> DEFINE b == BlkOf(o)
             v == Segment_set_piece(g, o)
  <1>1. SegInv(g) /\ b \in Blocks
    BY OffsetFacts DEF Tidy
  <1>2. PieceAdded(v, g, b, PieOf(o))
    BY <1>1, PieceSet
  <1> HIDE DEF v, b
  <1>3. v.blk[b].left <= PPB \/ v.blk[b].left <= g.blk[b].left
    <2>1. g.blk[b].left \in Nat /\ v.blk[b].left \in Nat
      BY <1>1, <1>2, SegmentFacts DEF PieceAdded
    <2> QED
      BY <1>2, <2>1 DEF PieceAdded
  <1>4. b < g.cnt
    BY DEF b
  <1>5. Tidy(v, s, m, Max)
    BY <1>1, <1>2, <1>3, <1>4, OneBlockGrows DEF PieceAdded
  <1> QED
    BY <1>2, <1>5 DEF v, b, PieceAdded, NoWorse

\* The size of a segment comes late.
LEMMA SizeOfPlace ==
  ASSUME CountersFit, NEW g, NEW s \in Segs, Tidy(g, s, 0, Max), NEW size \in 1 .. SegPos
  PROVE  /\ Tidy(Segment_set_size(g, size), s, size, Max) /\ Counts(Segment_set_size(g, size))
         /\ Exact(g) => Exact(Segment_set_size(g, size))
         /\ SameHas(Segment_set_size(g, size), g) /\ Segment_set_size(g, size).cnt # 0
  <1> DEFINE v == Segment_set_size(g, size)
  <1>1. SegInv(g) /\ Even(g) /\ Room(g, s, Max)
    BY DEF Tidy, Blank
  <1>2. /\ SegInv(v) /\ v.cnt # 0
        /\ \A b \in Blocks : /\ v.blk[b].has = g.blk[b].has
                             /\ v.blk[b] = g.blk[b] \/ v.blk[b].left <= PPB
        /\ Counts(v) /\ (Exact(g) => Exact(v))
    BY <1>1, SegmentSized
  <1> HIDE DEF v
  <1>3. Room(v, s, Max)
    <2> SUFFICES ASSUME NEW c \in Blocks PROVE v.blk[c].left <= MaxLeft + Earlier(s, c, Max)
      BY DEF Room
    <2>1. Earlier(s, c, Max) = PPB /\ g.blk[c].left <= MaxLeft + PPB /\ MaxLeft \in Nat /\ PPB \in Nat
      BY <1>1, RoomAtTheEnd, Constants DEF Room
    <2>2. v.blk[c].left \in Nat /\ g.blk[c].left \in Nat
      BY <1>1, <1>2, SegmentFacts
    <2> QED
      BY <1>2, <2>1, <2>2
  <1> QED
    BY <1>2, <1>3 DEF v, Tidy, SameHas
-----------------------------------------------------------------------------
(* What the searches find *)

\* Block::seek finds the first missing piece from a piece on.
LEMMA BlockSeekFacts ==
  ASSUME NEW b, b.n \in Nat, NEW p \in Nat
  PROVE  /\ Block_seek(b, p) \in Nat /\ p <= Block_seek(b, p)
         /\ Block_seek(b, p) >= b.n \/ Block_seek(b, p) \notin b.has
         /\ \A i \in p .. Block_seek(b, p) - 1 : i < b.n /\ i \in b.has
  <1> DEFINE e == IF p > b.n THEN p ELSE b.n
             T == {i \in p .. e : i >= b.n \/ i \notin b.has}
             q == Least(T)
  <1>1. e \in Nat /\ p <= e /\ b.n <= e
    OBVIOUS
  <1>2. q = Block_seek(b, p)
    BY DEF Block_seek
  <1> HIDE DEF e
  <1>3. T \subseteq Nat /\ e \in T
    BY <1>1
  <1>4. q \in T /\ \A y \in T : q <= y
    BY <1>3, LeastFacts
  <1> HIDE DEF q
  <1>5. q \in p .. e /\ (q >= b.n \/ q \notin b.has)
    BY <1>4
  <1>6. ASSUME NEW i \in p .. q - 1 PROVE i < b.n /\ i \in b.has
    <2>1. i \in p .. e /\ ~(q <= i)
      BY <1>1, <1>5
    <2>2. i \notin T
      BY <1>4, <2>1
    <2> QED
      BY <1>1, <2>1, <2>2
  <1> QED
    BY <1>1, <1>2, <1>5, <1>6

\* The place of an offset exists in the segment.
Placed(g, y) == BlkOf(y) < g.cnt /\ PieOf(y) < modify_block(g, BlkOf(y)).blk[BlkOf(y)].n

\* The piece of an offset is in memory.
There(g, y) == PieOf(y) \in g.blk[BlkOf(y)].has

\* The first block behind b that is not full, see Segment::seek.
NextHole(g, b) ==
  Least({k \in 0 .. g.cnt : (k > b \/ b >= g.cnt) /\ (k >= g.cnt \/ ~FullBlock(g, k))})

\* NextHole skips full blocks only.
LEMMA NextHoleFacts ==
  ASSUME NEW g, SegInv(g), NEW b \in Blocks
  PROVE  /\ NextHole(g, b) \in 0 .. g.cnt
         /\ NextHole(g, b) >= g.cnt \/ ~FullBlock(g, NextHole(g, b))
         /\ \A k \in Blocks : k > b /\ k < NextHole(g, b) => FullBlock(g, k)
  <1> DEFINE T == {k \in 0 .. g.cnt : (k > b \/ b >= g.cnt) /\ (k >= g.cnt \/ ~FullBlock(g, k))}
             next == Least(T)
  <1>1. g.cnt \in Nat /\ b \in Nat /\ Blocks \subseteq Nat
    BY SegmentFacts, Constants DEF Blocks
  <1>2. T \subseteq Nat /\ g.cnt \in T
    BY <1>1
  <1>3. next \in T /\ \A y \in T : next <= y
    BY <1>2, LeastFacts
  <1>4. next = NextHole(g, b)
    BY DEF NextHole
  <1> HIDE DEF next
  <1>5. next \in 0 .. g.cnt /\ (next >= g.cnt \/ ~FullBlock(g, next))
    BY <1>3
  <1>6. ASSUME NEW k \in Blocks, k > b, k < next PROVE FullBlock(g, k)
    <2>1. k \in 0 .. g.cnt /\ ~(next <= k)
      BY <1>1, <1>5, <1>6
    <2>2. k \notin T
      BY <1>3, <2>1
    <2> QED
      BY <1>6, <2>1, <2>2
  <1> QED
    BY <1>4, <1>5, <1>6

\* The search in a segment stops at a piece that is missing, when the counters are exact,
\* and it passes no place whose piece is missing, when full blocks are whole.
Sought(k, g, o) ==
  /\ k.done \in BOOLEAN
  /\ ~k.done => k.at \in 0 .. SegPos - 1
  /\ ~k.done /\ Exact(g) => ~There(g, k.at)
  /\ \A y \in 0 .. SegPos - 1 :
       o <= y /\ (k.done \/ y < k.at) /\ Placed(g, y) => There(g, y)

\* Segment::seek finds the first missing place from an offset on.
LEMMA SegmentSought ==
  ASSUME NEW g, SegInv(g), g.cnt # 0, NEW o \in 0 .. SegPos - 1
  PROVE  Sought(Segment_seek(g, o), g, o)
  <1> DEFINE b == BlkOf(o)
             k == Segment_seek(g, o)
             p == Block_seek(g.blk[b], PieOf(o))
             next == NextHole(g, b)
             q == Block_seek(g.blk[next], 0)
             r == IF q < g.blk[next].n THEN q ELSE 0
  <1>1. k = IF b < g.cnt /\ g.blk[b].n = 0 THEN [done |-> FALSE, at |-> o]
            ELSE IF b < g.cnt /\ p < g.blk[b].n THEN [done |-> FALSE, at |-> b * PPB + p]
            ELSE IF next >= g.cnt THEN [done |-> TRUE, at |-> 0]
            ELSE [done |-> FALSE, at |-> next * PPB + r]
    BY DEF Segment_seek, NextHole
  <1>2. /\ b \in Blocks /\ PieOf(o) \in 0 .. PPB - 1 /\ PPB \in Nat \ {0} /\ BPS \in Nat /\ SegPos \in Nat
        /\ g.cnt \in 0 .. BPS /\ Blocks \subseteq Nat
    BY OffsetFacts, SegmentFacts, Constants DEF Blocks
  <1>3. \A c \in Blocks : /\ g.blk[c].n \in 0 .. PPB /\ BlockInv(g.blk[c])
                          /\ g.blk[c].n \in Nat /\ g.blk[c].n <= PPB
    <2> TAKE c \in Blocks
    <2>1. g.blk[c].n \in 0 .. PPB /\ BlockInv(g.blk[c])
      BY SegmentFacts DEF SegInv
    <2> QED
      BY <1>2, <2>1
  <1>4. ASSUME NEW y \in 0 .. SegPos - 1
        PROVE  /\ BlkOf(y) \in Blocks /\ PieOf(y) \in 0 .. PPB - 1
               /\ PieOf(y) \in Nat /\ BlkOf(y) \in Nat
               /\ o <= y <=> b < BlkOf(y) \/ (b = BlkOf(y) /\ PieOf(o) <= PieOf(y))
    <2>1. BlkOf(y) \in Blocks /\ PieOf(y) \in 0 .. PPB - 1
      BY OffsetFacts
    <2>2. PieOf(y) \in Nat
      <3>1. PPB \in Nat
        BY Constants
      <3> QED
        BY <2>1, <3>1
    <2>3. BlkOf(y) \in Nat
      BY <1>2, <2>1
    <2> QED
      BY <2>1, <2>2, <2>3, OffsetOrder
  <1>5. ASSUME NEW y \in 0 .. SegPos - 1, Placed(g, y), g.blk[BlkOf(y)].n # 0
        PROVE  PieOf(y) \in 0 .. g.blk[BlkOf(y)].n - 1
    <2>1. modify_block(g, BlkOf(y)) = g
      BY <1>5 DEF modify_block
    <2>2. PieOf(y) < g.blk[BlkOf(y)].n
      BY <1>5, <2>1 DEF Placed
    <2> QED
      BY <1>2, <1>3, <1>4, <2>2
  <1>6. ASSUME NEW y \in 0 .. SegPos - 1, Placed(g, y), FullBlock(g, BlkOf(y))
        PROVE  There(g, y)
    <2>1. g.blk[BlkOf(y)].n # 0 /\ Block_full(g.blk[BlkOf(y)])
      BY <1>6 DEF FullBlock
    <2>2. Whole(g.blk[BlkOf(y)])
      BY <1>3, <1>4, <2>1, FullIsWhole
    <2> QED
      BY <1>5, <1>6, <2>1, <2>2 DEF Whole, There
  <1>7. PieOf(o) \in Nat /\ PPB \in Nat
    BY <1>4, Constants
  <1>8. g.blk[b].n \in Nat /\ g.blk[b].n <= PPB
    BY <1>2, <1>3
  <1>9. CASE b < g.cnt /\ g.blk[b].n = 0
    <2>1. k.done = FALSE /\ k.at = o
      BY <1>1, <1>9
    <2>2. g.blk[b].has = {}
      BY <1>2, <1>3, <1>9, NoBlockFacts DEF BlockInv
    <2> HIDE DEF k
    <2>3. \A y \in 0 .. SegPos - 1 : ~(o <= y /\ y < o)
      BY <1>2
    <2> QED
      BY <2>1, <2>2, <2>3 DEF Sought, There, k
  <1>10. CASE b < g.cnt /\ g.blk[b].n # 0 /\ p < g.blk[b].n
    <2>1. k.done = FALSE /\ k.at = b * PPB + p
      BY <1>1, <1>10
    <2>2. /\ p \in Nat /\ PieOf(o) <= p
          /\ p >= g.blk[b].n \/ p \notin g.blk[b].has
          /\ \A i \in PieOf(o) .. p - 1 : i < g.blk[b].n /\ i \in g.blk[b].has
      BY <1>7, <1>8, BlockSeekFacts
    <2> HIDE DEF k, p
    <2>3. p \in 0 .. PPB - 1 /\ p \notin g.blk[b].has
      BY <1>10, <1>7, <1>8, <2>2
    <2>4. k.at \in 0 .. SegPos - 1 /\ BlkOf(k.at) = b /\ PieOf(k.at) = p
      BY <1>2, <2>1, <2>3, OffsetComposed
    <2>5. ASSUME NEW y \in 0 .. SegPos - 1, o <= y, y < k.at, Placed(g, y) PROVE There(g, y)
      <3>1. b < BlkOf(y) \/ (b = BlkOf(y) /\ PieOf(o) <= PieOf(y))
        BY <1>4, <2>5
      <3>2. ~(k.at <= y)
        BY <1>2, <2>4, <2>5
      <3>3. ~(BlkOf(k.at) < BlkOf(y) \/ (BlkOf(k.at) = BlkOf(y) /\ PieOf(k.at) <= PieOf(y)))
        BY <2>4, <3>2, OffsetOrder
      <3>4. b = BlkOf(y) /\ PieOf(y) \in PieOf(o) .. p - 1
        BY <1>2, <1>4, <2>2, <2>4, <3>1, <3>3
      <3> QED
        BY <2>2, <3>4 DEF There
    <2> QED
      BY <2>1, <2>3, <2>4, <2>5 DEF Sought, There, k
  <1>11. CASE ~(b < g.cnt /\ g.blk[b].n = 0) /\ ~(b < g.cnt /\ p < g.blk[b].n)
    <2>1. /\ next \in 0 .. g.cnt /\ (next >= g.cnt \/ ~FullBlock(g, next))
          /\ \A c \in Blocks : c > b /\ c < next => FullBlock(g, c)
      BY <1>2, NextHoleFacts
    <2>2. ASSUME NEW y \in 0 .. SegPos - 1, o <= y, BlkOf(y) < next \/ next >= g.cnt, Placed(g, y)
          PROVE  There(g, y)
      <3>1. b < BlkOf(y) \/ (b = BlkOf(y) /\ PieOf(o) <= PieOf(y))
        BY <1>4, <2>2
      <3>2. BlkOf(y) < g.cnt
        BY <2>2 DEF Placed
      <3>3. CASE b < BlkOf(y)
        <4>1. BlkOf(y) < next
          BY <1>2, <1>4, <2>1, <2>2, <3>2
        <4> QED
          BY <1>4, <1>6, <2>1, <2>2, <3>3, <4>1
      <3>4. CASE b = BlkOf(y) /\ PieOf(o) <= PieOf(y)
        <4>1. g.blk[b].n # 0 /\ ~(p < g.blk[b].n)
          BY <1>11, <3>2, <3>4
        <4>2. PieOf(y) \in 0 .. g.blk[b].n - 1
          BY <1>5, <2>2, <3>4, <4>1
        <4>3. p \in Nat /\ \A i \in PieOf(o) .. p - 1 : i < g.blk[b].n /\ i \in g.blk[b].has
          BY <1>7, <1>8, BlockSeekFacts
        <4> HIDE DEF p
        <4>4. PieOf(y) \in PieOf(o) .. p - 1
          <5>1. PieOf(y) \in Nat /\ PieOf(y) < g.blk[b].n
            BY <1>8, <4>2
          <5>2. p >= g.blk[b].n
            BY <1>8, <4>1, <4>3
          <5> QED
            BY <1>7, <1>8, <3>4, <4>3, <5>1, <5>2
        <4> QED
          BY <3>4, <4>3, <4>4 DEF There
      <3> QED
        BY <3>1, <3>3, <3>4
    <2>3. CASE next >= g.cnt
      <3>1. k.done = TRUE
        BY <1>1, <1>11, <2>3
      <3> HIDE DEF k
      <3> QED
        BY <2>2, <2>3, <3>1 DEF Sought, k
    <2>4. CASE ~(next >= g.cnt)
      <3>1. k.done = FALSE /\ k.at = next * PPB + r
        BY <1>1, <1>11, <2>4
      <3>2. next \in Blocks /\ next < g.cnt
        BY <1>2, <2>1, <2>4 DEF Blocks
      <3>3. g.blk[next].n \in 0 .. PPB /\ BlockInv(g.blk[next])
        BY <1>3, <3>2
      <3>4. /\ q \in Nat /\ 0 <= q /\ (q >= g.blk[next].n \/ q \notin g.blk[next].has)
            /\ \A i \in 0 .. q - 1 : i < g.blk[next].n /\ i \in g.blk[next].has
        <4>1. g.blk[next].n \in Nat /\ 0 \in Nat
          BY <3>3, Constants
        <4> QED
          BY <4>1, BlockSeekFacts
      <3> HIDE DEF k, q, next
      <3>5. r \in 0 .. PPB - 1 /\ (r = q \/ r = 0)
        BY <1>2, <3>3, <3>4
      <3>6. k.at \in 0 .. SegPos - 1 /\ BlkOf(k.at) = next /\ PieOf(k.at) = r
        <4> HIDE DEF r
        <4> QED
          BY <3>1, <3>2, <3>5, OffsetComposed
      <3>7. ASSUME Exact(g) PROVE r \notin g.blk[next].has
        <4>1. BlockExact(g.blk[next])
          BY <3>2, <3>7 DEF Exact
        <4>2. CASE g.blk[next].n = 0
          BY <3>3, <4>2, NoBlockFacts DEF BlockInv
        <4>3. CASE g.blk[next].n # 0
          <5>1. ~Block_full(g.blk[next])
            BY <2>1, <3>2, <4>3, <2>4 DEF FullBlock
          <5>2. ~Whole(g.blk[next])
            BY <3>3, <4>1, <5>1, FullIsWhole
          <5>3. q < g.blk[next].n
            <6> SUFFICES ASSUME q >= g.blk[next].n PROVE FALSE
              BY <3>3, <3>4, <1>2
            <6>1. \A i \in 0 .. g.blk[next].n - 1 : i \in 0 .. q - 1
              BY <3>3, <3>4, <1>2
            <6> QED
              BY <3>4, <5>2, <6>1 DEF Whole
          <5> QED
            BY <3>3, <3>4, <5>3, <1>2
        <4> QED
          BY <4>2, <4>3
      <3>8. ASSUME NEW y \in 0 .. SegPos - 1, o <= y, y < k.at, Placed(g, y) PROVE There(g, y)
        <4>1. ~(k.at <= y)
          BY <1>2, <3>6, <3>8
        <4>2. ~(next < BlkOf(y) \/ (next = BlkOf(y) /\ r <= PieOf(y)))
          BY <3>6, <4>1, OffsetOrder
        <4>3. CASE BlkOf(y) < next
          BY <2>2, <3>8, <4>3
        <4>4. CASE BlkOf(y) = next /\ PieOf(y) < r
          <5>1. PieOf(y) \in 0 .. q - 1
            BY <1>2, <1>4, <3>4, <3>5, <4>4
          <5> QED
            BY <3>4, <4>4, <5>1 DEF There
        <4> QED
          BY <1>2, <1>4, <3>2, <3>5, <4>2, <4>3, <4>4
      <3> QED
        BY <3>1, <3>6, <3>7, <3>8 DEF Sought, There, k
    <2> QED
      BY <2>3, <2>4
  <1> QED
    BY <1>9, <1>10, <1>11
\* Every place of a full block has its piece.
LEMMA BlockIsThere ==
  ASSUME NEW g, SegInv(g), NEW y \in 0 .. SegPos - 1, Placed(g, y), FullBlock(g, BlkOf(y))
  PROVE  There(g, y)
  <1> DEFINE c == g.blk[BlkOf(y)]
  <1>1. c.n # 0 /\ Block_full(c) /\ modify_block(g, BlkOf(y)) = g
    BY DEF FullBlock, modify_block
  <1>2. PieOf(y) < c.n
    BY <1>1 DEF Placed
  <1>3. BlkOf(y) \in Blocks /\ PieOf(y) \in 0 .. PPB - 1 /\ PPB \in Nat
    BY OffsetFacts, Constants
  <1>4. BlockInv(c) /\ c.n \in 0 .. PPB
    BY <1>3, SegmentFacts DEF SegInv
  <1>5. Whole(c)
    BY <1>1, <1>4, FullIsWhole
  <1>6. PieOf(y) \in 0 .. c.n - 1
    <2>1. PieOf(y) \in Nat /\ c.n \in Nat
      BY <1>3, <1>4
    <2> HIDE DEF c
    <2> QED
      BY <1>2, <2>1
  <1> QED
    BY <1>5, <1>6 DEF Whole, There

\* What a full segment has room for is there.
LEMMA SegmentIsThere ==
  ASSUME NEW g, SegInv(g), Counts(g), Segment_full(g), NEW y \in 0 .. SegPos - 1, Placed(g, y)
  PROVE  There(g, y)
  <1>1. IsFiniteSet(Holes(g)) /\ Cardinality(Holes(g)) \in Nat
    BY CountFacts, SegmentFacts
  <1>2. Cardinality(Holes(g)) = 0
    BY <1>1 DEF Counts, Segment_full
  <1>3. Holes(g) = {}
    BY <1>1, <1>2, FS_EmptySet
  <1>4. BlkOf(y) \in 0 .. g.cnt - 1
    <2>1. BlkOf(y) \in Nat /\ g.cnt \in Nat
      BY OffsetFacts, SegmentFacts, Constants DEF Blocks
    <2> QED
      BY <2>1 DEF Placed
  <1> QED
    BY <1>3, <1>4, BlockIsThere DEF Holes

\* The piece of a position is in the segments sg.
HasPiece(sg, x) == sg[SegOf(x)].cnt # 0 /\ There(sg[SegOf(x)], OffOf(x))

\* What priv_seek finds: a place at which a piece is missing, with nothing missing before it.
SoughtFrom(at, id, sg, mt) ==
  /\ at \in 0 .. Max
  /\ (at # Max /\ mt[SegOf(at)] # 0 /\ ~saved[SegOf(at)] /\ Exact(sg[SegOf(at)])) => ~HasPiece(sg, at)
  /\ (\A s \in Segs : Counts(sg[s])) =>
       \A x \in Ids : id <= x /\ x < at /\ SegOf(x) < end /\ ~saved[SegOf(x)] =>
         sg[SegOf(x)].cnt # 0 /\ (Placed(sg[SegOf(x)], OffOf(x)) => There(sg[SegOf(x)], OffOf(x)))

\* priv_seek does find such a place, by induction on the segments it goes through.
LEMMA PlaceSought ==
  ASSUME end \in 0 .. SegCount, NEW id \in 0 .. Max, NEW sg, NEW mt, \A s \in Segs : SegInv(sg[s])
  PROVE  SoughtFrom(priv_seek(id, sg, mt), id, sg, mt)
  <1> DEFINE o(s) == IF s = SegOf(id) THEN OffOf(id) ELSE 0
             Passed(s) == /\ s < end
                          /\ mt[s] # 0
                          /\ \/ saved[s]
                             \/ sg[s].cnt # 0 /\ (Segment_full(sg[s]) \/ Segment_seek(sg[s], o(s)).done)
             T == {s \in SegOf(id) .. SegCount : s >= end \/ ~Passed(s)}
             next == Least(T)
             k == Segment_seek(sg[next], o(next))
             r == IF mt[next] # 0 /\ sg[next].cnt # 0 THEN k.at ELSE o(next)
             at == priv_seek(id, sg, mt)
  <1>1. at = IF next >= end THEN Max ELSE next * SegPos + r
    BY DEF priv_seek
  <1>2. /\ SegOf(id) \in 0 .. SegCount /\ OffOf(id) \in 0 .. SegPos - 1 /\ SegCount \in Nat \ {0}
        /\ SegPos \in Nat \ {0} /\ Max \in Nat
    BY EndFacts, Constants
  <1>3. T \subseteq Nat /\ SegCount \in T
    BY <1>2
  <1>4. next \in T /\ \A s \in T : next <= s
    BY <1>3, LeastFacts
  <1>5. next \in SegOf(id) .. SegCount /\ (next >= end \/ ~Passed(next))
    BY <1>4
  <1>6. ASSUME NEW s \in SegOf(id) .. SegCount, s < next PROVE s < end /\ Passed(s)
    <2> HIDE DEF next
    <2>1. next \in Nat /\ s \in Nat
      BY <1>2, <1>5
    <2>2. ~(next <= s)
      BY <1>6, <2>1
    <2> HIDE DEF T
    <2>3. s \notin T
      BY <1>4, <2>2
    <2> QED
      BY <1>2, <1>6, <2>3 DEF T
  <1>7. \A s : o(s) \in 0 .. SegPos - 1
    BY <1>2
  <1>8. \A s \in Segs : sg[s].cnt # 0 => Sought(Segment_seek(sg[s], o(s)), sg[s], o(s))
    BY <1>7, SegmentSought
  <1>9. ASSUME NEW x \in Ids, id <= x
        PROVE  /\ SegOf(x) \in Segs /\ OffOf(x) \in 0 .. SegPos - 1
               /\ SegOf(x) \in SegOf(id) .. SegCount /\ o(SegOf(x)) <= OffOf(x)
    <2>1. SegOf(x) \in Segs /\ OffOf(x) \in 0 .. SegPos - 1
      BY PlaceFacts
    <2>2. x \in 0 .. Max
      BY <1>2 DEF Ids
    <2>3. SegOf(id) < SegOf(x) \/ (SegOf(id) = SegOf(x) /\ OffOf(id) <= OffOf(x))
      BY <1>9, <2>2, PlaceOrder
    <2> QED
      BY <1>2, <2>1, <2>3 DEF Segs
  <1> HIDE DEF at, next, o
  <1>10. CASE next >= end
    <2>1. at = Max
      BY <1>1, <1>10
    <2>2. at \in 0 .. Max
      BY <1>2, <2>1
    <2>3. ASSUME \A s \in Segs : Counts(sg[s]), NEW x \in Ids, id <= x, x < at, SegOf(x) < end, ~saved[SegOf(x)]
          PROVE  /\ sg[SegOf(x)].cnt # 0
                 /\ Placed(sg[SegOf(x)], OffOf(x)) => There(sg[SegOf(x)], OffOf(x))
      <3>1. SegOf(x) < next
        BY <1>2, <1>5, <1>9, <1>10, <2>3
      <3>2. Passed(SegOf(x))
        BY <1>6, <1>9, <2>3, <3>1
      <3>3. /\ sg[SegOf(x)].cnt # 0
            /\ Segment_full(sg[SegOf(x)]) \/ Segment_seek(sg[SegOf(x)], o(SegOf(x))).done
        BY <2>3, <3>2
      <3>4. CASE Segment_full(sg[SegOf(x)])
        BY <1>9, <2>3, <3>3, <3>4, SegmentIsThere
      <3>5. CASE Segment_seek(sg[SegOf(x)], o(SegOf(x))).done
        BY <1>8, <1>9, <2>3, <3>3, <3>5 DEF Sought
      <3> QED
        BY <3>3, <3>4, <3>5
    <2> QED
      BY <2>1, <2>2, <2>3 DEF SoughtFrom, at
  <1>11. CASE ~(next >= end)
    <2>1. next \in Segs /\ next < end /\ next \in Nat /\ ~Passed(next)
      BY <1>2, <1>5, <1>11 DEF Segs
    <2>2. mt[next] # 0 /\ sg[next].cnt # 0 => ~saved[next] /\ ~k.done /\ ~Segment_full(sg[next])
      BY <2>1
    <2>3. sg[next].cnt # 0 => Sought(k, sg[next], o(next))
      BY <1>8, <2>1
    <2> HIDE DEF k
    <2>4. r \in 0 .. SegPos - 1
      BY <1>7, <2>2, <2>3 DEF Sought
    <2>5. at = next * SegPos + r
      BY <1>1, <1>11
    <2>6. at \in Ids /\ SegOf(at) = next /\ OffOf(at) = r
      <3> HIDE DEF r
      <3> QED
        BY <2>1, <2>4, <2>5, PlaceComposed
    <2>7. at \in 0 .. Max /\ at # Max
      BY <1>2, <2>6 DEF Ids
    <2>8. ASSUME mt[next] # 0, ~saved[next], Exact(sg[next]) PROVE ~HasPiece(sg, at)
      <3>1. CASE sg[next].cnt = 0
        BY <2>6, <3>1 DEF HasPiece
      <3>2. CASE sg[next].cnt # 0
        <4>1. r = k.at /\ ~There(sg[next], k.at)
          BY <2>2, <2>3, <2>8, <3>2 DEF Sought
        <4> QED
          BY <2>6, <4>1 DEF HasPiece
      <3> QED
        BY <3>1, <3>2
    <2>9. ASSUME \A s \in Segs : Counts(sg[s]), NEW x \in Ids, id <= x, x < at, SegOf(x) < end, ~saved[SegOf(x)]
          PROVE  /\ sg[SegOf(x)].cnt # 0
                 /\ Placed(sg[SegOf(x)], OffOf(x)) => There(sg[SegOf(x)], OffOf(x))
      <3>1. SegOf(x) < next \/ (SegOf(x) = next /\ OffOf(x) < r)
        <4>1. x \in 0 .. Max /\ x \in Nat /\ at \in Nat
          BY <1>2, <2>7 DEF Ids
        <4>2. ~(at <= x)
          BY <2>9, <4>1
        <4>3. ~(next < SegOf(x) \/ (next = SegOf(x) /\ r <= OffOf(x)))
          BY <2>6, <2>7, <4>1, <4>2, PlaceOrder
        <4>4. SegOf(x) \in Nat /\ OffOf(x) \in Nat /\ r \in Nat
          <5>1. SegOf(x) \in Segs /\ OffOf(x) \in 0 .. SegPos - 1
            BY <1>9, <2>9
          <5> HIDE DEF r
          <5> QED
            BY <1>2, <2>4, <5>1 DEF Segs
        <4> HIDE DEF r
        <4> QED
          BY <2>1, <4>3, <4>4
      <3>2. CASE SegOf(x) < next
        <4>2. Passed(SegOf(x))
          BY <1>6, <1>9, <2>9, <3>2
        <4>3. /\ sg[SegOf(x)].cnt # 0
              /\ Segment_full(sg[SegOf(x)]) \/ Segment_seek(sg[SegOf(x)], o(SegOf(x))).done
          BY <2>9, <4>2
        <4>4. CASE Segment_full(sg[SegOf(x)])
          BY <1>9, <2>9, <4>3, <4>4, SegmentIsThere
        <4>5. CASE Segment_seek(sg[SegOf(x)], o(SegOf(x))).done
          BY <1>8, <1>9, <2>9, <4>3, <4>5 DEF Sought
        <4> QED
          BY <4>3, <4>4, <4>5
      <3>3. CASE SegOf(x) = next /\ OffOf(x) < r
        <4>1. o(next) <= OffOf(x) /\ OffOf(x) \in 0 .. SegPos - 1
          BY <1>9, <2>9, <3>3
        <4>2. r # o(next)
          BY <1>2, <1>7, <3>3, <4>1
        <4>3. r = k.at /\ sg[next].cnt # 0
          BY <4>2
        <4>4. Sought(k, sg[next], o(next))
          BY <2>3, <4>3
        <4> QED
          BY <3>3, <4>1, <4>3, <4>4 DEF Sought
      <3> QED
        BY <3>1, <3>2, <3>3
    <2> QED
      BY <2>6, <2>7, <2>8, <2>9 DEF SoughtFrom, at
  <1> QED
    BY <1>10, <1>11
-----------------------------------------------------------------------------
(* The invariant *)

\* Where what is still to be released begins.
Mark(w) == IF w.on THEN w.from ELSE Max

\* ReadyIsAHole for a position r, where bh says whether set_segment_meta left it there.
AtHole(r, bh, mt, sv, sg) ==
  r # Max /\ ~bh /\ mt[SegOf(r)] # 0 /\ ~sv[SegOf(r)] => ~HasPiece(sg, r)

\* The part of the invariant about the tree of pieces, data_ready included.
StoreInv ==
  /\ end \in 0 .. SegCount /\ meta \in [Segs -> 0 .. SegPos] /\ saved \in [Segs -> BOOLEAN]
  /\ seg \in [Segs -> SegmentType] /\ ready \in 0 .. Max /\ behind \in BOOLEAN
  /\ meta_ready = Cardinality({s \in Segs : meta[s] # 0})
  /\ \A s \in Segs : Tidy(seg[s], s, meta[s], Mark(walk))
  /\ end = 0 => \A s \in Segs : seg[s] = NoSeg /\ meta[s] = 0

\* Types of the locks and of the walk.
LockInv ==
  /\ held \subseteq Lock /\ range \in [Lock -> Locks!Ranges] /\ walk \in Locks!Walk
  /\ walk.on => walk.from < walk.to

\* Nothing is ever mapped: the counters of the segments can be relied on.
LiveInv == ~DiskCache => \A s \in Segs : ~saved[s] /\ Counts(seg[s])

\* The holders of locks lock whole blocks.
WholeBlocks == \A r \in LockRange : Aligned(r.from) /\ Aligned(r.to)

\* Moreover only whole blocks are released: those of the blocks can be relied on.
ExactInv ==
  ~DiskCache /\ WholeBlocks =>
    /\ \A l \in Lock : Aligned(range[l].from) /\ Aligned(range[l].to)
    /\ Aligned(walk.from) /\ Aligned(walk.to)
    /\ \A s \in Segs : Exact(seg[s])
    /\ AtHole(ready, behind, meta, saved, seg)

\* The inductive invariant.
IInv == StoreInv /\ LockInv /\ LiveInv /\ ExactInv

\* The constants of RangeLock under their names here.
LEMMA LockTypes ==
  /\ Locks!Pos = 0 .. Max
  /\ Locks!Ranges = {r \in [from : 0 .. Max, to : 0 .. Max] : r.from <= r.to}
  /\ Locks!Walk = [on : BOOLEAN, from : 0 .. Max, to : 0 .. Max, todo : SUBSET Lock]
  /\ Locks!NoRange = [from |-> 0, to |-> 0] /\ Locks!NoRange \in Locks!Ranges
  /\ Locks!Idle = [on |-> FALSE, from |-> 0, to |-> 0, todo |-> {}] /\ Locks!Idle \in Locks!Walk
  <1>1. 0 \in 0 .. Max
    BY Constants
  <1> QED
    BY <1>1 DEF Locks!Pos, Locks!Ranges, Locks!Walk, Locks!NoRange, Locks!Idle

\* The first place is the beginning of a block.
LEMMA TheBeginning ==
  Aligned(0)
  BY Constants DEF Aligned, OffOf, PieOf

\* Two places in the same segment, block and piece are the same.
LEMMA PlaceUnique ==
  ASSUME NEW x \in Ids, NEW y \in Ids, SegOf(x) = SegOf(y),
         BlkOf(OffOf(x)) = BlkOf(OffOf(y)), PieOf(OffOf(x)) = PieOf(OffOf(y))
  PROVE  x = y
  <1>1. x \in 0 .. Max /\ y \in 0 .. Max /\ x \in Nat /\ y \in Nat
    BY Constants DEF Ids
  <1>2. OffOf(x) \in 0 .. SegPos - 1 /\ OffOf(y) \in 0 .. SegPos - 1 /\ SegPos \in Nat
        /\ PieOf(OffOf(x)) \in 0 .. PPB - 1 /\ PPB \in Nat
    BY PlaceFacts, Constants
  <1>3. OffOf(x) <= OffOf(y) /\ OffOf(y) <= OffOf(x)
    BY <1>2, OffsetOrder
  <1>4. x <= y /\ y <= x
    BY <1>1, <1>3, PlaceOrder
  <1> QED
    BY <1>1, <1>4

\* A walk that has come further leaves more room in the counters.
LEMMA RoomGrows ==
  ASSUME NEW g, SegInv(g), NEW s \in Segs, NEW x \in 0 .. Max, NEW y \in 0 .. Max, x <= y, Room(g, s, x)
  PROVE  Room(g, s, y)
  <1> SUFFICES ASSUME NEW b \in Blocks PROVE g.blk[b].left <= MaxLeft + Earlier(s, b, y)
    BY DEF Room
  <1>1. Earlier(s, b, x) \in 0 .. PPB /\ Earlier(s, b, y) \in 0 .. PPB /\ Earlier(s, b, x) <= Earlier(s, b, y)
    BY EarlierFacts
  <1>2. g.blk[b].left \in Nat /\ g.blk[b].left <= MaxLeft + Earlier(s, b, x) /\ MaxLeft \in Nat /\ PPB \in Nat
    BY SegmentFacts, Constants DEF Room
  <1> QED
    BY <1>1, <1>2

\* Counters that are small leave room wherever a walk starts.
LEMMA RoomWhenSmall ==
  ASSUME CountersSmall, NEW s \in Segs, SegInv(seg[s]), NEW x \in 0 .. Max
  PROVE  Room(seg[s], s, x)
  <1> SUFFICES ASSUME NEW b \in Blocks PROVE seg[s].blk[b].left <= MaxLeft + Earlier(s, b, x)
    BY DEF Room
  <1>1. Earlier(s, b, x) \in 0 .. PPB
    BY EarlierFacts
  <1>2. seg[s].blk[b].left \in Nat /\ seg[s].blk[b].left <= MaxLeft /\ MaxLeft \in Nat /\ PPB \in Nat
    BY SegmentFacts, Constants DEF CountersSmall
  <1> QED
    BY <1>1, <1>2

\* A piece in a segment that is not there.
LEMMA NothingInNoSeg ==
  ASSUME NEW g, SegInv(g), g.cnt = 0
  PROVE  \A y \in 0 .. SegPos - 1 : ~There(g, y)
  <1>1. \A b \in Blocks : g.blk[b].has = {}
    BY NoSegFacts, NoBlockFacts DEF SegInv
  <1> QED
    BY <1>1, OffsetFacts DEF There

\* The invariant holds at the start.
LEMMA InitInv ==
  ASSUME Init
  PROVE  IInv
  <1>1. 0 \in 0 .. SegCount /\ 0 \in 0 .. SegPos /\ 0 \in 0 .. Max /\ MaxLeft \in Nat /\ PPB \in Nat
    BY Constants
  <1>2. SegInv(NoSeg) /\ Exact(NoSeg) /\ Even(NoSeg) /\ NoSeg.cnt = 0 /\ NoSeg \in SegmentType
        /\ \A b \in Blocks : NoSeg.blk[b] = NoBlock
    BY NoSegFacts DEF SegInv
  <1>3. \A s \in Segs : Tidy(NoSeg, s, 0, Max)
    <2> TAKE s \in Segs
    <2>1. Room(NoSeg, s, Max)
      BY <1>1, <1>2, RoomAtTheEnd, NoBlockFacts DEF Room
    <2> QED
      BY <1>2, <2>1 DEF Tidy, Blank
  <1>4. walk = Locks!Idle /\ walk.on = FALSE /\ walk.from = 0 /\ walk.to = 0 /\ Mark(walk) = Max
    BY LockTypes DEF Init, Mark
  <1>5. StoreInv
    <2>1. {s \in Segs : meta[s] # 0} = {}
      BY DEF Init
    <2>2. meta_ready = Cardinality({s \in Segs : meta[s] # 0})
      BY <2>1, FS_EmptySet DEF Init
    <2>3. \A s \in Segs : Tidy(seg[s], s, meta[s], Mark(walk))
      BY <1>3, <1>4 DEF Init
    <2>4. end = 0 /\ \A s \in Segs : seg[s] = NoSeg /\ meta[s] = 0
      BY DEF Init
    <2>5. meta \in [Segs -> 0 .. SegPos] /\ saved \in [Segs -> BOOLEAN] /\ seg \in [Segs -> SegmentType]
          /\ ready \in 0 .. Max /\ behind \in BOOLEAN
      BY <1>1, <1>2, Constants DEF Init
    <2> QED
      BY <1>1, <2>2, <2>3, <2>4, <2>5 DEF StoreInv
  <1>6. LockInv
    BY <1>4, LockTypes DEF Init, LockInv
  <1>7. LiveInv
    <2>1. Holes(NoSeg) = {} /\ Fulls(NoSeg) = {}
      BY <1>1, <1>2, NoBlockFacts DEF Holes, Fulls, FullBlock
    <2>2. Counts(NoSeg)
      BY <2>1, FS_EmptySet, Constants DEF Counts, NoSeg
    <2> QED
      BY <2>2 DEF Init, LiveInv
  <1>8. ExactInv
    <2>1. \A l \in Lock : range[l].from = 0 /\ range[l].to = 0
      BY LockTypes DEF Init
    <2>2. AtHole(ready, behind, meta, saved, seg)
      <3>1. SegOf(ready) \in Segs
        BY Constants, <1>1, PlaceFacts DEF Init, Ids
      <3> QED
        BY <3>1 DEF Init, AtHole
    <2> QED
      BY <1>2, <1>4, <2>1, <2>2, TheBeginning DEF Init, ExactInv
  <1> QED
    BY <1>5, <1>6, <1>7, <1>8 DEF IInv
\* One segment changes, and the position data_ready.id with it.
LEMMA OneSegment ==
  ASSUME IInv, ~walk.on, NEW s \in Segs, NEW v, end # 0,
         Tidy(v, s, meta[s], Max), seg' = [seg EXCEPT ![s] = v],
         ready' \in 0 .. Max, behind' \in BOOLEAN, UNCHANGED <<end, meta, saved, meta_ready, lockVars>>,
         ~DiskCache => NoWorse(v, seg[s]),
         ~DiskCache /\ WholeBlocks => AtHole(ready', behind', meta, saved, [seg EXCEPT ![s] = v])
  PROVE  IInv'
  <1>1. /\ end' = end /\ meta' = meta /\ saved' = saved /\ meta_ready' = meta_ready
        /\ held' = held /\ range' = range /\ walk' = walk
    BY DEF lockVars
  <1>2. Mark(walk) = Max
    BY DEF Mark
  <1>3. StoreInv /\ LockInv /\ LiveInv /\ ExactInv
    BY DEF IInv
  <1>4. v \in SegmentType /\ seg \in [Segs -> SegmentType]
    BY <1>3 DEF Tidy, SegInv, StoreInv
  <1>5. seg' \in [Segs -> SegmentType] /\ seg'[s] = v /\ \A c \in Segs \ {s} : seg'[c] = seg[c]
    BY <1>4
  <1>6. StoreInv'
    <2>1. \A c \in Segs : Tidy(seg'[c], c, meta[c], Max)
      BY <1>2, <1>3, <1>5 DEF StoreInv
    <2> QED
      BY <1>1, <1>2, <1>3, <1>5, <2>1 DEF StoreInv
  <1>7. LockInv'
    BY <1>1, <1>3 DEF LockInv
  <1>8. LiveInv'
    BY <1>1, <1>3, <1>5 DEF LiveInv, NoWorse
  <1>9. ExactInv'
    <2> SUFFICES ASSUME ~DiskCache, WholeBlocks
                 PROVE  /\ \A l \in Lock : Aligned(range[l].from) /\ Aligned(range[l].to)
                        /\ Aligned(walk.from) /\ Aligned(walk.to)
                        /\ \A c \in Segs : Exact(seg'[c])
                        /\ AtHole(ready', behind', meta, saved, seg')
      BY <1>1 DEF ExactInv
    <2>1. \A c \in Segs : Exact(seg'[c])
      BY <1>3, <1>5 DEF ExactInv, NoWorse
    <2> QED
      BY <1>3, <2>1 DEF ExactInv
  <1> QED
    BY <1>6, <1>7, <1>8, <1>9 DEF IInv

\* The position stays where it is, and no piece comes there.
LEMMA HoleStays ==
  ASSUME NEW r \in 0 .. Max, NEW bh, NEW mt, NEW sv, NEW sg, NEW tg, AtHole(r, bh, mt, sv, sg),
         r # Max => (HasPiece(tg, r) => HasPiece(sg, r))
  PROVE  AtHole(r, bh, mt, sv, tg)
  BY DEF AtHole

\* Facts of every segment.
LEMMA TidySegments ==
  ASSUME IInv, ~walk.on, NEW s \in Segs
  PROVE  Tidy(seg[s], s, meta[s], Max) /\ meta[s] \in 0 .. SegPos /\ SegInv(seg[s])
  BY DEF IInv, StoreInv, Mark, Tidy

\* modify_segment makes a segment of the known size, or of two blocks when none is known.
LEMMA PreparedSegment ==
  ASSUME CountersFit, IInv, ~walk.on, NEW s \in Segs
  PROVE  /\ modify_segment(s) = Sized(seg[s], meta[s])
         /\ Tidy(modify_segment(s), s, meta[s], Max) /\ modify_segment(s).cnt # 0
         /\ NoWorse(modify_segment(s), seg[s]) /\ SameHas(modify_segment(s), seg[s])
         /\ SegInv(modify_segment(s))
  <1>1. modify_segment(s) = Sized(seg[s], meta[s])
    BY DEF modify_segment, Sized
  <1> QED
    BY <1>1, TidySegments, SegmentPrepared DEF Tidy

\* A segment with the same pieces.
LEMMA SamePieces ==
  ASSUME NEW sg, NEW s \in Segs, sg \in [Segs -> SegmentType], SegInv(sg[s]), NEW v, SameHas(v, sg[s])
  PROVE  \A x \in Ids : HasPiece([sg EXCEPT ![s] = v], x) => HasPiece(sg, x)
  <1> SUFFICES ASSUME NEW x \in Ids, HasPiece([sg EXCEPT ![s] = v], x) PROVE HasPiece(sg, x)
    OBVIOUS
  <1> DEFINE c == SegOf(x)
             y == OffOf(x)
             tg == [sg EXCEPT ![s] = v]
  <1>1. c \in Segs /\ y \in 0 .. SegPos - 1 /\ BlkOf(y) \in Blocks
    BY PlaceFacts
  <1>2. tg[c] = IF c = s THEN v ELSE sg[c]
    BY <1>1
  <1>3. HasPiece(tg, x)
    OBVIOUS
  <1> HIDE DEF tg
  <1>4. There(sg[c], y)
    BY <1>1, <1>2, <1>3 DEF HasPiece, There, SameHas
  <1>5. sg[c].cnt # 0
    <2>1. CASE c = s
      BY <1>1, <1>4, <2>1, NothingInNoSeg
    <2>2. CASE c # s
      BY <1>2, <1>3, <2>2 DEF HasPiece
    <2> QED
      BY <2>1, <2>2
  <1> QED
    BY <1>4, <1>5 DEF HasPiece

\* What HasPlace says of the segment as it is prepared.
LEMMA PlaceThere ==
  ASSUME NEW id \in Ids, HasPlace(id), IInv
  PROVE  /\ SegOf(id) \in Segs /\ SegOf(id) < end /\ end # 0
         /\ OffOf(id) \in 0 .. SegPos - 1 /\ BlkOf(OffOf(id)) \in Blocks
         /\ BlkOf(OffOf(id)) < modify_segment(SegOf(id)).cnt
         /\ Placed(modify_segment(SegOf(id)), OffOf(id))
  <1>1. SegOf(id) \in Segs /\ OffOf(id) \in 0 .. SegPos - 1 /\ BlkOf(OffOf(id)) \in Blocks
    BY PlaceFacts
  <1>2. /\ SegOf(id) < end /\ BlkOf(OffOf(id)) < modify_segment(SegOf(id)).cnt
        /\ Placed(modify_segment(SegOf(id)), OffOf(id))
    BY DEF HasPlace, Placed
  <1>3. end # 0
    BY <1>1, <1>2, Constants DEF Segs, IInv, StoreInv
  <1> QED
    BY <1>1, <1>2, <1>3

\* Making a segment keeps the invariant.
LEMMA PrepareInv ==
  ASSUME CountersFit, IInv, NEW s \in Segs, prepare_segment(s)
  PROVE  IInv'
  <1> DEFINE v == modify_segment(s)
  <1>1. /\ ~walk.on /\ s < end /\ seg' = [seg EXCEPT ![s] = v]
        /\ UNCHANGED <<end, meta, saved, ready, meta_ready, behind, lockVars>>
    BY DEF prepare_segment
  <1>2. end # 0 /\ ready \in 0 .. Max /\ ready' = ready /\ seg \in [Segs -> SegmentType]
        /\ behind' = behind /\ behind' \in BOOLEAN
    BY <1>1, Constants DEF Segs, IInv, StoreInv
  <1>3. Tidy(v, s, meta[s], Max) /\ NoWorse(v, seg[s]) /\ SameHas(v, seg[s]) /\ SegInv(seg[s])
    BY <1>1, PreparedSegment, TidySegments
  <1> HIDE DEF v
  <1>4. ASSUME ~DiskCache /\ WholeBlocks PROVE AtHole(ready', behind', meta, saved, [seg EXCEPT ![s] = v])
    <2>1. AtHole(ready, behind, meta, saved, seg)
      BY <1>4 DEF IInv, ExactInv
    <2>2. ready # Max => ready \in Ids
      BY <1>2, EndFacts
    <2>3. ready # Max => (HasPiece([seg EXCEPT ![s] = v], ready) => HasPiece(seg, ready))
      BY <1>2, <1>3, <2>2, SamePieces
    <2> QED
      BY <1>2, <2>1, <2>3, HoleStays
  <1> QED
    BY <1>1, <1>2, <1>3, <1>4, OneSegment

\* An iterator that maps the block it comes to keeps the invariant.
LEMMA IteratorInv ==
  ASSUME CountersFit, IInv, NEW id \in Ids, iterator_at(id)
  PROVE  IInv'
  <1> DEFINE s == SegOf(id)
             b == BlkOf(OffOf(id))
             m == modify_segment(s)
             g == modify_block(m, b)
             d == Segment_map_block(g, b)
  <1>1. /\ ~walk.on /\ HasPlace(id)
        /\ seg' = [seg EXCEPT ![s] = g] \/ (saved[s] /\ seg' = [seg EXCEPT ![s] = d])
        /\ UNCHANGED <<end, meta, saved, ready, meta_ready, behind, lockVars>>
    BY DEF iterator_at
  <1>2. s \in Segs /\ b \in Blocks /\ b < m.cnt /\ end # 0
    BY <1>1, PlaceThere
  <1>3. Tidy(m, s, meta[s], Max) /\ NoWorse(m, seg[s]) /\ SameHas(m, seg[s]) /\ SegInv(seg[s])
    BY <1>1, <1>2, PreparedSegment, TidySegments
  <1> HIDE DEF m, s, b
  <1>4. Tidy(g, s, meta[s], Max) /\ NoWorse(g, m) /\ SameHas(g, m) /\ g.cnt = m.cnt
    BY <1>2, <1>3, BlockOfPlace
  <1> HIDE DEF g
  <1>5. Tidy(d, s, meta[s], Max)
    BY <1>2, <1>4, BlockOfPlace
  <1> HIDE DEF d
  <1>6. ready \in 0 .. Max /\ ready' = ready /\ seg \in [Segs -> SegmentType]
        /\ behind' = behind /\ behind' \in BOOLEAN
    BY <1>1 DEF IInv, StoreInv
  <1>7. CASE seg' = [seg EXCEPT ![s] = g]
    <2>1. NoWorse(g, seg[s]) /\ SameHas(g, seg[s])
      BY <1>3, <1>4 DEF NoWorse, SameHas
    <2>2. ASSUME ~DiskCache /\ WholeBlocks PROVE AtHole(ready', behind', meta, saved, [seg EXCEPT ![s] = g])
      <3>1. AtHole(ready, behind, meta, saved, seg)
        BY <2>2 DEF IInv, ExactInv
      <3>2. ready # Max => ready \in Ids
        BY <1>6, EndFacts
      <3>3. ready # Max => (HasPiece([seg EXCEPT ![s] = g], ready) => HasPiece(seg, ready))
        BY <1>2, <1>3, <1>6, <2>1, <3>2, SamePieces
      <3> QED
        BY <1>6, <3>1, <3>3, HoleStays
    <2> QED
      BY <1>1, <1>2, <1>4, <1>6, <1>7, <2>1, <2>2, OneSegment
  <1>8. CASE saved[s] /\ seg' = [seg EXCEPT ![s] = d]
    <2>1. DiskCache
      BY <1>2, <1>8 DEF IInv, LiveInv
    <2> QED
      BY <1>1, <1>2, <1>5, <1>6, <1>8, <2>1, OneSegment
  <1> QED
    BY <1>1, <1>7, <1>8

\* Reading a piece, with the mapping it may cause, keeps the invariant.
LEMMA GetPieceInv ==
  ASSUME CountersFit, IInv, NEW id \in Ids, get_piece(id)
  PROVE  IInv'
  <1> DEFINE s == SegOf(id)
             b == BlkOf(OffOf(id))
             m == modify_segment(s)
             d == Segment_map_block(m, b)
  <1>1. /\ ~walk.on /\ HasPlace(id) /\ saved[s] /\ seg' = [seg EXCEPT ![s] = d]
        /\ UNCHANGED <<end, meta, saved, ready, meta_ready, behind, lockVars>>
    BY DEF get_piece
  <1>2. s \in Segs /\ b \in Blocks /\ b < m.cnt /\ end # 0
    BY <1>1, PlaceThere
  <1>3. Tidy(m, s, meta[s], Max)
    BY <1>1, <1>2, PreparedSegment
  <1> HIDE DEF m, s, b
  <1>4. Tidy(d, s, meta[s], Max)
    BY <1>2, <1>3, BlockOfPlace
  <1> HIDE DEF d
  <1>5. DiskCache /\ ready' \in 0 .. Max /\ behind' \in BOOLEAN
    BY <1>1, <1>2 DEF IInv, LiveInv, StoreInv
  <1> QED
    BY <1>1, <1>2, <1>4, <1>5, OneSegment
\* What a search finds is a hole, when the counters are exact.
LEMMA SoughtIsAHole ==
  ASSUME NEW at, NEW id, NEW sg, NEW mt, SoughtFrom(at, id, sg, mt),
         \A c \in Segs : Exact(sg[c]), NEW bh
  PROVE  AtHole(at, bh, mt, saved, sg)
  <1> SUFFICES ASSUME at # Max, mt[SegOf(at)] # 0, ~saved[SegOf(at)]
               PROVE  ~HasPiece(sg, at)
    BY DEF AtHole
  <1>1. at \in Ids
    BY EndFacts DEF SoughtFrom
  <1>2. SegOf(at) \in Segs
    BY <1>1, PlaceFacts
  <1> QED
    BY <1>2 DEF SoughtFrom

\* A seek keeps the invariant.
LEMMA SeekInv ==
  ASSUME IInv, NEW id \in Ids, seek(id)
  PROVE  IInv'
  <1> DEFINE at == priv_seek(id, seg, meta)
  <1>1. /\ ~walk.on /\ ready' = at /\ seg' = seg /\ held' = held /\ range' = range /\ walk' = walk
        /\ end' = end /\ meta' = meta /\ saved' = saved /\ meta_ready' = meta_ready /\ behind' = FALSE
    BY DEF seek, lockVars
  <1>2. StoreInv /\ LockInv /\ LiveInv /\ ExactInv
    BY DEF IInv
  <1>3. SoughtFrom(at, id, seg, meta)
    <2>1. id \in 0 .. Max
      BY Constants DEF Ids
    <2>2. end \in 0 .. SegCount /\ \A s \in Segs : SegInv(seg[s])
      BY <1>2 DEF StoreInv, Tidy
    <2> QED
      BY <2>1, <2>2, PlaceSought
  <1> HIDE DEF at
  <1>4. at \in 0 .. Max /\ Max \in 0 .. Max
    BY <1>3, Constants DEF SoughtFrom
  <1>5. StoreInv' /\ LockInv' /\ LiveInv'
    BY <1>1, <1>2, <1>4 DEF StoreInv, LockInv, LiveInv
  <1>6. ExactInv'
    <2>1. ASSUME ~DiskCache, WholeBlocks PROVE AtHole(at, FALSE, meta, saved, seg)
      BY <1>2, <1>3, <2>1, SoughtIsAHole DEF ExactInv
    <2> QED
      BY <1>1, <1>2, <2>1 DEF ExactInv
  <1> QED
    BY <1>5, <1>6 DEF IInv

\* The state after a piece of position id came: its segment is v, the others are as before.
Arrived(v, id) ==
  /\ SegOf(id) \in Segs /\ OffOf(id) \in 0 .. SegPos - 1 /\ end # 0
  /\ Tidy(v, SegOf(id), meta[SegOf(id)], Max)
  /\ PieceAdded(v, modify_segment(SegOf(id)), BlkOf(OffOf(id)), PieOf(OffOf(id)))
  /\ NoWorse(v, seg[SegOf(id)])

\* A piece that arrives keeps the invariant of its segment.
LEMMA PieceArrives ==
  ASSUME CountersFit, IInv, ~walk.on, NEW id \in Ids, HasPlace(id), id \notin InMemory
  PROVE  Arrived(Segment_set_piece(modify_segment(SegOf(id)), OffOf(id)), id)
  <1> DEFINE s == SegOf(id)
             o == OffOf(id)
             m == modify_segment(s)
             v == Segment_set_piece(m, o)
  <1>1. s \in Segs /\ o \in 0 .. SegPos - 1 /\ end # 0 /\ BlkOf(o) \in Blocks /\ BlkOf(o) < m.cnt /\ Placed(m, o)
    BY PlaceThere
  <1>2. Tidy(m, s, meta[s], Max) /\ NoWorse(m, seg[s]) /\ SameHas(m, seg[s]) /\ SegInv(seg[s])
    BY <1>1, PreparedSegment, TidySegments
  <1>3. PieOf(o) \notin m.blk[BlkOf(o)].has
    <2>1. ~(seg[s].cnt # 0 /\ PieOf(o) \in seg[s].blk[BlkOf(o)].has)
      BY DEF InMemory
    <2>2. seg[s].cnt = 0 => PieOf(o) \notin seg[s].blk[BlkOf(o)].has
      <3> HIDE DEF s, o
      <3> QED
        BY <1>1, <1>2, NothingInNoSeg DEF There
    <2>3. PieOf(o) \notin seg[s].blk[BlkOf(o)].has
      BY <2>1, <2>2
    <2> HIDE DEF m, s, o
    <2> QED
      BY <1>1, <1>2, <2>3 DEF SameHas
  <1> HIDE DEF m, s, o
  <1>4. /\ Tidy(v, s, meta[s], Max) /\ PieceAdded(v, m, BlkOf(o), PieOf(o)) /\ NoWorse(v, m)
    BY <1>1, <1>2, <1>3, PieceOfPlace DEF Placed
  <1> HIDE DEF v
  <1>5. NoWorse(v, seg[s])
    BY <1>2, <1>4 DEF NoWorse
  <1> QED
    BY <1>1, <1>4, <1>5 DEF Arrived, s, o, m, v

\* Where data_ready.id goes when the piece it waits for comes: past the pieces v of its
\* segment, then past those of the segments sg.
Passing(id, v, sg, k, at, to) ==
  /\ v = Segment_set_piece(modify_segment(SegOf(id)), OffOf(id))
  /\ sg = [seg EXCEPT ![SegOf(id)] = v]
  /\ k = Segment_seek(v, OffOf(id))
  /\ at = IF k.done THEN (SegOf(id) + 1) * SegPos ELSE SegOf(id) * SegPos + k.at
  /\ to = priv_seek(at, sg, meta)

\* Where data_ready.id goes when that piece was the one it stood at.
LEMMA PiecePasses ==
  ASSUME CountersFit, IInv, ~walk.on, NEW id \in Ids, NEW v, NEW sg, NEW k, NEW at, NEW to,
         Passing(id, v, sg, k, at, to), Arrived(v, id)
  PROVE  /\ sg[SegOf(id)] = v /\ (\A c \in Segs \ {SegOf(id)} : sg[c] = seg[c])
         /\ \A c \in Segs : SegInv(sg[c])
         /\ Sought(k, v, OffOf(id)) /\ at \in 0 .. Max /\ SoughtFrom(to, at, sg, meta)
  <1> DEFINE s == SegOf(id)
             o == OffOf(id)
             m == modify_segment(s)
  <1>1. s \in Segs /\ o \in 0 .. SegPos - 1 /\ s \in Nat /\ s < SegCount
    BY PlaceFacts, Constants DEF Segs
  <1>2. /\ sg = [seg EXCEPT ![s] = v] /\ k = Segment_seek(v, o) /\ to = priv_seek(at, sg, meta)
        /\ at = IF k.done THEN (s + 1) * SegPos ELSE s * SegPos + k.at
    BY DEF Passing
  <1>3. PieceAdded(v, m, BlkOf(o), PieOf(o)) /\ SegInv(v)
    BY DEF Arrived, Tidy
  <1>4. StoreInv /\ seg \in [Segs -> SegmentType]
    BY DEF IInv, StoreInv
  <1>5. /\ sg[s] = v /\ \A c \in Segs \ {s} : sg[c] = seg[c]
        /\ \A c \in Segs : SegInv(sg[c])
    <2> HIDE DEF s
    <2> QED
      BY <1>1, <1>2, <1>3, <1>4 DEF StoreInv, Tidy
  <1>6. v.cnt # 0
    <2>1. m.cnt # 0
      BY <1>1, PreparedSegment
    <2> QED
      BY <1>3, <2>1 DEF PieceAdded
  <1> HIDE DEF m, s, o
  <1>7. Sought(k, v, o)
    BY <1>1, <1>2, <1>3, <1>6, SegmentSought
  <1>8. at \in 0 .. Max
    <2>1. CASE k.done
      <3>1. at = (s + 1) * SegPos
        BY <1>2, <2>1
      <3>2. SegPos \in Nat /\ Max \in Nat /\ Max = SegPos * SegCount /\ SegCount \in Nat
        BY Constants
      <3>3. SegPos * (s + 1) <= SegPos * SegCount /\ SegPos * (s + 1) \in Nat
        <4>1. s + 1 \in Nat /\ s + 1 <= SegCount
          BY <1>1, <3>2
        <4> QED
          BY <3>2, <4>1, Products
      <3>4. (s + 1) * SegPos = SegPos * (s + 1)
        BY <1>1, <3>2
      <3> QED
        BY <3>1, <3>2, <3>3, <3>4
    <2>2. CASE ~k.done
      <3>1. at = s * SegPos + k.at /\ k.at \in 0 .. SegPos - 1
        BY <1>2, <1>7, <2>2 DEF Sought
      <3>2. at \in Ids
        BY <1>1, <3>1, PlaceComposed
      <3> QED
        BY <3>2, Constants DEF Ids
    <2> QED
      BY <2>1, <2>2
  <1>9. SoughtFrom(to, at, sg, meta)
    BY <1>2, <1>4, <1>5, <1>8, PlaceSought DEF StoreInv
  <1> QED
    BY <1>5, <1>7, <1>8, <1>9 DEF s, o

\* set_piece, data_ready included, keeps the invariant.
LEMMA SetPieceInv ==
  ASSUME CountersFit, IInv, NEW id \in Ids, set_piece(id)
  PROVE  IInv'
  <1> DEFINE s == SegOf(id)
             o == OffOf(id)
             m == modify_segment(s)
             v == Segment_set_piece(m, o)
             sg == [seg EXCEPT ![s] = v]
             k == Segment_seek(v, o)
             at == IF k.done THEN (s + 1) * SegPos ELSE s * SegPos + k.at
             to == priv_seek(at, sg, meta)
  <1>1. StoreInv /\ ExactInv /\ seg \in [Segs -> SegmentType]
    BY DEF IInv, StoreInv
  <1>2. s \in Segs /\ o \in 0 .. SegPos - 1 /\ BlkOf(o) \in Blocks
    BY PlaceFacts
  <1>3. /\ ~walk.on /\ HasPlace(id) /\ id \notin InMemory /\ seg' = sg
        /\ ready' = (IF id = ready /\ meta[s] # 0 THEN to ELSE ready)
        /\ behind' = (behind /\ ready' = ready)
        /\ UNCHANGED <<end, meta, saved, meta_ready, lockVars>>
    <2>1. sg[s] = v
      BY <1>1, <1>2
    <2> QED
      BY <2>1 DEF set_piece
  <1>4. Arrived(v, id)
    BY <1>3, PieceArrives
  <1>5. Passing(id, v, sg, k, at, to)
    BY DEF Passing
  <1> HIDE DEF v, m, k
  <1>6. /\ Tidy(v, s, meta[s], Max) /\ PieceAdded(v, m, BlkOf(o), PieOf(o)) /\ NoWorse(v, seg[s]) /\ end # 0 /\ SegInv(v)
    BY <1>4 DEF Arrived, m, Tidy
  <1>7. SameHas(m, seg[s]) /\ SegInv(seg[s])
    BY <1>3, <1>2, PreparedSegment, TidySegments DEF m
  <1> HIDE DEF sg, at, to
  <1>8. /\ sg[s] = v /\ (\A c \in Segs \ {s} : sg[c] = seg[c])
        /\ SoughtFrom(to, at, sg, meta)
    BY <1>3, <1>4, <1>5, PiecePasses
  <1>9. ready' \in 0 .. Max /\ behind' \in BOOLEAN
    <2>1. ready' \in 0 .. Max
      BY <1>3, <1>1, <1>8 DEF SoughtFrom, StoreInv
    <2>2. behind' \in BOOLEAN
      BY <1>3
    <2> QED
      BY <2>1, <2>2
  <1>10. ASSUME ~DiskCache /\ WholeBlocks PROVE AtHole(ready', behind', meta, saved, sg)
    <2>1. AtHole(ready, behind, meta, saved, seg) /\ \A c \in Segs : Exact(seg[c])
      BY <1>1, <1>10 DEF ExactInv
    <2>2. \A c \in Segs : Exact(sg[c])
      BY <1>2, <1>6, <1>8, <2>1 DEF NoWorse
    <2>3. CASE ready' = to
      BY <1>8, <2>2, <2>3, SoughtIsAHole
    <2>4. CASE ready' = ready /\ ready = id /\ meta[s] = 0
      BY <2>4 DEF AtHole
    <2>5. CASE ready' = ready /\ ready # id
      <3>1. ASSUME ready # Max, HasPiece(sg, ready) PROVE HasPiece(seg, ready)
        <4> DEFINE c == SegOf(ready)
                   y == OffOf(ready)
        <4>1. ready \in Ids
          BY <1>1, <3>1, EndFacts DEF StoreInv
        <4>2. c \in Segs /\ y \in 0 .. SegPos - 1 /\ BlkOf(y) \in Blocks
          BY <4>1, PlaceFacts
        <4>3. CASE c # s
          BY <1>8, <3>1, <4>2, <4>3 DEF HasPiece
        <4>4. CASE c = s
          <5>1. PieOf(y) \in v.blk[BlkOf(y)].has
            BY <1>8, <3>1, <4>4 DEF HasPiece, There
          <5>2. BlkOf(y) # BlkOf(o) \/ PieOf(y) # PieOf(o)
            BY <2>5, <4>1, <4>4, PlaceUnique
          <5>3. PieOf(y) \in m.blk[BlkOf(y)].has
            BY <1>6, <4>2, <5>1, <5>2 DEF PieceAdded
          <5>4. PieOf(y) \in seg[s].blk[BlkOf(y)].has
            BY <1>7, <4>2, <5>3 DEF SameHas
          <5>5. seg[s].cnt # 0
            BY <1>7, <4>2, <5>4, NothingInNoSeg DEF There
          <5> QED
            BY <4>4, <5>4, <5>5 DEF HasPiece, There
        <4> QED
          BY <4>3, <4>4
      <3>2. AtHole(ready, behind, meta, saved, sg)
        BY <1>1, <2>1, <3>1, HoleStays DEF StoreInv
      <3>3. ready' = ready /\ (behind' = behind)
        <4>1. behind \in BOOLEAN
          BY <1>1 DEF StoreInv
        <4> QED
          BY <1>3, <2>5, <4>1
      <3> QED
        BY <3>2, <3>3
    <2> QED
      BY <1>3, <2>3, <2>4, <2>5
  <1> QED
    <2>1. ~DiskCache /\ WholeBlocks => AtHole(ready', behind', meta, saved, [seg EXCEPT ![s] = v])
      BY <1>10 DEF sg
    <2>2. seg' = [seg EXCEPT ![s] = v]
      BY <1>3 DEF sg
    <2> HIDE DEF s
    <2> QED
      BY <1>3, <1>2, <1>6, <1>9, <2>1, <2>2, OneSegment
\* NoSeg is tidy whatever the size of the segment is.
LEMMA NoSegIsTidy ==
  ASSUME NEW s \in Segs, NEW m, Tidy(NoSeg, s, 0, Max)
  PROVE  Tidy(NoSeg, s, m, Max)
  BY DEF Tidy

\* A list of sizes keeps the invariant.
LEMMA SegmentsInv ==
  ASSUME IInv, NEW sizes \in Segments, set_segments(sizes)
  PROVE  IInv'
  <1>1. /\ ~walk.on /\ end = 0 /\ end' = SegCount /\ meta' = sizes
        /\ meta_ready' = Cardinality({s \in Segs : sizes[s] # 0})
        /\ saved' = saved /\ seg' = seg /\ ready' = ready /\ behind' = behind
        /\ held' = held /\ range' = range /\ walk' = walk
    BY DEF set_segments, lockVars
  <1>2. StoreInv /\ LockInv /\ LiveInv /\ ExactInv
    BY DEF IInv
  <1>3. sizes \in [Segs -> 0 .. SegPos] /\ SegCount \in 0 .. SegCount /\ SegCount # 0
    BY SizeAssumption, Constants
  <1>4. \A s \in Segs : seg[s] = NoSeg /\ meta[s] = 0
    BY <1>1, <1>2 DEF StoreInv
  <1>5. \A s \in Segs : Tidy(seg[s], s, sizes[s], Mark(walk))
    <2> TAKE s \in Segs
    <2>1. Mark(walk) = Max
      BY <1>1 DEF Mark
    <2>2. Tidy(seg[s], s, meta[s], Mark(walk))
      BY <1>2 DEF StoreInv
    <2> QED
      BY <1>4, <2>1, <2>2, NoSegIsTidy
  <1>7. StoreInv'
    BY <1>1, <1>2, <1>3, <1>5 DEF StoreInv
  <1>8. LockInv' /\ LiveInv'
    BY <1>1, <1>2 DEF LockInv, LiveInv
  <1>9. AtHole(ready, behind, sizes, saved, seg)
    <2> SUFFICES ASSUME ready # Max PROVE ~HasPiece(seg, ready)
      BY DEF AtHole
    <2>1. SegOf(ready) \in Segs
      BY <1>2, EndFacts, PlaceFacts DEF StoreInv
    <2> QED
      BY <1>4, <2>1, NoSegFacts DEF HasPiece
  <1>10. ExactInv'
    BY <1>1, <1>2, <1>9 DEF ExactInv
  <1> QED
    BY <1>7, <1>8, <1>10 DEF IInv

\* A number of segments keeps the invariant.
LEMMA MetaInv ==
  ASSUME IInv, NEW n \in 1 .. SegCount, set_meta(n)
  PROVE  IInv'
  <1>1. /\ end # 0 /\ end' = n /\ meta' = meta /\ meta_ready' = meta_ready
        /\ saved' = saved /\ seg' = seg /\ ready' = ready /\ behind' = behind
        /\ held' = held /\ range' = range /\ walk' = walk
    BY DEF set_meta, lockVars
  <1>2. StoreInv /\ LockInv /\ LiveInv /\ ExactInv
    BY DEF IInv
  <1>3. n \in 0 .. SegCount /\ n # 0
    BY Constants
  <1>4. StoreInv'
    BY <1>1, <1>2, <1>3 DEF StoreInv
  <1>5. LockInv' /\ LiveInv' /\ ExactInv'
    BY <1>1, <1>2 DEF LockInv, LiveInv, ExactInv
  <1> QED
    BY <1>4, <1>5 DEF IInv

\* Marking a segment as saved keeps the invariant.
LEMMA StatusInv ==
  ASSUME IInv, NEW s \in Segs, NEW v \in BOOLEAN, set_segment_status(s, v)
  PROVE  IInv'
  <1>1. /\ DiskCache /\ saved' = [saved EXCEPT ![s] = v] /\ end' = end /\ meta' = meta /\ meta_ready' = meta_ready
        /\ seg' = seg /\ ready' = ready /\ behind' = behind
        /\ held' = held /\ range' = range /\ walk' = walk
    BY DEF set_segment_status, lockVars
  <1>2. StoreInv /\ LockInv
    BY DEF IInv
  <1>3. saved' \in [Segs -> BOOLEAN]
    BY <1>1, <1>2 DEF StoreInv
  <1>4. StoreInv'
    BY <1>1, <1>2, <1>3 DEF StoreInv
  <1>5. LockInv' /\ LiveInv' /\ ExactInv'
    BY <1>1, <1>2 DEF LockInv, LiveInv, ExactInv
  <1> QED
    BY <1>4, <1>5 DEF IInv

\* A size that a source reports late keeps the invariant.
LEMMA SegmentMetaInv ==
  ASSUME CountersFit, IInv, NEW id \in Ids, NEW size \in LateSizes, set_segment_meta(id, size)
  PROVE  IInv'
  <1> DEFINE s == SegOf(id)
             v == IF seg[s].cnt = 0 THEN seg[s] ELSE Segment_set_size(seg[s], size)
             sg == [seg EXCEPT ![s] = v]
             mt == [meta EXCEPT ![s] = size]
             at == priv_seek(id, sg, mt)
             moves == id = ready /\ at # Max /\ OffOf(at) # 0
  <1>1. StoreInv /\ LockInv /\ LiveInv /\ ExactInv /\ seg \in [Segs -> SegmentType] /\ meta \in [Segs -> 0 .. SegPos]
    BY DEF IInv, StoreInv
  <1>2. s \in Segs
    BY PlaceFacts
  <1>3. sg = IF seg[s].cnt = 0 THEN seg ELSE [seg EXCEPT ![s] = Segment_set_size(@, size)]
    BY <1>1, <1>2
  <1>4. /\ ~walk.on /\ s < end /\ meta[s] = 0 /\ meta' = mt /\ seg' = sg
        /\ ready' = (IF moves THEN at ELSE ready)
        /\ behind' = (IF SegOf(ready) = s THEN ~moves /\ ready \in InMemory ELSE behind)
        /\ meta_ready' = meta_ready + 1 /\ end' = end /\ saved' = saved
        /\ held' = held /\ range' = range /\ walk' = walk
    <2>1. set_segment_meta(id, size)
      OBVIOUS
    <2> HIDE DEF s, v
    <2> QED
      BY <1>3, <2>1 DEF set_segment_meta, lockVars, s
  <1>5. end # 0 /\ Mark(walk) = Max /\ size \in 1 .. SegPos /\ size \in 0 .. SegPos /\ size # 0
    <2>1. s \in Nat
      BY <1>2, Constants DEF Segs
    <2>2. end # 0
      BY <1>1, <1>4, <2>1, Constants DEF StoreInv
    <2> QED
      BY <1>4, <2>2, SizeAssumption, Constants DEF Mark
  <1>6. Tidy(seg[s], s, 0, Max)
    BY <1>1, <1>2, <1>4, <1>5 DEF StoreInv
  <1>7. Tidy(v, s, size, Max) /\ SameHas(v, seg[s]) /\ NoWorse(v, seg[s])
    <2>1. CASE seg[s].cnt = 0
      <3>1. v = seg[s]
        BY <2>1
      <3> HIDE DEF v
      <3> QED
        BY <1>6, <3>1 DEF Tidy, SameHas, NoWorse
    <2>2. CASE seg[s].cnt # 0
      <3>1. v = Segment_set_size(seg[s], size)
        BY <2>2
      <3> HIDE DEF v, s
      <3> QED
        BY <1>2, <1>5, <1>6, <3>1, SizeOfPlace DEF NoWorse
    <2> QED
      BY <2>1, <2>2
  <1> HIDE DEF v
  <1>8. v \in SegmentType /\ SegInv(v) /\ SegInv(seg[s])
    BY <1>6, <1>7 DEF Tidy, SegInv
  <1>9. /\ sg \in [Segs -> SegmentType] /\ sg[s] = v /\ \A c \in Segs \ {s} : sg[c] = seg[c]
        /\ mt \in [Segs -> 0 .. SegPos] /\ mt[s] = size /\ \A c \in Segs \ {s} : mt[c] = meta[c]
    <2> HIDE DEF s
    <2> QED
      BY <1>1, <1>2, <1>5, <1>8
  <1>10. \A x \in Ids : HasPiece(sg, x) => HasPiece(seg, x)
    BY <1>1, <1>2, <1>7, <1>8, SamePieces
  <1> HIDE DEF sg, mt
  <1>11. \A c \in Segs : Tidy(sg[c], c, mt[c], Max) /\ SegInv(sg[c])
    BY <1>1, <1>2, <1>5, <1>7, <1>9 DEF StoreInv, Tidy
  <1>12. SoughtFrom(at, id, sg, mt)
    <2>1. id \in 0 .. Max
      BY Constants DEF Ids
    <2> QED
      BY <1>1, <1>11, <2>1, PlaceSought DEF StoreInv
  <1> HIDE DEF at
  <1>13. ready' \in 0 .. Max /\ behind' \in BOOLEAN
    <2> HIDE DEF moves
    <2>1. ready' \in 0 .. Max
      BY <1>1, <1>4, <1>12 DEF SoughtFrom, StoreInv
    <2>2. behind' \in BOOLEAN
      BY <1>1, <1>4 DEF StoreInv
    <2> QED
      BY <2>1, <2>2
  <1>14. meta_ready' = Cardinality({c \in Segs : mt[c] # 0})
    <2> DEFINE K == {c \in Segs : meta[c] # 0}
    <2>1. {c \in Segs : mt[c] # 0} = K \union {s} /\ s \notin K /\ K \subseteq Segs
      BY <1>2, <1>4, <1>5, <1>9
    <2>2. IsFiniteSet(Segs)
      <3>1. SegCount \in Nat /\ 0 <= SegCount
        BY Constants
      <3> QED
        BY <3>1, HowMany DEF Segs
    <2>3. IsFiniteSet(K)
      BY <2>1, <2>2, FS_Subset
    <2>4. meta_ready = Cardinality(K)
      BY <1>1 DEF StoreInv
    <2> HIDE DEF K, s
    <2>5. Cardinality(K \union {s}) = Cardinality(K) + 1
      BY <2>1, <2>3, FS_AddElement
    <2> QED
      BY <1>4, <2>1, <2>4, <2>5
  <1>15. StoreInv'
    <2>1. \A c \in Segs : Tidy(sg[c], c, mt[c], Mark(walk))
      BY <1>5, <1>11
    <2> HIDE DEF s
    <2> QED
      BY <1>1, <1>4, <1>5, <1>9, <1>13, <1>14, <2>1 DEF StoreInv
  <1>16. LockInv'
    BY <1>1, <1>4 DEF LockInv
  <1>17. LiveInv'
    <2>1. ~DiskCache => \A c \in Segs : Counts(sg[c])
      BY <1>1, <1>2, <1>7, <1>9 DEF LiveInv, NoWorse
    <2> QED
      BY <1>1, <1>4, <2>1 DEF LiveInv
  <1>18. ExactInv'
    <2> SUFFICES ASSUME ~DiskCache, WholeBlocks
                 PROVE  /\ \A l \in Lock : Aligned(range[l].from) /\ Aligned(range[l].to)
                        /\ Aligned(walk.from) /\ Aligned(walk.to)
                        /\ \A c \in Segs : Exact(sg[c])
                        /\ AtHole(ready', behind', mt, saved, sg)
      BY <1>4 DEF ExactInv
    <2>1. (\A c \in Segs : Exact(seg[c])) /\ AtHole(ready, behind, meta, saved, seg)
      BY <1>1 DEF ExactInv
    <2>2. \A c \in Segs : Exact(sg[c])
      BY <1>7, <1>9, <2>1 DEF NoWorse
    <2> HIDE DEF s
    <2>3. AtHole(ready', behind', mt, saved, sg)
      <3>1. CASE moves
        <4>1. AtHole(at, behind', mt, saved, sg)
          BY <1>12, <2>2, SoughtIsAHole
        <4> QED
          BY <1>4, <3>1, <4>1
      <3>2. CASE SegOf(ready) = s /\ ~moves
        <4> HIDE DEF moves
        <4>1. ready' = ready /\ (behind' <=> ready \in InMemory)
          BY <1>4, <3>2
        <4>2. ASSUME ready # Max, ready \notin InMemory PROVE ~HasPiece(sg, ready)
          <5>1. ready \in Ids
            BY <1>1, <4>2, EndFacts DEF StoreInv
          <5>2. ~HasPiece(seg, ready)
            BY <4>2, <5>1 DEF HasPiece, There, InMemory
          <5> QED
            BY <1>10, <5>1, <5>2
        <4> QED
          BY <4>1, <4>2 DEF AtHole
      <3>3. CASE SegOf(ready) # s
        <4>1. ~moves
          BY <3>3 DEF s, moves
        <4> HIDE DEF moves
        <4>2. ready' = ready /\ behind' = behind
          BY <1>4, <3>3, <4>1
        <4>3. ready # Max => ready \in Ids /\ SegOf(ready) \in Segs
          BY <1>1, EndFacts, PlaceFacts DEF StoreInv
        <4>4. AtHole(ready, behind, mt, saved, sg)
          BY <1>9, <1>10, <2>1, <3>3, <4>3 DEF AtHole
        <4> QED
          BY <4>2, <4>4
      <3> QED
        BY <3>1, <3>2, <3>3
    <2> QED
      BY <1>1, <2>2, <2>3 DEF ExactInv
  <1> QED
    BY <1>15, <1>16, <1>17, <1>18 DEF IInv
-----------------------------------------------------------------------------
(* The locks *)

\* The ends of the locks, and what is left of the walk.
AllAligned(rg, w) ==
  (\A l \in Lock : Aligned(rg[l].from) /\ Aligned(rg[l].to)) /\ Aligned(w.from) /\ Aligned(w.to)

\* The locks and the walk are of their types.
LocksGood(h, rg, w) ==
  /\ h \subseteq Lock /\ rg \in [Lock -> Locks!Ranges] /\ w \in Locks!Walk
  /\ w.on => w.from < w.to

\* A step of the locks alone keeps the invariant when the counters have room for its walk.
LEMMA LocksOnly ==
  ASSUME IInv, UNCHANGED storeVars, LocksGood(held', range', walk'),
         \A s \in Segs : Room(seg[s], s, Mark(walk')),
         AllAligned(range, walk) /\ WholeBlocks => AllAligned(range', walk')
  PROVE  IInv'
  <1>1. /\ end' = end /\ meta' = meta /\ meta_ready' = meta_ready
        /\ saved' = saved /\ seg' = seg /\ ready' = ready /\ behind' = behind
    BY DEF storeVars
  <1>2. StoreInv /\ LiveInv /\ ExactInv
    BY DEF IInv
  <1>3. StoreInv'
    <2>1. \A s \in Segs : Tidy(seg[s], s, meta[s], Mark(walk'))
      BY <1>2 DEF StoreInv, Tidy
    <2> QED
      BY <1>1, <1>2, <2>1 DEF StoreInv
  <1>4. LockInv'
    BY DEF LocksGood, LockInv
  <1>5. LiveInv'
    BY <1>1, <1>2 DEF LiveInv
  <1>6. ExactInv'
    BY <1>1, <1>2 DEF ExactInv, AllAligned
  <1> QED
    BY <1>3, <1>4, <1>5, <1>6 DEF IInv

\* Where the walk begins and where it goes on.
LEMMA LockFacts ==
  ASSUME IInv
  PROVE  /\ LocksGood(held, range, walk)
         /\ \A l \in Lock : /\ range[l].from \in 0 .. Max /\ range[l].to \in 0 .. Max /\ range[l].from <= range[l].to
                            /\ range[l].from \in Nat /\ range[l].to \in Nat
         /\ walk.from \in 0 .. Max /\ walk.to \in 0 .. Max /\ walk.from \in Nat /\ walk.to \in Nat
         /\ walk.todo \subseteq Lock
         /\ \A s \in Segs : SegInv(seg[s]) /\ Room(seg[s], s, Mark(walk))
         /\ Max \in 0 .. Max /\ Max \in Nat
  <1>1. Max \in Nat /\ Max \in 0 .. Max
    BY Constants
  <1>2. LocksGood(held, range, walk)
    BY DEF IInv, LockInv, LocksGood
  <1>3. \A l \in Lock : range[l] \in Locks!Ranges
    BY <1>2 DEF LocksGood
  <1>4. \A l \in Lock : range[l].from \in 0 .. Max /\ range[l].to \in 0 .. Max /\ range[l].from <= range[l].to
    BY <1>3, LockTypes
  <1>5. walk.from \in 0 .. Max /\ walk.to \in 0 .. Max /\ walk.todo \subseteq Lock
    BY <1>2, LockTypes DEF LocksGood
  <1>6. \A s \in Segs : SegInv(seg[s]) /\ Room(seg[s], s, Mark(walk))
    BY DEF IInv, StoreInv, Tidy
  <1> QED
    BY <1>1, <1>2, <1>4, <1>5, <1>6

\* Where the walk of remove_lock begins.
LEMMA WalkBegins ==
  ASSUME IInv, NEW o \in Locks!Ranges, NEW S \in SUBSET Lock, Locks!remove_lock(o, S)
  PROVE  /\ walk' \in Locks!Walk /\ (walk'.on => walk'.from < walk'.to)
         /\ Mark(walk') \in 0 .. Max
         /\ Aligned(o.from) /\ Aligned(o.to) => Aligned(walk'.from) /\ Aligned(walk'.to)
  <1>1. o.from \in 0 .. Max /\ o.to \in 0 .. Max /\ o.from <= o.to /\ Max \in 0 .. Max
    BY LockTypes, LockFacts
  <1>2. walk' = IF o.from = o.to THEN Locks!Idle
                ELSE [on |-> TRUE, from |-> o.from, to |-> o.to, todo |-> S]
    BY DEF Locks!remove_lock
  <1>3. CASE o.from = o.to
    <2>1. walk' = Locks!Idle
      BY <1>2, <1>3
    <2>2. walk'.on = FALSE /\ walk'.from = 0 /\ walk'.to = 0 /\ walk' \in Locks!Walk
      BY <2>1, LockTypes
    <2> QED
      BY <1>1, <2>2, TheBeginning DEF Mark
  <1>4. CASE o.from # o.to
    <2>1. walk' = [on |-> TRUE, from |-> o.from, to |-> o.to, todo |-> S]
      BY <1>2, <1>4
    <2>2. walk'.on = TRUE /\ walk'.from = o.from /\ walk'.to = o.to
      BY <2>1
    <2>3. walk' \in Locks!Walk
      BY <1>1, <2>1, LockTypes
    <2>4. o.from < o.to
      BY <1>1, <1>4, Constants
    <2> QED
      BY <1>1, <2>2, <2>3, <2>4 DEF Mark
  <1> QED
    BY <1>3, <1>4

\* A new lock keeps the invariant.
LEMMA AllocInv ==
  ASSUME IInv, NEW l \in Lock, NEW r \in LockRange, alloc_lock(l, r)
  PROVE  IInv'
  <1>1. /\ UNCHANGED storeVars /\ held' = held \union {l} /\ range' = [range EXCEPT ![l] = r] /\ walk' = walk
    BY DEF alloc_lock, Locks!alloc_lock
  <1>2. LocksGood(held, range, walk) /\ \A s \in Segs : Room(seg[s], s, Mark(walk))
    BY LockFacts
  <1>3. r \in Locks!Ranges
    BY SizeAssumption, LockTypes
  <1>4. LocksGood(held', range', walk')
    BY <1>1, <1>2, <1>3 DEF LocksGood
  <1>5. AllAligned(range, walk) /\ WholeBlocks => AllAligned(range', walk')
    BY <1>1, <1>2 DEF AllAligned, WholeBlocks, LocksGood
  <1> QED
    BY <1>1, <1>2, <1>4, <1>5, LocksOnly

\* Moving a lock keeps the invariant.
LEMMA ModifyInv ==
  ASSUME IInv, NEW l \in Lock, NEW r \in LockRange, modify_lock(l, r)
  PROVE  IInv'
  <1>1. /\ UNCHANGED storeVars /\ held' = held /\ range' = [range EXCEPT ![l] = r] /\ CountersSmall
        /\ Locks!remove_lock(range[l], held)
    BY DEF modify_lock, Locks!modify_lock
  <1>2. LocksGood(held, range, walk) /\ \A s \in Segs : SegInv(seg[s])
    BY LockFacts
  <1>3. r \in Locks!Ranges /\ range[l] \in Locks!Ranges /\ held \in SUBSET Lock
    BY <1>2, SizeAssumption, LockTypes DEF LocksGood
  <1>4. /\ walk' \in Locks!Walk /\ (walk'.on => walk'.from < walk'.to) /\ Mark(walk') \in 0 .. Max
        /\ Aligned(range[l].from) /\ Aligned(range[l].to) => Aligned(walk'.from) /\ Aligned(walk'.to)
    BY <1>1, <1>3, WalkBegins
  <1>5. LocksGood(held', range', walk')
    BY <1>1, <1>2, <1>3, <1>4 DEF LocksGood
  <1>6. AllAligned(range, walk) /\ WholeBlocks => AllAligned(range', walk')
    BY <1>1, <1>2, <1>4 DEF AllAligned, WholeBlocks, LocksGood
  <1>7. \A s \in Segs : Room(seg[s], s, Mark(walk'))
    BY <1>1, <1>2, <1>4, RoomWhenSmall
  <1> QED
    BY <1>1, <1>5, <1>6, <1>7, LocksOnly

\* Dropping a lock keeps the invariant.
LEMMA ReleaseInv ==
  ASSUME IInv, NEW l \in Lock, release_lock(l)
  PROVE  IInv'
  <1>1. /\ UNCHANGED storeVars /\ held' = held \ {l} /\ range' = [range EXCEPT ![l] = Locks!NoRange] /\ CountersSmall
        /\ Locks!remove_lock(range[l], held \ {l})
    BY DEF release_lock, Locks!release_lock
  <1>2. LocksGood(held, range, walk) /\ \A s \in Segs : SegInv(seg[s])
    BY LockFacts
  <1>3. range[l] \in Locks!Ranges /\ held \ {l} \in SUBSET Lock
    BY <1>2 DEF LocksGood
  <1>4. /\ walk' \in Locks!Walk /\ (walk'.on => walk'.from < walk'.to) /\ Mark(walk') \in 0 .. Max
        /\ Aligned(range[l].from) /\ Aligned(range[l].to) => Aligned(walk'.from) /\ Aligned(walk'.to)
    BY <1>1, <1>3, WalkBegins
  <1>5. LocksGood(held', range', walk')
    BY <1>1, <1>2, <1>3, <1>4, LockTypes DEF LocksGood
  <1>6. AllAligned(range, walk) /\ WholeBlocks => AllAligned(range', walk')
    <2>1. Aligned(Locks!NoRange.from) /\ Aligned(Locks!NoRange.to)
      BY LockTypes, TheBeginning
    <2> QED
      BY <1>1, <1>2, <1>4, <2>1 DEF AllAligned, LocksGood
  <1>7. \A s \in Segs : Room(seg[s], s, Mark(walk'))
    BY <1>1, <1>2, <1>4, RoomWhenSmall
  <1> QED
    BY <1>1, <1>5, <1>6, <1>7, LocksOnly

\* The walk goes on from f, or is over.
LEMMA WalkGoesOn ==
  ASSUME IInv, walk.on, NEW l \in Lock, NEW f \in 0 .. Max,
         (Locks!Advance(l, f) /\ f < walk.to) \/ Locks!Return
  PROVE  /\ walk' \in Locks!Walk /\ (walk'.on => walk'.from < walk'.to)
         /\ Mark(walk') \in 0 .. Max /\ f <= Mark(walk')
         /\ Aligned(f) /\ Aligned(walk.to) => Aligned(walk'.from) /\ Aligned(walk'.to)
  <1>1. walk.to \in 0 .. Max /\ walk.todo \subseteq Lock /\ Max \in Nat /\ Max \in 0 .. Max /\ f \in Nat
    BY LockFacts
  <1>2. CASE Locks!Return
    <2>1. walk'.on = FALSE /\ walk'.from = 0 /\ walk'.to = 0 /\ walk' \in Locks!Walk
      BY <1>2, LockTypes DEF Locks!Return
    <2> QED
      BY <1>1, <2>1, TheBeginning DEF Mark
  <1>3. CASE Locks!Advance(l, f) /\ f < walk.to
    <2>1. walk' = [on |-> TRUE, from |-> f, to |-> walk.to, todo |-> walk.todo \ {l}]
      BY <1>3 DEF Locks!Advance
    <2>2. walk'.on = TRUE /\ walk'.from = f /\ walk'.to = walk.to
      BY <2>1
    <2>3. walk' \in Locks!Walk
      BY <1>1, <2>1, LockTypes
    <2> QED
      BY <1>1, <1>3, <2>2, <2>3 DEF Mark
  <1> QED
    BY <1>2, <1>3

\* A step of the walk that passes a lock keeps the invariant.
LEMMA SkipInv ==
  ASSUME IInv, NEW l \in Lock, SkipLock(l)
  PROVE  IInv'
  <1>1. /\ UNCHANGED storeVars /\ held' = held /\ range' = range /\ walk.on /\ Locks!Advance(l, walk.from)
    BY DEF SkipLock, Locks!SkipLock, Locks!NextLock
  <1>2. LocksGood(held, range, walk) /\ walk.from \in 0 .. Max /\ walk.from < walk.to
        /\ \A s \in Segs : SegInv(seg[s]) /\ Room(seg[s], s, walk.from)
    BY <1>1, LockFacts DEF LocksGood, Mark
  <1>3. /\ walk' \in Locks!Walk /\ (walk'.on => walk'.from < walk'.to)
        /\ Mark(walk') \in 0 .. Max /\ walk.from <= Mark(walk')
        /\ Aligned(walk.from) /\ Aligned(walk.to) => Aligned(walk'.from) /\ Aligned(walk'.to)
    BY <1>1, <1>2, WalkGoesOn
  <1>4. LocksGood(held', range', walk') /\ (AllAligned(range, walk) => AllAligned(range', walk'))
    BY <1>1, <1>2, <1>3 DEF LocksGood, AllAligned
  <1>5. \A s \in Segs : Room(seg[s], s, Mark(walk'))
    BY <1>2, <1>3, RoomGrows
  <1> QED
    BY <1>1, <1>4, <1>5, LocksOnly

\* A step of the walk over a part that a lock covers keeps the invariant.
LEMMA CoverInv ==
  ASSUME IInv, NEW l \in Lock, CoverHead(l)
  PROVE  IInv'
  <1>1. /\ UNCHANGED storeVars /\ held' = held /\ range' = range /\ walk.on /\ walk.from < range[l].to
        /\ (Locks!Advance(l, range[l].to) /\ range[l].to < walk.to) \/ Locks!Return
    BY DEF CoverHead, Locks!CoverHead, Locks!NextLock
  <1>2. LocksGood(held, range, walk) /\ walk.from \in 0 .. Max /\ range[l].to \in 0 .. Max
        /\ walk.from <= range[l].to
        /\ \A s \in Segs : SegInv(seg[s]) /\ Room(seg[s], s, walk.from)
    <2>1. walk.from \in Nat /\ range[l].to \in Nat
      BY LockFacts
    <2> QED
      BY <1>1, <2>1, LockFacts DEF LocksGood, Mark
  <1>3. /\ walk' \in Locks!Walk /\ (walk'.on => walk'.from < walk'.to)
        /\ Mark(walk') \in 0 .. Max /\ range[l].to <= Mark(walk')
        /\ Aligned(range[l].to) /\ Aligned(walk.to) => Aligned(walk'.from) /\ Aligned(walk'.to)
    BY <1>1, <1>2, WalkGoesOn
  <1>4. LocksGood(held', range', walk') /\ (AllAligned(range, walk) => AllAligned(range', walk'))
    BY <1>1, <1>2, <1>3 DEF LocksGood, AllAligned
  <1>5. walk.from <= Mark(walk')
    <2>1. walk.from \in Nat /\ range[l].to \in Nat /\ Mark(walk') \in Nat
      BY <1>3, LockFacts, Constants
    <2> QED
      BY <1>2, <1>3, <2>1
  <1>6. \A s \in Segs : Room(seg[s], s, Mark(walk'))
    BY <1>2, <1>3, <1>5, RoomGrows
  <1> QED
    BY <1>1, <1>4, <1>6, LocksOnly
\* The pieces from the beginning of what is left of the walk to t are released.
LEMMA PiecesGo ==
  ASSUME CountersFit, IInv, walk.on, NEW t \in 0 .. Max, walk.from < t, seg' = release(seg, walk.from, t),
         UNCHANGED <<end, meta, saved, ready, meta_ready, behind, held, range>>,
         walk' \in Locks!Walk, walk'.on => walk'.from < walk'.to, t <= Mark(walk'), Mark(walk') \in 0 .. Max,
         AllAligned(range, walk) => AllAligned(range, walk') /\ Aligned(t)
  PROVE  IInv'
  <1> DEFINE f == walk.from
             V(s) == SegAfter(seg[s], s, f, t)
  <1>1. StoreInv /\ LockInv /\ LiveInv /\ ExactInv
    BY DEF IInv
  <1>2. f \in 0 .. Max /\ f < t /\ \A s \in Segs : SegInv(seg[s]) /\ Room(seg[s], s, f)
    BY LockFacts DEF Mark
  <1>3. seg' = release(seg, f, t)
    OBVIOUS
  <1> HIDE DEF f
  <1>4. \A s \in Segs : seg'[s] = V(s)
    BY <1>3, ReleaseAfter
  <1>5. ASSUME NEW s \in Segs
        PROVE  /\ Shrunk(V(s), seg[s]) /\ Room(V(s), s, t)
               /\ Aligned(f) /\ Aligned(t) /\ Exact(seg[s]) => Exact(V(s))
    BY <1>2, SegmentShrunk
  <1>6. \A s \in Segs : seg[s] = NoSeg => V(s) = NoSeg
    BY NoSegFacts DEF SegAfter
  <1>7. seg' \in [Segs -> SegmentType]
    <2>1. \A s \in Segs : seg'[s] \in SegmentType
      BY <1>4, <1>5 DEF Shrunk, SegInv
    <2>2. seg' = [s \in Segs |-> seg'[s]]
      BY <1>3 DEF release
    <2> QED
      BY <2>1, <2>2
  <1> HIDE DEF V
  <1>8. ASSUME NEW s \in Segs PROVE Tidy(seg'[s], s, meta[s], Mark(walk'))
    <2>1. SegInv(seg'[s]) /\ Room(seg'[s], s, t)
      BY <1>4, <1>5 DEF Shrunk
    <2>2. Room(seg'[s], s, Mark(walk'))
      BY <2>1, RoomGrows
    <2>3. meta[s] = 0 => Blank(seg[s])
      BY <1>1 DEF StoreInv, Tidy
    <2>4. Blank(seg[s]) => Blank(V(s))
      BY <1>5, NoSegFacts DEF Blank, Even, Shrunk
    <2> QED
      BY <1>4, <2>1, <2>2, <2>3, <2>4 DEF Tidy
  <1>9. StoreInv'
    <2>1. end = 0 => \A s \in Segs : seg'[s] = NoSeg
      BY <1>1, <1>4, <1>6 DEF StoreInv
    <2> QED
      BY <1>1, <1>7, <1>8, <2>1 DEF StoreInv
  <1>10. LockInv'
    BY <1>1 DEF LockInv
  <1>11. LiveInv'
    <2>1. ~DiskCache => \A s \in Segs : Counts(seg'[s])
      BY <1>1, <1>4, <1>5 DEF LiveInv, Shrunk
    <2> QED
      BY <1>1, <2>1 DEF LiveInv
  <1>12. ASSUME NEW x \in Ids, HasPiece(seg', x) PROVE HasPiece(seg, x)
    <2>1. SegOf(x) \in Segs /\ BlkOf(OffOf(x)) \in Blocks
      BY PlaceFacts
    <2>2. Shrunk(seg'[SegOf(x)], seg[SegOf(x)])
      BY <1>4, <1>5, <2>1
    <2> QED
      BY <1>12, <2>1, <2>2, NoSegFacts DEF HasPiece, There, Shrunk
  <1>13. ExactInv'
    <2> SUFFICES ASSUME ~DiskCache, WholeBlocks
                 PROVE  /\ AllAligned(range, walk')
                        /\ \A s \in Segs : Exact(seg'[s])
                        /\ AtHole(ready, behind, meta, saved, seg')
      BY DEF ExactInv, AllAligned
    <2>1. AllAligned(range, walk) /\ (\A s \in Segs : Exact(seg[s])) /\ AtHole(ready, behind, meta, saved, seg)
      BY <1>1 DEF ExactInv, AllAligned
    <2>2. Aligned(f) /\ Aligned(t) /\ AllAligned(range, walk')
      BY <2>1 DEF AllAligned, f
    <2>3. \A s \in Segs : Exact(seg'[s])
      BY <1>4, <1>5, <2>1, <2>2
    <2>4. AtHole(ready, behind, meta, saved, seg')
      <3>1. ready \in 0 .. Max /\ (ready # Max => ready \in Ids)
        BY <1>1, EndFacts DEF StoreInv
      <3> QED
        BY <1>12, <2>1, <3>1, HoleStays
    <2> QED
      BY <2>2, <2>3, <2>4
  <1> QED
    BY <1>9, <1>10, <1>11, <1>13 DEF IInv

\* The release of a gap between locks keeps the invariant.
LEMMA GapInv ==
  ASSUME CountersFit, IInv, NEW l \in Lock, ReleaseGap(l)
  PROVE  IInv'
  <1>1. /\ walk.on /\ walk.from < range[l].from /\ range[l].from < walk.to
        /\ seg' = release(seg, walk.from, range[l].from)
        /\ (Locks!Advance(l, range[l].to) /\ range[l].to < walk.to) \/ Locks!Return
        /\ UNCHANGED <<end, meta, saved, ready, meta_ready, behind, held, range>>
    BY DEF ReleaseGap, Locks!NextLock
  <1>2. /\ range[l].from \in 0 .. Max /\ range[l].to \in 0 .. Max /\ range[l].from <= range[l].to
        /\ range[l].from \in Nat /\ range[l].to \in Nat
    BY LockFacts
  <1>3. /\ walk' \in Locks!Walk /\ (walk'.on => walk'.from < walk'.to)
        /\ Mark(walk') \in 0 .. Max /\ range[l].to <= Mark(walk')
        /\ Aligned(range[l].to) /\ Aligned(walk.to) => Aligned(walk'.from) /\ Aligned(walk'.to)
    BY <1>1, <1>2, WalkGoesOn
  <1>4. range[l].from <= Mark(walk')
    <2>1. Mark(walk') \in Nat
      BY <1>3, Constants
    <2> QED
      BY <1>2, <1>3, <2>1
  <1>5. AllAligned(range, walk) => AllAligned(range, walk') /\ Aligned(range[l].from)
    BY <1>3 DEF AllAligned
  <1> DEFINE t == range[l].from
  <1>6. t \in 0 .. Max /\ walk.from < t /\ seg' = release(seg, walk.from, t) /\ t <= Mark(walk')
        /\ (AllAligned(range, walk) => AllAligned(range, walk') /\ Aligned(t))
    BY <1>1, <1>2, <1>4, <1>5
  <1> HIDE DEF t
  <1> QED
    BY <1>1, <1>3, <1>6, PiecesGo

\* The release of the rest keeps the invariant.
LEMMA RestInv ==
  ASSUME CountersFit, IInv, ReleaseRest
  PROVE  IInv'
  <1>1. /\ walk.on /\ seg' = release(seg, walk.from, walk.to) /\ Locks!Return
        /\ UNCHANGED <<end, meta, saved, ready, meta_ready, behind, held, range>>
    BY DEF ReleaseRest
  <1> DEFINE t == walk.to
  <1>2. t \in 0 .. Max /\ walk.from < t /\ Max \in Nat /\ Max \in 0 .. Max /\ t <= Max
    BY <1>1, LockFacts DEF LocksGood
  <1>3. walk'.on = FALSE /\ walk'.from = 0 /\ walk'.to = 0 /\ walk' \in Locks!Walk
    BY <1>1, LockTypes DEF Locks!Return
  <1>4. t <= Mark(walk') /\ Mark(walk') \in 0 .. Max
    BY <1>2, <1>3 DEF Mark
  <1>5. AllAligned(range, walk) => AllAligned(range, walk') /\ Aligned(t)
    BY <1>3, TheBeginning DEF AllAligned
  <1>6. seg' = release(seg, walk.from, t)
    BY <1>1
  <1> HIDE DEF t
  <1> QED
    BY <1>1, <1>2, <1>3, <1>4, <1>5, <1>6, PiecesGo

\* Every step keeps the invariant.
LEMMA NextInv ==
  ASSUME CountersFit, IInv, [Next]_vars
  PROVE  IInv'
  <1>1. CASE \E sizes \in Segments : set_segments(sizes)
    BY <1>1, SegmentsInv
  <1>2. CASE \E n \in 1 .. SegCount : set_meta(n)
    BY <1>2, MetaInv
  <1>3. ASSUME NEW id \in Ids, \/ \E size \in LateSizes : set_segment_meta(id, size)
                               \/ seek(id) \/ set_piece(id) \/ iterator_at(id) \/ get_piece(id)
        PROVE  IInv'
    BY <1>3, SegmentMetaInv, SeekInv, SetPieceInv, IteratorInv, GetPieceInv
  <1>4. ASSUME NEW s \in Segs, prepare_segment(s) \/ \E v \in BOOLEAN : set_segment_status(s, v)
        PROVE  IInv'
    BY <1>4, PrepareInv, StatusInv
  <1>5. ASSUME NEW l \in Lock, NEW r \in LockRange, alloc_lock(l, r) \/ modify_lock(l, r)
        PROVE  IInv'
    BY <1>5, AllocInv, ModifyInv
  <1>6. ASSUME NEW l \in Lock, release_lock(l) \/ SkipLock(l) \/ CoverHead(l) \/ ReleaseGap(l)
        PROVE  IInv'
    BY <1>6, ReleaseInv, SkipInv, CoverInv, GapInv
  <1>7. CASE ReleaseRest
    BY <1>7, RestInv
  <1>8. CASE UNCHANGED vars
    <2>1. /\ end' = end /\ meta' = meta /\ saved' = saved /\ seg' = seg /\ ready' = ready
          /\ meta_ready' = meta_ready /\ behind' = behind /\ held' = held /\ range' = range /\ walk' = walk
      BY <1>8 DEF vars, storeVars, lockVars
    <2>2. StoreInv' /\ LockInv' /\ LiveInv' /\ ExactInv'
      BY <2>1 DEF IInv, StoreInv, LockInv, LiveInv, ExactInv
    <2> QED
      BY <2>2 DEF IInv
  <1> QED
    BY <1>1, <1>2, <1>3, <1>4, <1>5, <1>6, <1>7, <1>8 DEF Next

-----------------------------------------------------------------------------
(* Theorems *)

\* The invariant always holds, as long as the counters fit their sixteen bits.
LEMMA Invariant ==
  ASSUME CountersFit
  PROVE  Spec => []IInv
  <1>1. Init => IInv
    BY InitInv
  <1>2. IInv /\ [Next]_vars => IInv'
    BY NextInv
  <1> QED
    BY <1>1, <1>2, PTL DEF Spec

\* A full block is whole.
LEMMA BlocksAreWhole ==
  ASSUME IInv
  PROVE  FullBlockIsComplete
  <1> SUFFICES ASSUME NEW s \in Segs, NEW b \in Blocks, FullBlock(seg[s], b)
               PROVE  0 .. seg[s].blk[b].n - 1 \subseteq seg[s].blk[b].has
    BY DEF FullBlockIsComplete
  <1>1. BlockInv(seg[s].blk[b])
    BY DEF IInv, StoreInv, Tidy, SegInv
  <1> QED
    BY <1>1, FullIsWhole DEF FullBlock, Whole
\* What a segment has room for, as it is and as it is prepared.
LEMMA FullSegments ==
  ASSUME IInv, ~DiskCache
  PROVE  FullSegmentIsComplete
  <1> SUFFICES ASSUME NEW s \in Segs, seg[s].cnt # 0, Segment_full(seg[s]), NEW x \in Ids, SegOf(x) = s, HasPlace(x)
               PROVE  x \in InMemory
    BY DEF FullSegmentIsComplete
  <1>1. SegInv(seg[s]) /\ Counts(seg[s])
    BY DEF IInv, StoreInv, Tidy, LiveInv
  <1>2. Placed(modify_segment(s), OffOf(x)) /\ OffOf(x) \in 0 .. SegPos - 1
    BY PlaceThere
  <1>3. modify_segment(s) = seg[s]
    BY DEF modify_segment
  <1>4. There(seg[s], OffOf(x))
    BY <1>1, <1>2, <1>3, SegmentIsThere
  <1> QED
    BY <1>4 DEF There, InMemory

\* In a live resource with locks of whole blocks, data_ready.id is at a missing piece, or
\* where set_segment_meta left it.
LEMMA AHole ==
  ASSUME IInv, ~DiskCache, WholeBlocks
  PROVE  ReadyIsAHole
  <1>1. AtHole(ready, behind, meta, saved, seg) /\ ready \in 0 .. Max
    BY DEF IInv, ExactInv, StoreInv
  <1> SUFFICES ASSUME ready < Max, ~behind,
                      meta[SegOf(ready)] # 0, ~saved[SegOf(ready)]
               PROVE  ready \notin InMemory
    BY DEF ReadyIsAHole
  <1>2. ready # Max
    BY Constants
  <1>3. ~HasPiece(seg, ready)
    BY <1>1, <1>2 DEF AtHole
  <1> QED
    BY <1>3 DEF HasPiece, There, InMemory

\* The types of the model follow.
LEMMA Types ==
  ASSUME IInv
  PROVE  TypeOK
  <1>1. meta_ready \in 0 .. SegCount
    <2> DEFINE K == {s \in Segs : meta[s] # 0}
    <2>1. SegCount \in Nat /\ 0 <= SegCount /\ SegCount - 0 = SegCount
      BY Constants
    <2>2. IsFiniteSet(Segs) /\ Cardinality(Segs) = SegCount
      BY <2>1, HowMany DEF Segs
    <2>3. K \subseteq Segs
      OBVIOUS
    <2>4. meta_ready = Cardinality(K)
      BY DEF IInv, StoreInv
    <2> HIDE DEF K
    <2>5. IsFiniteSet(K) /\ Cardinality(K) <= Cardinality(Segs) /\ Cardinality(K) \in Nat
      BY <2>2, <2>3, FS_Subset, FS_CardinalityType
    <2> QED
      BY <2>1, <2>2, <2>4, <2>5
  <1> QED
    BY <1>1 DEF TypeOK, IInv, StoreInv, LockInv

\* A block never claims to be full while it lacks a piece, whatever is released, mapped or
\* resized, in resources of any size: Block::full() only looks at the counter
\* (core/Block.h), which release() may leave too high but nothing leaves too low.
THEOREM FullBlocksAreComplete ==
  ASSUME CountersFit
  PROVE  Spec => []FullBlockIsComplete
  <1>1. IInv => FullBlockIsComplete
    BY BlocksAreWhole
  <1> QED
    BY <1>1, Invariant, PTL

\* In a live resource, whose locks cover whole blocks, a segment that claims to be full
\* has every piece, and data_ready.id is a place where a piece is still missing, wherever
\* pieces, seeks and sizes have moved it (ResourceData::set_piece, priv_seek).  Left out is
\* the position that set_segment_meta did not move when the size of its segment came: it
\* moves data_ready.id only when the size is reported at that very position, and only to a
\* place that does not begin a segment (ResourceData.cpp:333-338), so a sink may be left
\* waiting there for a piece that is in memory.
THEOREM PiecesAreWhole ==
  ASSUME CountersFit, ~DiskCache, WholeBlocks
  PROVE  Spec => []PiecesInv
  <1>1. IInv => PiecesInv
    BY Types, FullSegments, AHole DEF PiecesInv
  <1> QED
    BY <1>1, Invariant, PTL

\* The place of a piece is the same before and after a piece came to the segment.
LEMMA PlacesStay ==
  ASSUME CountersFit, NEW m, NEW v, SegInv(m), NEW b \in Blocks, NEW p, PieceAdded(v, m, b, p), b < m.cnt,
         NEW y \in 0 .. SegPos - 1, Placed(m, y)
  PROVE  Placed(v, y)
  <1> DEFINE c == BlkOf(y)
  <1>1. c \in Blocks /\ c < m.cnt /\ PieOf(y) < modify_block(m, c).blk[c].n
    BY OffsetFacts DEF Placed
  <1>2. SegInv(v) /\ v.cnt = m.cnt /\ v.last = m.last /\ c < v.cnt
    BY <1>1 DEF PieceAdded
  <1> HIDE DEF c
  <1>3. modify_block(v, c).blk[c].n =
          IF v.blk[c].n # 0 THEN v.blk[c].n ELSE IF c < v.cnt - 1 THEN PPB ELSE v.last
    BY <1>1, <1>2, MadeSize
  <1>4. modify_block(m, c).blk[c].n =
          IF m.blk[c].n # 0 THEN m.blk[c].n ELSE IF c < m.cnt - 1 THEN PPB ELSE m.last
    BY <1>1, MadeSize
  <1>5. modify_block(v, c).blk[c].n = modify_block(m, c).blk[c].n
    <2>1. CASE c = b
      <3>1. v.blk[c].n = modify_block(m, c).blk[c].n
        BY <2>1 DEF PieceAdded
      <3>2. v.blk[c].n # 0
        <4>1. m.last # 0 /\ PPB # 0
          <5>1. m.cnt # 0
            BY <1>1, SegmentFacts, Constants DEF Blocks
          <5> QED
            BY <5>1, Constants DEF SegInv
        <4> QED
          BY <1>4, <3>1, <4>1
      <3> QED
        BY <1>3, <3>1, <3>2
    <2>2. CASE c # b
      <3>1. v.blk[c] = m.blk[c]
        BY <1>1, <2>2 DEF PieceAdded
      <3> QED
        BY <1>2, <1>3, <1>4, <3>1
    <2> QED
      BY <2>1, <2>2
  <1> QED
    BY <1>1, <1>2, <1>5 DEF Placed, c

\* The positions that data_ready.id passes when a piece comes.
LEMMA NoHoleSkipped ==
  ASSUME CountersFit, ~DiskCache, IInv, NEW id \in Ids, set_piece(id),
         NEW x \in Ids, ready <= x, x < ready', HasPlace(x)
  PROVE  HasPiece(seg', x)
  <1> DEFINE s == SegOf(id)
             o == OffOf(id)
             m == modify_segment(s)
             v == Segment_set_piece(m, o)
             sg == [seg EXCEPT ![s] = v]
             k == Segment_seek(v, o)
             at == IF k.done THEN (s + 1) * SegPos ELSE s * SegPos + k.at
             to == priv_seek(at, sg, meta)
             c == SegOf(x)
             y == OffOf(x)
  <1>1. s \in Segs /\ o \in 0 .. SegPos - 1 /\ BlkOf(o) \in Blocks /\ seg \in [Segs -> SegmentType]
    BY PlaceFacts DEF IInv, StoreInv
  <1>2. /\ ~walk.on /\ HasPlace(id) /\ id \notin InMemory /\ seg' = sg
        /\ ready' = (IF id = ready /\ meta[s] # 0 THEN to ELSE ready)
    <2>1. sg[s] = v
      BY <1>1
    <2> QED
      BY <2>1 DEF set_piece
  <1>3. Arrived(v, id)
    BY <1>2, PieceArrives
  <1>4. Passing(id, v, sg, k, at, to)
    BY DEF Passing
  <1> HIDE DEF v, m, k, sg, to
  <1>5. PieceAdded(v, m, BlkOf(o), PieOf(o)) /\ NoWorse(v, seg[s])
    BY <1>3 DEF Arrived, m
  <1>6. BlkOf(o) < m.cnt /\ SegInv(m) /\ m.cnt # 0
    BY <1>1, <1>2, PlaceThere, PreparedSegment DEF m
  <1>7. v.cnt # 0
    BY <1>5, <1>6 DEF PieceAdded
  <1>8. /\ sg[s] = v /\ (\A d \in Segs \ {s} : sg[d] = seg[d])
        /\ Sought(k, v, o) /\ at \in 0 .. Max /\ SoughtFrom(to, at, sg, meta)
    <2> HIDE DEF at
    <2> QED
      BY <1>2, <1>3, <1>4, PiecePasses
  <1>9. \A d \in Segs : Counts(sg[d]) /\ ~saved[d]
    BY <1>1, <1>5, <1>8 DEF IInv, LiveInv, NoWorse
  <1>10. /\ c \in Segs /\ y \in 0 .. SegPos - 1 /\ c < end
         /\ Placed(modify_segment(c), y)
    BY PlaceThere
  <1>11. x \in 0 .. Max /\ x \in Nat /\ ready \in Nat /\ id \in 0 .. Max /\ at \in Nat /\ Max \in Nat
         /\ SegPos \in Nat \ {0} /\ SegCount \in Nat
    BY <1>8, Constants DEF Ids, IInv, StoreInv
  <1>12. id = ready /\ ready' = to
    BY <1>2, <1>11
  <1>13. id <= x
    BY <1>12
  <1>14. CASE at <= x
    <2>1. /\ sg[c].cnt # 0
          /\ Placed(sg[c], y) => There(sg[c], y)
      <3> HIDE DEF at
      <3> QED
        BY <1>8, <1>9, <1>10, <1>12, <1>14 DEF SoughtFrom
    <2>2. Placed(sg[c], y)
      <3>1. CASE c = s
        <4>1. Placed(m, y)
          BY <1>10, <3>1 DEF m
        <4> HIDE DEF s, o, y, at
        <4> QED
          BY <1>1, <1>5, <1>6, <1>8, <1>10, <3>1, <4>1, PlacesStay
      <3>2. CASE c # s
        <4>1. sg[c] = seg[c]
          BY <1>8, <1>10, <3>2
        <4>2. modify_segment(c) = seg[c]
          BY <2>1, <4>1 DEF modify_segment
        <4> QED
          BY <1>10, <4>1, <4>2
      <3> QED
        BY <3>1, <3>2
    <2> QED
      BY <1>2, <2>1, <2>2 DEF HasPiece
  <1>15. CASE ~(at <= x)
    <2>1. s < c \/ (s = c /\ o <= y)
      BY <1>11, <1>13, PlaceOrder
    <2>2. s \in Nat /\ c \in Nat /\ y \in Nat /\ y < SegPos
      BY <1>1, <1>10, <1>11, Constants DEF Segs
    <2>3. s = c /\ (k.done \/ y < k.at)
      <3>1. CASE k.done
        <4>1. at = (s + 1) * SegPos
          BY <3>1
        <4>2. x = c * SegPos + y
          <5>1. x = SegPos * (x \div SegPos) + (x % SegPos)
            BY <1>11, Divides
          <5>2. x = SegPos * c + y
            BY <5>1 DEF SegOf, OffOf
          <5>3. SegPos * c = c * SegPos
            BY <1>11, <2>2
          <5> QED
            BY <5>2, <5>3
        <4> HIDE DEF s, c, y, at
        <4>3. CASE s < c
          <5>1. SegPos * (s + 1) <= SegPos * c /\ SegPos * (s + 1) \in Nat /\ SegPos * c \in Nat
            <6>1. s + 1 \in Nat /\ s + 1 <= c
              BY <2>2, <4>3
            <6> QED
              BY <1>11, <2>2, <6>1, Products
          <5>2. SegPos * (s + 1) = (s + 1) * SegPos /\ SegPos * c = c * SegPos
            BY <1>11, <2>2
          <5>3. at <= x
            BY <1>11, <2>2, <4>1, <4>2, <5>1, <5>2
          <5> QED
            BY <1>15, <5>3
        <4> QED
          BY <2>1, <3>1, <4>3
      <3>2. CASE ~k.done
        <4>1. at = s * SegPos + k.at /\ k.at \in 0 .. SegPos - 1
          BY <1>8, <3>2 DEF Sought
        <4> HIDE DEF at
        <4>2. at \in Ids /\ SegOf(at) = s /\ OffOf(at) = k.at
          <5> HIDE DEF s
          <5> QED
            BY <1>1, <4>1, PlaceComposed
        <4>3. ~(s < c \/ (s = c /\ k.at <= y))
          BY <1>8, <1>11, <1>15, <4>2, PlaceOrder
        <4>4. k.at \in Nat
          BY <1>11, <4>1
        <4> HIDE DEF s, c, y
        <4> QED
          BY <2>1, <2>2, <4>3, <4>4
      <3> QED
        BY <3>1, <3>2
    <2>4. Placed(m, y) /\ o <= y
      BY <1>10, <2>1, <2>2, <2>3 DEF m
    <2> HIDE DEF s, o, y, c, at
    <2>5. Placed(v, y)
      BY <1>1, <1>5, <1>6, <1>10, <2>4, PlacesStay
    <2>6. There(v, y)
      BY <1>8, <1>10, <2>3, <2>4, <2>5 DEF Sought
    <2> QED
      BY <1>2, <1>7, <1>8, <2>3, <2>6 DEF HasPiece, c, y
  <1> QED
    BY <1>14, <1>15

\* In a live resource data_ready.id never passes a place whose piece is missing when a
\* piece makes it move, so no sink is sent past a hole (ResourceData::set_piece).
THEOREM NoHoleIsSkipped ==
  ASSUME CountersFit, ~DiskCache
  PROVE  Spec => ReadySkipsNoHole
  <1> DEFINE Skips == \A id \in Ids : set_piece(id) =>
                        \A x \in Ids : ready <= x /\ x < ready' /\ HasPlace(x)
                          => x \in InMemory' \/ saved[SegOf(x)]
  <1>1. ASSUME IInv PROVE Skips
    <2> SUFFICES ASSUME NEW id \in Ids, set_piece(id), NEW x \in Ids, ready <= x, x < ready', HasPlace(x)
                 PROVE  x \in InMemory'
      OBVIOUS
    <2>1. HasPiece(seg', x)
      BY <1>1, NoHoleSkipped
    <2> QED
      BY <2>1 DEF HasPiece, There, InMemory
  <1>2. ReadySkipsNoHole <=> [][Skips]_vars
    BY DEF ReadySkipsNoHole
  <1> QED
    BY <1>1, <1>2, Invariant, PTL

-----------------------------------------------------------------------------
(* The store that RangeLock sees.                                            *)

\* A segment is known to be as long as the two blocks it was made of, when its size comes
\* late: no piece is left behind its end (ResourceData::modify_segment).
LongSegments == \A n \in LateSizes : 2 * PPB <= n

\* No piece lies behind the end of its block, no block with pieces behind that of the
\* segment.
Snug(g) ==
  \A b \in Blocks : g.blk[b].has \subseteq 0 .. g.blk[b].n - 1 /\ (b >= g.cnt => g.blk[b].has = {})

Within == \A s \in Segs : Snug(seg[s])

\* What is left of a block after a release are the pieces outside the released offsets.
LEMMA BlockKeeps ==
  ASSUME NEW g, SegInv(g), Snug(g), NEW f, NEW t, Bounds(f, t), NEW y \in 0 .. SegPos - 1
  PROVE  PieOf(y) \in BlockAfter(g, f, t, BlkOf(y)).has <=> There(g, y) /\ (y < f \/ (t # 0 /\ t <= y))
  <1> DEFINE b == BlkOf(y)
             p == PieOf(y)
             Bf == BlkOf(f)
             Pf == PieOf(f)
             Bt == BlkOf(t)
             Pt == PieOf(t)
             u == UpTo(g, t)
             c == g.blk[b]
             d == BlockAfter(g, f, t, b)
  <1>1. /\ y \in Nat /\ f \in Nat /\ t \in Nat /\ SegPos \in Nat /\ PPB \in Nat \ {0} /\ BPS \in Nat
        /\ f \in 0 .. SegPos - 1 /\ t \in 0 .. SegPos - 1 /\ (t = 0 \/ f < t)
    BY Constants DEF Bounds
  <1>2. /\ b \in Blocks /\ b \in Nat /\ p \in 0 .. PPB - 1 /\ p \in Nat
        /\ Bf \in Blocks /\ Bf \in Nat /\ Pf \in 0 .. PPB - 1 /\ Pf \in Nat
        /\ Bt \in Blocks /\ Bt \in Nat /\ Pt \in 0 .. PPB - 1 /\ Pt \in Nat
    BY <1>1, OffsetFacts DEF Blocks
  <1>3. /\ f <= y <=> Bf < b \/ (Bf = b /\ Pf <= p)
        /\ t <= y <=> Bt < b \/ (Bt = b /\ Pt <= p)
        /\ f <= t <=> Bf < Bt \/ (Bf = Bt /\ Pf <= Pt)
        /\ t <= f <=> Bt < Bf \/ (Bt = Bf /\ Pt <= Pf)
    BY <1>1, OffsetOrder
  <1>4. t = 0 => Pt = 0
    BY <1>1 DEF PieOf
  <1>5. /\ u = IF t = 0 THEN g.cnt ELSE Bt
        /\ u \in Nat
    BY <1>1, <1>2, SegmentFacts DEF UpTo
  <1>6. /\ c.n \in Nat /\ c.has \subseteq 0 .. c.n - 1 /\ (b >= g.cnt => c.has = {})
        /\ (p \in c.has => p < c.n)
    BY <1>1, <1>2, SegmentFacts DEF Snug
  <1>7. There(g, y) <=> p \in c.has
    BY DEF There
  <1>8. /\ IsHead(g, f, t, b) <=> b = Bf /\ Bf < u /\ Pf # 0
        /\ IsMid(g, f, t, b) <=> Bf <= b /\ b < u /\ ~(b = Bf /\ Bf < u /\ Pf # 0)
        /\ IsTail(g, f, t, b) <=> b = u /\ Pt # 0
    BY DEF IsHead, IsMid, IsTail
  <1>9. d = IF c.n = 0 THEN NoBlock
            ELSE IF IsMid(g, f, t, b) THEN NoBlock
            ELSE IF IsHead(g, f, t, b) THEN Block_release(c, Pf, c.n)
            ELSE IF IsTail(g, f, t, b) THEN Block_release(c, IF Bf = u THEN Pf ELSE 0, Pt)
            ELSE c
    BY DEF BlockAfter
  <1>10. NoBlock.has = {}
    BY NoBlockFacts
  <1>11. \A x, z : /\ x >= z => Block_release(c, x, z) = c
                   /\ ~(x >= z) => Block_release(c, x, z).has = c.has \ (x .. z - 1)
    BY DEF Block_release
  <1> HIDE DEF b, p, Bf, Pf, Bt, Pt, u, c, d
  <1> SUFFICES p \in d.has <=> p \in c.has /\ (y < f \/ (t # 0 /\ t <= y))
    BY <1>7 DEF b, p, d
  <1>12. CASE c.n = 0
    <2>1. d.has = {} /\ p \notin c.has
      BY <1>2, <1>6, <1>9, <1>10, <1>12
    <2> QED
      BY <2>1
  <1>13. CASE c.n # 0 /\ IsMid(g, f, t, b)
    <2>1. d.has = {}
      BY <1>9, <1>10, <1>13
    <2>2. Bf <= b /\ b < u /\ (b = Bf => Pf = 0)
      BY <1>8, <1>13, <1>2, <1>5
    <2>3. f <= y /\ (t = 0 \/ y < t)
      BY <1>1, <1>2, <1>3, <1>5, <2>2
    <2> QED
      BY <1>1, <2>1, <2>3
  <1>14. CASE c.n # 0 /\ ~IsMid(g, f, t, b) /\ IsHead(g, f, t, b)
    <2>1. d = Block_release(c, Pf, c.n) /\ b = Bf /\ Bf < u
      BY <1>8, <1>9, <1>14
    <2>2. p \in d.has <=> p \in c.has /\ p < Pf
      <3>1. CASE Pf >= c.n
        BY <1>2, <1>6, <1>11, <2>1, <3>1
      <3>2. CASE ~(Pf >= c.n)
        <4>1. d.has = c.has \ (Pf .. c.n - 1)
          BY <1>11, <2>1, <3>2
        <4> QED
          BY <1>2, <1>6, <4>1
      <3> QED
        BY <3>1, <3>2
    <2>3. (p < Pf <=> y < f) /\ ~(t # 0 /\ t <= y)
      BY <1>1, <1>2, <1>3, <1>5, <2>1
    <2> QED
      BY <2>2, <2>3
  <1>15. CASE c.n # 0 /\ ~IsMid(g, f, t, b) /\ ~IsHead(g, f, t, b) /\ IsTail(g, f, t, b)
    <2>1. b = u /\ Pt # 0 /\ t # 0 /\ u = Bt
      BY <1>4, <1>5, <1>8, <1>15
    <2> DEFINE z == IF Bf = u THEN Pf ELSE 0
    <2>2. d = Block_release(c, z, Pt) /\ z \in Nat
      BY <1>2, <1>9, <1>15
    <2>3. ~(z >= Pt)
      BY <1>1, <1>2, <1>3, <2>1
    <2>4. d.has = c.has \ (z .. Pt - 1)
      BY <1>11, <2>2, <2>3
    <2>5. p \in z .. Pt - 1 <=> f <= y /\ y < t
      BY <1>1, <1>2, <1>3, <2>1
    <2> QED
      BY <1>1, <2>1, <2>4, <2>5
  <1>16. CASE c.n # 0 /\ ~IsMid(g, f, t, b) /\ ~IsHead(g, f, t, b) /\ ~IsTail(g, f, t, b)
    <2>1. d = c
      BY <1>9, <1>16
    <2>2. ASSUME p \in c.has, f <= y PROVE t # 0 /\ t <= y
      <3>1. Bf <= b /\ ~(b < u) /\ (b # u \/ Pt = 0)
        BY <1>1, <1>2, <1>3, <1>8, <1>16, <2>2
      <3>2. t # 0
        BY <1>2, <1>5, <1>6, <2>2, <3>1, SegmentFacts
      <3> QED
        BY <1>1, <1>2, <1>3, <1>5, <3>1, <3>2
    <2> QED
      BY <1>1, <2>1, <2>2
  <1> QED
    BY <1>12, <1>13, <1>14, <1>15, <1>16

\* What Segment::release leaves, and that it leaves pieces where they may lie.
LEMMA SegmentKeeps ==
  ASSUME NEW g, SegInv(g), Snug(g), NEW f, NEW t, Bounds(f, t), NEW y \in 0 .. SegPos - 1
  PROVE  /\ Segment_release(g, f, t).cnt = g.cnt
         /\ There(Segment_release(g, f, t), y) <=> There(g, y) /\ (y < f \/ (t # 0 /\ t <= y))
  <1> DEFINE v == Segment_release(g, f, t)
  <1>1. /\ v.cnt = g.cnt
        /\ \A b \in Blocks : v.blk[b] = BlockAfter(g, f, t, b)
    <2>1. g \in [cnt : 0 .. BPS, last : 0 .. PPB, left : Counter, blk : [Blocks -> BlockType]]
      BY DEF SegInv, SegmentType
    <2> DEFINE B == [b \in Blocks |-> BlockAfter(g, f, t, b)]
               l == U16(g.left + Cardinality(Lost(g, f, t)) - Cardinality(Kept(g, f, t)))
    <2>2. v = [g EXCEPT !.blk = B, !.left = l]
      BY ReleaseParts
    <2>3. \A b \in Blocks : B[b] = BlockAfter(g, f, t, b)
      OBVIOUS
    <2> HIDE DEF B, l, v
    <2>4. v.cnt = g.cnt /\ v.blk = B
      BY <2>1, <2>2
    <2> QED
      BY <2>3, <2>4
  <1>2. BlkOf(y) \in Blocks
    BY OffsetFacts
  <1> HIDE DEF v
  <1>3. There(v, y) <=> PieOf(y) \in BlockAfter(g, f, t, BlkOf(y)).has
    BY <1>1, <1>2 DEF There
  <1> QED
    BY <1>1, <1>3, BlockKeeps DEF v

\* ResourceData::release takes out of memory just the places it is called with.
LEMMA ReleaseIsExact ==
  ASSUME NEW sg, \A s \in Segs : SegInv(sg[s]) /\ Snug(sg[s]),
         NEW f \in 0 .. Max, NEW t \in 0 .. Max, f < t, NEW x \in Ids
  PROVE  HasPiece(release(sg, f, t), x) <=> HasPiece(sg, x) /\ ~(f <= x /\ x < t)
  <1> DEFINE s == SegOf(x)
             y == OffOf(x)
             g == sg[s]
             v == SegAfter(g, s, f, t)
             Sf == SegOf(f)
             Of == OffOf(f)
             St == SegOf(t)
             Ot == OffOf(t)
  <1>1. x \in 0 .. Max /\ x \in Nat /\ f \in Nat /\ t \in Nat /\ Max \in Nat /\ SegPos \in Nat \ {0}
    BY Constants DEF Ids
  <1>2. /\ s \in Segs /\ s \in Nat /\ y \in 0 .. SegPos - 1 /\ y \in Nat
        /\ Sf \in Nat /\ Of \in 0 .. SegPos - 1 /\ Of \in Nat /\ St \in Nat /\ Ot \in 0 .. SegPos - 1 /\ Ot \in Nat
    <2>1. s \in Segs /\ y \in 0 .. SegPos - 1
      BY PlaceFacts
    <2>2. Sf \in Nat /\ Of \in 0 .. SegPos - 1 /\ St \in Nat /\ Ot \in 0 .. SegPos - 1
      BY <1>1, Divides DEF SegOf, OffOf
    <2> QED
      BY <1>1, <2>1, <2>2 DEF Segs
  <1>3. /\ f <= x <=> Sf < s \/ (Sf = s /\ Of <= y)
        /\ t <= x <=> St < s \/ (St = s /\ Ot <= y)
        /\ t <= f <=> St < Sf \/ (St = Sf /\ Ot <= Of)
    BY <1>1, PlaceOrder
  <1>4. SegInv(g) /\ Snug(g)
    BY <1>2
  <1>5. HasPiece(sg, x) <=> g.cnt # 0 /\ There(g, y)
    BY DEF HasPiece
  <1>6. HasPiece(release(sg, f, t), x) <=> v.cnt # 0 /\ There(v, y)
    BY <1>2, ReleaseAfter DEF HasPiece
  <1>7. v = IF g.cnt = 0 THEN NoSeg
            ELSE IF s = Sf /\ Sf < St /\ Of # 0 THEN Segment_release(g, Of, 0)
            ELSE IF Sf <= s /\ s < St THEN NoSeg
            ELSE IF s = St /\ Ot # 0
                 THEN Segment_release(g, IF Sf = St THEN Of ELSE 0, Ot)
            ELSE g
    BY DEF SegAfter
  <1>8. NoSeg.cnt = 0
    BY NoSegFacts
  <1>9. \A a, b : Bounds(a, b) => /\ Segment_release(g, a, b).cnt = g.cnt
                                  /\ There(Segment_release(g, a, b), y) <=> There(g, y) /\ (y < a \/ (b # 0 /\ b <= y))
    BY <1>2, <1>4, SegmentKeeps
  <1> HIDE DEF s, y, g, v, Sf, Of, St, Ot
  <1> SUFFICES v.cnt # 0 /\ There(v, y) <=> g.cnt # 0 /\ There(g, y) /\ ~(f <= x /\ x < t)
    BY <1>5, <1>6
  <1>10. CASE g.cnt = 0
    BY <1>7, <1>8, <1>10
  <1>11. CASE g.cnt # 0 /\ s = Sf /\ Sf < St /\ Of # 0
    <2>1. Bounds(Of, 0) /\ v = Segment_release(g, Of, 0)
      BY <1>1, <1>2, <1>7, <1>11 DEF Bounds
    <2>2. v.cnt = g.cnt /\ (There(v, y) <=> There(g, y) /\ y < Of)
      BY <1>9, <2>1
    <2> QED
      BY <1>1, <1>2, <1>3, <1>11, <2>2
  <1>12. CASE g.cnt # 0 /\ ~(s = Sf /\ Sf < St /\ Of # 0) /\ Sf <= s /\ s < St
    <2>1. v.cnt = 0
      BY <1>7, <1>8, <1>12
    <2> QED
      BY <1>1, <1>2, <1>3, <1>12, <2>1
  <1>13. CASE g.cnt # 0 /\ ~(Sf <= s /\ s < St) /\ s = St /\ Ot # 0
    <2> DEFINE a == IF Sf = St THEN Of ELSE 0
    <2>1. a \in Nat /\ a < Ot /\ a \in 0 .. SegPos - 1
      BY <1>1, <1>2, <1>3, <1>13
    <2>2. Bounds(a, Ot) /\ v = Segment_release(g, a, Ot)
      BY <1>2, <1>7, <1>13, <2>1 DEF Bounds
    <2>3. f <= x <=> a <= y
      BY <1>1, <1>2, <1>3, <1>13
    <2> HIDE DEF a
    <2>4. v.cnt = g.cnt /\ (There(v, y) <=> There(g, y) /\ (y < a \/ Ot <= y))
      BY <1>9, <1>13, <2>2
    <2>5. t <= x <=> Ot <= y
      BY <1>2, <1>3, <1>13
    <2> QED
      BY <1>1, <1>2, <1>13, <2>1, <2>3, <2>4, <2>5
  <1>14. CASE g.cnt # 0 /\ ~(Sf <= s /\ s < St) /\ ~(s = St /\ Ot # 0)
    <2>1. v = g
      BY <1>2, <1>7, <1>14
    <2>2. ~(f <= x /\ x < t)
      BY <1>1, <1>2, <1>3, <1>14
    <2> QED
      BY <2>1, <2>2
  <1> QED
    BY <1>2, <1>10, <1>11, <1>12, <1>13, <1>14

\* A segment that comes to have the pieces from offset a to z as well.
Gains(v, g, a, z) ==
  /\ SegInv(g) /\ v.cnt # 0 /\ Snug(v)
  /\ a \in 0 .. SegPos /\ z \in 0 .. SegPos /\ a <= z
  /\ \A y \in 0 .. SegPos - 1 : There(v, y) <=> There(g, y) \/ (a <= y /\ y < z)

\* That is one step of RangeLock, which stores the places of these pieces.
LEMMA GainStores ==
  ASSUME IInv, Within, ~walk.on, NEW s \in Segs, NEW v, seg' = [seg EXCEPT ![s] = v],
         NEW a, NEW z, Gains(v, seg[s], a, z), UNCHANGED lockVars
  PROVE  Within' /\ Locks!LocksNext
  <1> DEFINE f == s * SegPos + a
             t == s * SegPos + z
             r == [from |-> f, to |-> t]
  <1>1. seg \in [Segs -> SegmentType]
    BY DEF IInv, StoreInv
  <1>2. seg'[s] = v /\ \A c \in Segs \ {s} : seg'[c] = seg[c]
    BY <1>1
  <1>3. Within'
    BY <1>2 DEF Within, Gains
  <1>4. /\ SegPos \in Nat \ {0} /\ s \in Nat /\ a \in Nat /\ z \in Nat /\ z <= SegPos /\ a <= z
        /\ s * SegPos \in Nat /\ Max \in Nat
    BY Constants DEF Gains, Segs
  <1>5. s * SegPos + SegPos <= Max
    <2>1. SegCount \in Nat /\ s + 1 <= SegCount /\ s + 1 \in Nat /\ Max = SegPos * SegCount
      BY <1>4, Constants DEF Segs
    <2>2. SegPos * (s + 1) <= SegPos * SegCount
      BY <1>4, <2>1, Products
    <2>3. SegPos * (s + 1) = SegPos * s + SegPos /\ SegPos * s = s * SegPos
      BY <1>4, Products
    <2> QED
      BY <1>4, <2>1, <2>2, <2>3
  <1>6. f \in 0 .. Max /\ t \in 0 .. Max /\ f <= t /\ f \in Nat /\ t \in Nat
    BY <1>4, <1>5
  <1>7. \A x \in Ids : (SegOf(x) = s /\ a <= OffOf(x) /\ OffOf(x) < z) <=> f <= x /\ x < t
    <2> SUFFICES ASSUME NEW x \in Ids
                 PROVE  (SegOf(x) = s /\ a <= OffOf(x) /\ OffOf(x) < z) <=> f <= x /\ x < t
      OBVIOUS
    <2>1. x \in Nat /\ SegOf(x) \in Nat /\ OffOf(x) \in 0 .. SegPos - 1 /\ x = SegPos * SegOf(x) + OffOf(x)
      <3>1. x \in Nat
        BY Constants DEF Ids
      <3> QED
        BY <1>4, <3>1, Divides DEF SegOf, OffOf
    <2>2. SegOf(x) = s => x = s * SegPos + OffOf(x)
      BY <1>4, <2>1
    <2>3. f <= x /\ x < t => SegOf(x) = s
      <3> SUFFICES ASSUME f <= x, x < t PROVE SegOf(x) = s
        OBVIOUS
      <3> DEFINE y == x - s * SegPos
      <3>1. y \in 0 .. SegPos - 1 /\ x = s * SegPos + y
        BY <1>4, <2>1
      <3> HIDE DEF y
      <3> QED
        BY <3>1, PlaceComposed
    <2> QED
      BY <1>4, <2>1, <2>2, <2>3
  <1> HIDE DEF f, t
  <1>8. \A x \in Ids : HasPiece(seg', x) <=> HasPiece(seg, x) \/ (f <= x /\ x < t)
    <2> SUFFICES ASSUME NEW x \in Ids
                 PROVE  HasPiece(seg', x) <=> HasPiece(seg, x) \/ (f <= x /\ x < t)
      OBVIOUS
    <2>1. SegOf(x) \in Segs /\ OffOf(x) \in 0 .. SegPos - 1
      BY PlaceFacts
    <2>2. CASE SegOf(x) # s
      BY <1>2, <1>7, <2>1, <2>2 DEF HasPiece
    <2>3. CASE SegOf(x) = s
      <3>1. There(v, OffOf(x)) <=> There(seg[s], OffOf(x)) \/ (f <= x /\ x < t)
        BY <1>7, <2>1, <2>3 DEF Gains
      <3>2. HasPiece(seg, x) <=> There(seg[s], OffOf(x))
        BY <2>1, <2>3, NothingInNoSeg DEF HasPiece, Gains
      <3>3. HasPiece(seg', x) <=> There(v, OffOf(x))
        BY <1>2, <2>3 DEF HasPiece, Gains
      <3> QED
        BY <3>1, <3>2, <3>3
    <2> QED
      BY <2>2, <2>3
  <1>9. r \in Locks!Ranges /\ r.from = f /\ r.to = t
    BY <1>6, LockTypes
  <1>10. InMemory' = InMemory \union Locks!Interval(f, t)
    <2>1. InMemory = {x \in Ids : HasPiece(seg, x)}
      BY DEF InMemory, HasPiece, There
    <2>2. InMemory' = {x \in Ids : HasPiece(seg', x)}
      BY DEF InMemory, HasPiece, There
    <2>3. Locks!Interval(f, t) = {x \in Ids : f <= x /\ x < t}
      BY <1>4, <1>6 DEF Locks!Interval, Locks!Pos, Ids
    <2> QED
      BY <1>8, <2>1, <2>2, <2>3
  <1>11. Locks!Store(r)
    BY <1>9, <1>10 DEF Locks!Store, lockVars
  <1> QED
    BY <1>3, <1>9, <1>11 DEF Locks!LocksNext

\* Nothing happens to the pieces and the locks.
LEMMA StoreStays ==
  ASSUME Within, UNCHANGED <<seg, lockVars>>
  PROVE  Within' /\ UNCHANGED Locks!lockVars
  BY DEF Within, Locks!lockVars, InMemory, lockVars

\* A segment with the same pieces.
LEMMA SameGains ==
  ASSUME NEW g, SegInv(g), NEW v, SameHas(v, g), v.cnt # 0, Snug(v)
  PROVE  Gains(v, g, 0, 0)
  <1>1. \A y \in 0 .. SegPos - 1 : BlkOf(y) \in Blocks /\ (There(v, y) <=> There(g, y))
    BY OffsetFacts DEF SameHas, There
  <1>2. 0 \in 0 .. SegPos /\ \A y \in 0 .. SegPos - 1 : ~(0 <= y /\ y < 0)
    BY Constants
  <1> QED
    BY <1>1, <1>2 DEF Gains

\* The pieces of a segment that is made when it is NULL.
LEMMA SizedIsSnug ==
  ASSUME CountersFit, NEW g, SegInv(g), Snug(g), NEW s, NEW m, Tidy(Sized(g, m), s, m, Max),
         SameHas(Sized(g, m), g), Sized(g, m).cnt # 0
  PROVE  Snug(Sized(g, m))
  <1> DEFINE v == Sized(g, m)
  <1>1. CASE g.cnt # 0
    BY <1>1 DEF Sized
  <1>2. CASE g.cnt = 0
    <2>1. \A b \in Blocks : g.blk[b].has = {}
      BY <1>2, NoSegFacts, NoBlockFacts DEF SegInv
    <2> HIDE DEF v
    <2>2. \A b \in Blocks : v.blk[b].has = {}
      BY <2>1 DEF SameHas, v
    <2> QED
      BY <2>2 DEF Snug, v
  <1> QED
    BY <1>1, <1>2

\* A size that is not less than that of the two blocks a segment was made of.
LEMMA SetSizeIsSnug ==
  ASSUME CountersFit, NEW g, SegInv(g), Snug(g), Blank(g), g.cnt # 0,
         NEW size \in 1 .. SegPos, 2 * PPB <= size
  PROVE  Snug(Segment_set_size(g, size))
  <1> DEFINE cnt == (size + PPB - 1) \div PPB
             last == size - (cnt - 1) * PPB
             c == cnt - 1
             v == Segment_set_size(g, size)
             B == IF g.blk[c].n = 0 THEN g.blk ELSE [g.blk EXCEPT ![c] = Block_set_size(g.blk[c], last)]
  <1>1. cnt \in 1 .. BPS /\ last \in 1 .. PPB
    BY Ceiling
  <1>2. v.cnt = cnt /\ v.blk = B
    BY DEF Segment_set_size
  <1>3. PPB \in Nat \ {0} /\ size \in Nat /\ BPS \in Nat
    BY Constants
  <1>4. last = size - (cnt - 1) * PPB
    OBVIOUS
  <1> HIDE DEF cnt, last, v
  <1>5. cnt >= 2 /\ (cnt = 2 => last = PPB)
    <2>1. (1 - 1) * PPB = 0 /\ (2 - 1) * PPB = PPB
      BY <1>3
    <2>2. cnt # 1
      BY <1>1, <1>3, <1>4, <2>1
    <2>3. cnt = 2 => last >= PPB
      BY <1>1, <1>3, <1>4, <2>1
    <2> QED
      BY <1>1, <1>3, <2>2, <2>3
  <1>6. c \in Blocks /\ c \in Nat /\ cnt \in Nat
    BY <1>1, <1>3 DEF Blocks
  <1>7. g.blk \in [Blocks -> BlockType] /\ g.cnt = 2 /\ \A b \in Blocks : g.blk[b].n \in {0, PPB}
    BY SegmentFacts DEF Blank, Even
  <1>8. Block_set_size(g.blk[c], last).n = last /\ Block_set_size(g.blk[c], last).has = g.blk[c].has
    BY <1>1, <1>6, <1>7, BlockSized
  <1> DEFINE d == Block_set_size(g.blk[c], last)
  <1> HIDE DEF d
  <1>9. \A b \in Blocks : B[b] = g.blk[b] \/ (b = c /\ g.blk[c].n # 0 /\ B[b] = d)
    BY <1>6, <1>7 DEF d
  <1> HIDE DEF B, c
  <1> SUFFICES ASSUME NEW b \in Blocks
               PROVE  B[b].has \subseteq 0 .. B[b].n - 1 /\ (b >= cnt => B[b].has = {})
    BY <1>2 DEF Snug, v
  <1>10. g.blk[b].has \subseteq 0 .. g.blk[b].n - 1 /\ (b >= 2 => g.blk[b].has = {}) /\ b \in Nat
    BY <1>3, <1>7 DEF Snug, Blocks
  <1>11. CASE B[b] = g.blk[b]
    BY <1>1, <1>5, <1>6, <1>10, <1>11
  <1>12. CASE b = c /\ g.blk[c].n # 0 /\ B[b] = d
    <2>1. B[b].n = last /\ B[b].has = g.blk[b].has
      BY <1>8, <1>12 DEF d
    <2>2. c = cnt - 1
      BY DEF c
    <2>3. cnt # 2 => g.blk[b].has = {}
      BY <1>5, <1>6, <1>10, <1>12, <2>2
    <2>4. cnt = 2 => last = g.blk[b].n
      BY <1>3, <1>5, <1>7, <1>12
    <2>5. ~(b >= cnt)
      BY <1>6, <1>12, <2>2
    <2> QED
      BY <1>10, <2>1, <2>3, <2>4, <2>5
  <1> QED
    BY <1>9, <1>11, <1>12

\* The steps of the pieces are steps of RangeLock, and keep pieces where they may lie.
Maps == Within' /\ [Locks!LocksNext]_(Locks!lockVars)

\* A segment is made, or has its block made.
LEMMA PrepareMaps ==
  ASSUME CountersFit, IInv, Within, NEW s \in Segs, prepare_segment(s)
  PROVE  Maps
  <1> DEFINE v == modify_segment(s)
  <1>1. ~walk.on /\ seg' = [seg EXCEPT ![s] = v] /\ UNCHANGED lockVars
    BY DEF prepare_segment, lockVars
  <1>2. /\ v = Sized(seg[s], meta[s]) /\ Tidy(v, s, meta[s], Max) /\ v.cnt # 0
        /\ SameHas(v, seg[s]) /\ SegInv(seg[s]) /\ Snug(seg[s])
    BY <1>1, PreparedSegment, TidySegments DEF Within
  <1> HIDE DEF v
  <1>3. Snug(v)
    BY <1>2, SizedIsSnug
  <1>4. Gains(v, seg[s], 0, 0)
    BY <1>2, <1>3, SameGains
  <1> QED
    BY <1>1, <1>4, GainStores DEF Maps

\* The segment of a piece that has a place.
LEMMA PlaceIsSnug ==
  ASSUME CountersFit, IInv, Within, ~walk.on, NEW id \in Ids, HasPlace(id)
  PROVE  LET s == SegOf(id)
             g == modify_segment(s)
         IN  /\ s \in Segs /\ OffOf(id) \in 0 .. SegPos - 1 /\ BlkOf(OffOf(id)) \in Blocks
             /\ BlkOf(OffOf(id)) < g.cnt /\ Placed(g, OffOf(id))
             /\ Tidy(g, s, meta[s], Max) /\ SegInv(g) /\ Snug(g) /\ g.cnt # 0
             /\ SegInv(seg[s]) /\ SameHas(g, seg[s])
  <1> DEFINE s == SegOf(id)
             g == modify_segment(s)
  <1>1. /\ s \in Segs /\ OffOf(id) \in 0 .. SegPos - 1 /\ BlkOf(OffOf(id)) \in Blocks
        /\ BlkOf(OffOf(id)) < g.cnt /\ Placed(g, OffOf(id))
    BY PlaceThere
  <1> HIDE DEF s
  <1>2. /\ g = Sized(seg[s], meta[s]) /\ Tidy(g, s, meta[s], Max) /\ g.cnt # 0 /\ SegInv(g)
        /\ SameHas(g, seg[s]) /\ SegInv(seg[s]) /\ Snug(seg[s])
    BY <1>1, PreparedSegment, TidySegments DEF Within
  <1> HIDE DEF g
  <1>3. Snug(g)
    BY <1>2, SizedIsSnug
  <1> QED
    BY <1>1, <1>2, <1>3 DEF s, g

\* A block that is made has no pieces, and one that is mapped all of its own.
LEMMA BlocksAreSnug ==
  ASSUME CountersFit, NEW g, SegInv(g), Snug(g), NEW b \in Blocks, b < g.cnt,
         NEW v, NEW n, BlockAdded(v, g, b, n), n = modify_block(g, b).blk[b].n
  PROVE  Snug(v) /\ Snug(modify_block(g, b))
  <1> DEFINE h == modify_block(g, b)
  <1>1. Made(h, g, b)
    BY BlockMade
  <1>2. h.blk[b].n = IF g.blk[b].n # 0 THEN g.blk[b].n ELSE IF b < g.cnt - 1 THEN PPB ELSE g.last
    BY MadeSize
  <1> HIDE DEF h
  <1>3. \A c \in Blocks : g.blk[c].has \subseteq 0 .. g.blk[c].n - 1 /\ (c >= g.cnt => g.blk[c].has = {})
    BY DEF Snug
  <1>4. g.cnt \in Nat /\ b \in Nat /\ ~(b >= g.cnt)
    BY SegmentFacts, Constants DEF Blocks
  <1>5. Snug(h)
    <2>1. h.blk[b].has \subseteq 0 .. h.blk[b].n - 1
      BY <1>1, <1>3 DEF Made
    <2> QED
      BY <1>1, <1>3, <1>4, <2>1 DEF Made, Snug
  <1>6. Snug(v)
    <2>1. n \in 1 .. PPB /\ v.blk[b].n = n /\ v.blk[b].has = g.blk[b].has \union (0 .. n - 1)
          /\ v.cnt = g.cnt /\ \A c \in Blocks \ {b} : v.blk[c] = g.blk[c]
      BY DEF BlockAdded
    <2>2. g.blk[b].n # 0 => n = g.blk[b].n
      BY <1>2 DEF h
    <2>3. g.blk[b].n = 0 => g.blk[b].has = {}
      BY <1>3
    <2>4. v.blk[b].has \subseteq 0 .. v.blk[b].n - 1
      BY <1>3, <2>1, <2>2, <2>3
    <2> QED
      BY <1>3, <1>4, <2>1, <2>4 DEF Snug
  <1> QED
    BY <1>5, <1>6 DEF h

\* The pieces of a block that is mapped.
LEMMA BlockGains ==
  ASSUME NEW g, SegInv(g), NEW w, SameHas(w, g), NEW b \in Blocks, NEW v, NEW n, BlockAdded(v, w, b, n),
         Snug(v), w.cnt # 0
  PROVE  \E a, z : Gains(v, g, a, z)
  <1> DEFINE a == b * PPB + 0
             z == b * PPB + n
  <1>1. /\ n \in 1 .. PPB /\ v.blk[b].has = w.blk[b].has \union (0 .. n - 1)
        /\ v.cnt = w.cnt /\ \A c \in Blocks \ {b} : v.blk[c] = w.blk[c]
    BY DEF BlockAdded
  <1>2. /\ PPB \in Nat \ {0} /\ SegPos \in Nat /\ b \in Nat /\ n \in Nat /\ n <= PPB /\ b * PPB \in Nat
        /\ b + 1 <= BPS /\ BPS \in Nat /\ SegPos = PPB * BPS
    BY <1>1, Constants DEF Blocks
  <1>3. b * PPB + PPB <= SegPos
    <2>1. PPB * (b + 1) <= PPB * BPS /\ b + 1 \in Nat
      BY <1>2, Products
    <2>2. PPB * (b + 1) = PPB * b + PPB /\ PPB * b = b * PPB
      BY <1>2, Products
    <2> QED
      BY <1>2, <2>1, <2>2
  <1>4. a \in 0 .. SegPos /\ z \in 0 .. SegPos /\ a <= z
    BY <1>2, <1>3
  <1>5. ASSUME NEW y \in 0 .. SegPos - 1
        PROVE  There(v, y) <=> There(g, y) \/ (a <= y /\ y < z)
    <2> DEFINE c == BlkOf(y)
               p == PieOf(y)
    <2>1. c \in Blocks /\ p \in 0 .. PPB - 1 /\ y \in Nat
      BY <1>2, OffsetFacts
    <2>2. y = PPB * c + p /\ c \in Nat
      BY <1>2, <2>1, Divides DEF BlkOf, PieOf
    <2> HIDE DEF c, p
    <2>3. a <= y /\ y < z <=> c = b /\ p < n
      <3>1. CASE c = b
        <4>1. y = b * PPB + p
          BY <1>2, <2>2, <3>1
        <4> QED
          BY <1>2, <2>1, <3>1, <4>1
      <3>2. CASE c < b
        <4>1. PPB * (c + 1) <= PPB * b /\ PPB * (c + 1) = PPB * c + PPB /\ PPB * b = b * PPB /\ PPB * c \in Nat
          BY <1>2, <2>2, <3>2, Products
        <4> QED
          BY <1>2, <2>1, <2>2, <3>2, <4>1
      <3>3. CASE b < c
        <4>1. PPB * (b + 1) <= PPB * c /\ PPB * (b + 1) = PPB * b + PPB /\ PPB * b = b * PPB /\ PPB * c \in Nat
          BY <1>2, <2>2, <3>3, Products
        <4> QED
          BY <1>2, <2>1, <2>2, <3>3, <4>1
      <3> QED
        BY <1>2, <2>2, <3>1, <3>2, <3>3
    <2>4. There(v, y) <=> p \in v.blk[c].has
      BY DEF There, c, p
    <2>5. There(g, y) <=> p \in w.blk[c].has
      BY <2>1 DEF There, SameHas, c, p
    <2> HIDE DEF a, z
    <2>6. CASE c = b
      BY <1>1, <1>2, <2>1, <2>3, <2>4, <2>5, <2>6
    <2>7. CASE c # b
      BY <1>1, <2>1, <2>3, <2>4, <2>5, <2>7
    <2> QED
      BY <2>6, <2>7
  <1> HIDE DEF a, z
  <1> QED
    BY <1>1, <1>4, <1>5 DEF Gains

\* An iterator that makes or maps the block it comes to.
LEMMA IteratorMaps ==
  ASSUME CountersFit, IInv, Within, NEW id \in Ids, iterator_at(id)
  PROVE  Maps
  <1> DEFINE s == SegOf(id)
             b == BlkOf(OffOf(id))
             m == modify_segment(s)
             g == modify_block(m, b)
             d == Segment_map_block(g, b)
  <1>1. /\ ~walk.on /\ HasPlace(id) /\ UNCHANGED lockVars
        /\ seg' = [seg EXCEPT ![s] = g] \/ seg' = [seg EXCEPT ![s] = d]
    BY DEF iterator_at
  <1>2. /\ s \in Segs /\ b \in Blocks /\ b < m.cnt /\ Tidy(m, s, meta[s], Max) /\ SegInv(m) /\ Snug(m) /\ m.cnt # 0
        /\ SegInv(seg[s]) /\ SameHas(m, seg[s])
    BY <1>1, PlaceIsSnug
  <1> HIDE DEF m, s, b
  <1> DEFINE n == modify_block(m, b).blk[b].n
             e == Segment_map_block(m, b)
             k == modify_block(g, b).blk[b].n
  <1>3. /\ Tidy(g, s, meta[s], Max) /\ SameHas(g, m) /\ g.cnt = m.cnt
        /\ BlockAdded(e, m, b, n)
    BY <1>2, BlockOfPlace
  <1>4. Snug(g)
    <2> HIDE DEF e, n
    <2>1. n = modify_block(m, b).blk[b].n
      BY DEF n
    <2> QED
      BY <1>2, <1>3, <2>1, BlocksAreSnug DEF g
  <1> HIDE DEF g, e, n
  <1>5. SegInv(g) /\ b < g.cnt /\ SameHas(g, seg[s]) /\ g.cnt # 0
    BY <1>2, <1>3 DEF Tidy, SameHas
  <1>6. BlockAdded(d, g, b, k)
    BY <1>2, <1>3, <1>5, BlockOfPlace
  <1>7. k = modify_block(g, b).blk[b].n
    OBVIOUS
  <1> HIDE DEF d, k
  <1>8. Snug(d)
    BY <1>2, <1>4, <1>5, <1>6, <1>7, BlocksAreSnug
  <1>9. CASE seg' = [seg EXCEPT ![s] = g]
    <2>1. Gains(g, seg[s], 0, 0)
      BY <1>2, <1>4, <1>5, SameGains
    <2> QED
      BY <1>1, <1>2, <1>9, <2>1, GainStores DEF Maps
  <1>10. CASE seg' = [seg EXCEPT ![s] = d]
    <2>1. PICK a, z : Gains(d, seg[s], a, z)
      BY <1>2, <1>5, <1>6, <1>8, BlockGains
    <2> QED
      BY <1>1, <1>2, <1>10, <2>1, GainStores DEF Maps
  <1> QED
    BY <1>1, <1>9, <1>10

\* Reading a piece that has to be mapped.
LEMMA GetPieceMaps ==
  ASSUME CountersFit, IInv, Within, NEW id \in Ids, get_piece(id)
  PROVE  Maps
  <1> DEFINE s == SegOf(id)
             b == BlkOf(OffOf(id))
             m == modify_segment(s)
             d == Segment_map_block(m, b)
             n == modify_block(m, b).blk[b].n
  <1>1. /\ ~walk.on /\ HasPlace(id) /\ UNCHANGED lockVars /\ seg' = [seg EXCEPT ![s] = d]
    BY DEF get_piece
  <1>2. /\ s \in Segs /\ b \in Blocks /\ b < m.cnt /\ Tidy(m, s, meta[s], Max) /\ SegInv(m) /\ Snug(m) /\ m.cnt # 0
        /\ SegInv(seg[s]) /\ SameHas(m, seg[s])
    BY <1>1, PlaceIsSnug
  <1> HIDE DEF m, s, b
  <1>3. BlockAdded(d, m, b, n)
    BY <1>2, BlockOfPlace
  <1>4. n = modify_block(m, b).blk[b].n
    OBVIOUS
  <1> HIDE DEF d, n
  <1>5. Snug(d)
    BY <1>2, <1>3, <1>4, BlocksAreSnug
  <1>6. PICK a, z : Gains(d, seg[s], a, z)
    BY <1>2, <1>3, <1>5, BlockGains
  <1> QED
    BY <1>1, <1>2, <1>6, GainStores DEF Maps

\* A piece that arrives.
LEMMA SetPieceMaps ==
  ASSUME CountersFit, IInv, Within, NEW id \in Ids, set_piece(id)
  PROVE  Maps
  <1> DEFINE s == SegOf(id)
             o == OffOf(id)
             m == modify_segment(s)
             v == Segment_set_piece(m, o)
  <1>1. ~walk.on /\ HasPlace(id) /\ id \notin InMemory /\ seg' = [seg EXCEPT ![s] = v] /\ UNCHANGED lockVars
    BY DEF set_piece
  <1>2. /\ s \in Segs /\ o \in 0 .. SegPos - 1 /\ BlkOf(o) \in Blocks /\ BlkOf(o) < m.cnt /\ Placed(m, o)
        /\ SegInv(m) /\ Snug(m) /\ m.cnt # 0 /\ SegInv(seg[s]) /\ SameHas(m, seg[s])
    BY <1>1, PlaceIsSnug
  <1>3. PieceAdded(v, m, BlkOf(o), PieOf(o))
    BY <1>1, PieceArrives DEF Arrived
  <1> HIDE DEF s, o, m, v
  <1> DEFINE b == BlkOf(o)
             p == PieOf(o)
             n == modify_block(m, b).blk[b].n
  <1>4. /\ v.cnt = m.cnt /\ v.blk[b].has = m.blk[b].has \union {p} /\ v.blk[b].n = n
        /\ \A c \in Blocks \ {b} : v.blk[c] = m.blk[c]
    BY <1>3 DEF PieceAdded
  <1>5. b \in Blocks /\ b < m.cnt /\ p < n /\ p \in 0 .. PPB - 1 /\ p \in Nat
    BY <1>2, OffsetFacts, Constants DEF Placed
  <1>6. n = IF m.blk[b].n # 0 THEN m.blk[b].n ELSE IF b < m.cnt - 1 THEN PPB ELSE m.last
    BY <1>2, <1>5, MadeSize
  <1> HIDE DEF n, b, p
  <1>7. \A c \in Blocks : m.blk[c].has \subseteq 0 .. m.blk[c].n - 1 /\ (c >= m.cnt => m.blk[c].has = {})
    BY <1>2 DEF Snug
  <1>8. n \in Nat /\ m.cnt \in Nat /\ b \in Nat
    BY <1>2, <1>5, <1>6, SegmentFacts, Constants DEF Blocks
  <1>9. Snug(v)
    <2>1. m.blk[b].n # 0 => n = m.blk[b].n
      BY <1>6
    <2>2. m.blk[b].n = 0 => m.blk[b].has = {}
      BY <1>5, <1>7
    <2>3. v.blk[b].has \subseteq 0 .. v.blk[b].n - 1
      BY <1>4, <1>5, <1>7, <1>8, <2>1, <2>2
    <2>4. ~(b >= m.cnt)
      BY <1>5, <1>8
    <2> QED
      BY <1>4, <1>7, <2>3, <2>4 DEF Snug
  <1>10. ASSUME NEW y \in 0 .. SegPos - 1
         PROVE  There(v, y) <=> There(seg[s], y) \/ (o <= y /\ y < o + 1)
    <2>1. BlkOf(y) \in Blocks /\ PieOf(y) \in 0 .. PPB - 1 /\ y \in Nat /\ o \in Nat
      BY <1>2, OffsetFacts, Constants
    <2>2. (BlkOf(y) = b /\ PieOf(y) = p) <=> y = o
      <3>1. /\ o <= y <=> BlkOf(o) < BlkOf(y) \/ (BlkOf(o) = BlkOf(y) /\ PieOf(o) <= PieOf(y))
            /\ y <= o <=> BlkOf(y) < BlkOf(o) \/ (BlkOf(y) = BlkOf(o) /\ PieOf(y) <= PieOf(o))
        BY <1>2, OffsetOrder
      <3>2. p <= p
        BY <1>5
      <3> QED
        BY <2>1, <3>1, <3>2 DEF b, p
    <2>3. There(v, y) <=> PieOf(y) \in v.blk[BlkOf(y)].has
      BY DEF There
    <2>4. There(seg[s], y) <=> PieOf(y) \in m.blk[BlkOf(y)].has
      BY <1>2, <2>1 DEF There, SameHas
    <2>5. There(v, y) <=> There(seg[s], y) \/ (BlkOf(y) = b /\ PieOf(y) = p)
      BY <1>4, <2>1, <2>3, <2>4
    <2>6. y = o <=> o <= y /\ y < o + 1
      BY <2>1
    <2> QED
      BY <2>2, <2>5, <2>6
  <1>11. o \in 0 .. SegPos /\ o + 1 \in 0 .. SegPos /\ o <= o + 1
    BY <1>2, Constants
  <1>12. Gains(v, seg[s], o, o + 1)
    BY <1>2, <1>4, <1>9, <1>10, <1>11 DEF Gains
  <1> QED
    BY <1>1, <1>2, <1>12, GainStores DEF Maps

\* The size of a segment comes after its pieces.
LEMMA SegmentMetaMaps ==
  ASSUME CountersFit, LongSegments, IInv, Within, NEW id \in Ids, NEW size \in LateSizes,
         set_segment_meta(id, size)
  PROVE  Maps
  <1> DEFINE s == SegOf(id)
             v == Segment_set_size(seg[s], size)
  <1>1. /\ ~walk.on /\ meta[s] = 0 /\ UNCHANGED lockVars
        /\ seg' = IF seg[s].cnt = 0 THEN seg ELSE [seg EXCEPT ![s] = v]
    BY DEF set_segment_meta
  <1>2. s \in Segs /\ size \in 1 .. SegPos /\ 2 * PPB <= size
    BY PlaceFacts, SizeAssumption DEF LongSegments
  <1> HIDE DEF s
  <1>3. Tidy(seg[s], s, 0, Max) /\ SegInv(seg[s]) /\ Blank(seg[s]) /\ Snug(seg[s])
    BY <1>1, <1>2, TidySegments DEF Tidy, Within
  <1>4. CASE seg[s].cnt = 0
    <2>1. UNCHANGED <<seg, lockVars>>
      BY <1>1, <1>4
    <2> QED
      BY <2>1, StoreStays DEF Maps
  <1>5. CASE seg[s].cnt # 0
    <2>1. SameHas(v, seg[s]) /\ v.cnt # 0
      BY <1>2, <1>3, SizeOfPlace
    <2>2. Snug(v)
      BY <1>2, <1>3, <1>5, SetSizeIsSnug
    <2> HIDE DEF v
    <2>3. Gains(v, seg[s], 0, 0)
      BY <1>3, <2>1, <2>2, SameGains
    <2>4. seg' = [seg EXCEPT ![s] = v]
      BY <1>1, <1>5
    <2> QED
      BY <1>1, <1>2, <2>3, <2>4, GainStores DEF Maps
  <1> QED
    BY <1>4, <1>5

\* What is neither a piece nor a lock.
LEMMA OthersMap ==
  ASSUME Within,
         \/ \E sizes \in Segments : set_segments(sizes)
         \/ \E n \in 1 .. SegCount : set_meta(n)
         \/ \E id \in Ids : seek(id)
         \/ \E s \in Segs, v \in BOOLEAN : set_segment_status(s, v)
  PROVE  Maps
  <1>1. UNCHANGED <<seg, lockVars>>
    BY DEF set_segments, set_meta, seek, set_segment_status
  <1> QED
    BY <1>1, StoreStays DEF Maps

\* The locks themselves are those of RangeLock.
LEMMA LocksMap ==
  ASSUME Within,
         \/ \E l \in Lock, r \in LockRange : alloc_lock(l, r) \/ modify_lock(l, r)
         \/ \E l \in Lock : release_lock(l) \/ SkipLock(l) \/ CoverHead(l)
  PROVE  Maps
  <1>1. Within'
    <2>1. UNCHANGED seg
      BY DEF alloc_lock, modify_lock, release_lock, SkipLock, CoverHead, storeVars
    <2> QED
      BY <2>1 DEF Within
  <1>2. LockRange \subseteq Locks!Ranges
    BY SizeAssumption, LockTypes
  <1>3. CASE \E l \in Lock, r \in LockRange : alloc_lock(l, r) \/ modify_lock(l, r)
    <2>1. \E l \in Lock, r \in Locks!Ranges : Locks!alloc_lock(l, r) \/ Locks!modify_lock(l, r)
      BY <1>2, <1>3 DEF alloc_lock, modify_lock
    <2> QED
      BY <1>1, <2>1 DEF Maps, Locks!LocksNext
  <1>4. CASE \E l \in Lock : release_lock(l) \/ SkipLock(l) \/ CoverHead(l)
    <2>1. \E l \in Lock : Locks!release_lock(l) \/ Locks!SkipLock(l) \/ Locks!CoverHead(l)
      BY <1>4 DEF release_lock, SkipLock, CoverHead
    <2> QED
      BY <1>1, <2>1 DEF Maps, Locks!LocksNext, Locks!Loop
  <1> QED
    BY <1>3, <1>4

\* A release takes the pieces of its interval out of memory, all of them and no other.
LEMMA ReleaseMaps ==
  ASSUME CountersFit, IInv, Within, NEW f \in 0 .. Max, NEW t \in 0 .. Max, f < t,
         \A s \in Segs : Room(seg[s], s, f), seg' = release(seg, f, t)
  PROVE  Within' /\ Locks!release(f, t)
  <1> DEFINE V(s) == SegAfter(seg[s], s, f, t)
  <1>1. \A s \in Segs : SegInv(seg[s]) /\ Snug(seg[s])
    BY LockFacts DEF Within
  <1>2. \A s \in Segs : Shrunk(V(s), seg[s])
    BY <1>1, SegmentShrunk
  <1>3. \A s \in Segs : seg'[s] = V(s)
    BY ReleaseAfter
  <1> HIDE DEF V
  <1>4. ASSUME NEW s \in Segs PROVE Snug(seg'[s])
    <2>1. Shrunk(V(s), seg[s]) /\ SegInv(seg[s]) /\ Snug(seg[s])
      BY <1>1, <1>2
    <2>2. \A b \in Blocks : V(s).blk[b].n = 0 => V(s).blk[b] = NoBlock
      BY <2>1, SegmentFacts DEF Shrunk, SegInv, BlockInv
    <2>3. NoBlock.has = {}
      BY NoBlockFacts
    <2>4. ASSUME NEW b \in Blocks PROVE V(s).blk[b].has \subseteq 0 .. V(s).blk[b].n - 1
      BY <2>1, <2>2, <2>3 DEF Shrunk, Snug
    <2>5. ASSUME NEW b \in Blocks, b >= V(s).cnt PROVE V(s).blk[b].has = {}
      <3>1. CASE V(s) = NoSeg
        BY <2>3, <3>1, NoSegFacts
      <3>2. CASE V(s).cnt = seg[s].cnt
        BY <2>1, <2>5, <3>2 DEF Shrunk, Snug
      <3> QED
        BY <2>1, <3>1, <3>2 DEF Shrunk
    <2>6. Snug(V(s))
      BY <2>4, <2>5 DEF Snug
    <2> QED
      BY <1>3, <2>6
  <1>5. Within'
    BY <1>4 DEF Within
  <1>6. \A x \in Ids : HasPiece(seg', x) <=> HasPiece(seg, x) /\ ~(f <= x /\ x < t)
    BY <1>1, ReleaseIsExact
  <1>7. InMemory' = InMemory \ Locks!Interval(f, t)
    <2>1. InMemory = {x \in Ids : HasPiece(seg, x)}
      BY DEF InMemory, HasPiece, There
    <2>2. InMemory' = {x \in Ids : HasPiece(seg', x)}
      BY DEF InMemory, HasPiece, There
    <2>3. Locks!Interval(f, t) = {x \in 0 .. Max : f <= x /\ x < t} /\ Ids \subseteq 0 .. Max
      BY LockTypes, Constants DEF Locks!Interval, Ids
    <2> QED
      BY <1>6, <2>1, <2>2, <2>3
  <1> QED
    BY <1>5, <1>7 DEF Locks!release

\* The release of a gap is that of RangeLock.
LEMMA GapMaps ==
  ASSUME CountersFit, IInv, Within, NEW l \in Lock, ReleaseGap(l)
  PROVE  Maps
  <1>1. /\ Locks!NextLock(l) /\ walk.on /\ walk.from < range[l].from /\ range[l].from < walk.to
        /\ seg' = release(seg, walk.from, range[l].from)
        /\ IF range[l].to < walk.to THEN Locks!Advance(l, range[l].to) ELSE Locks!Return
        /\ UNCHANGED <<held, range>>
    BY DEF ReleaseGap, Locks!NextLock
  <1>2. walk.from \in 0 .. Max /\ range[l].from \in 0 .. Max /\ \A s \in Segs : Room(seg[s], s, walk.from)
    BY <1>1, LockFacts DEF Mark
  <1>3. Within' /\ Locks!release(walk.from, range[l].from)
    BY <1>1, <1>2, ReleaseMaps
  <1>4. Locks!ReleaseGap(l)
    BY <1>1, <1>3 DEF Locks!ReleaseGap
  <1> QED
    BY <1>3, <1>4 DEF Maps, Locks!LocksNext, Locks!Loop

\* The release of the rest is that of RangeLock.
LEMMA RestMaps ==
  ASSUME CountersFit, IInv, Within, ReleaseRest
  PROVE  Maps
  <1>1. /\ walk.on
        /\ \/ walk.todo = {}
           \/ \E l \in Lock : Locks!NextLock(l) /\ walk.from < range[l].from /\ walk.to <= range[l].from
        /\ seg' = release(seg, walk.from, walk.to) /\ Locks!Return
        /\ UNCHANGED <<held, range>>
    BY DEF ReleaseRest
  <1>2. /\ walk.from \in 0 .. Max /\ walk.to \in 0 .. Max /\ walk.from < walk.to
        /\ \A s \in Segs : Room(seg[s], s, walk.from)
    BY <1>1, LockFacts DEF Mark, LocksGood
  <1>3. Within' /\ Locks!release(walk.from, walk.to)
    BY <1>1, <1>2, ReleaseMaps
  <1>4. Locks!ReleaseRest
    BY <1>1, <1>3 DEF Locks!ReleaseRest
  <1> QED
    BY <1>3, <1>4 DEF Maps, Locks!LocksNext, Locks!Loop

\* At the beginning nothing is in memory.
LEMMA InitMaps ==
  ASSUME Init
  PROVE  Within /\ Locks!LocksInit
  <1>1. seg = [s \in Segs |-> NoSeg] /\ held = {} /\ range = [l \in Lock |-> Locks!NoRange] /\ walk = Locks!Idle
    BY DEF Init
  <1>2. NoSeg.cnt = 0 /\ \A b \in Blocks : NoSeg.blk[b].has = {}
    BY NoSegFacts, NoBlockFacts
  <1>3. Within
    BY <1>1, <1>2 DEF Within, Snug
  <1>4. InMemory = {}
    BY <1>1, <1>2, PlaceFacts DEF InMemory
  <1> QED
    BY <1>1, <1>3, <1>4 DEF Locks!LocksInit

\* Every step is one of RangeLock, or none.
LEMMA NextMaps ==
  ASSUME CountersFit, LongSegments, IInv, Within, [Next]_vars
  PROVE  Maps
  <1>1. CASE \E id \in Ids : \/ \E size \in LateSizes : set_segment_meta(id, size)
                             \/ set_piece(id) \/ iterator_at(id) \/ get_piece(id)
    BY <1>1, SegmentMetaMaps, SetPieceMaps, IteratorMaps, GetPieceMaps
  <1>2. CASE \E s \in Segs : prepare_segment(s)
    BY <1>2, PrepareMaps
  <1>3. CASE \/ \E sizes \in Segments : set_segments(sizes)
             \/ \E n \in 1 .. SegCount : set_meta(n)
             \/ \E id \in Ids : seek(id)
             \/ \E s \in Segs, v \in BOOLEAN : set_segment_status(s, v)
    BY <1>3, OthersMap
  <1>4. CASE \/ \E l \in Lock, r \in LockRange : alloc_lock(l, r) \/ modify_lock(l, r)
             \/ \E l \in Lock : release_lock(l) \/ SkipLock(l) \/ CoverHead(l)
    BY <1>4, LocksMap
  <1>5. CASE \E l \in Lock : ReleaseGap(l)
    BY <1>5, GapMaps
  <1>6. CASE ReleaseRest
    BY <1>6, RestMaps
  <1>7. CASE UNCHANGED vars
    <2>1. UNCHANGED <<seg, lockVars>>
      BY <1>7 DEF vars, storeVars
    <2> QED
      BY <2>1, StoreStays DEF Maps
  <1> QED
    BY <1>1, <1>2, <1>3, <1>4, <1>5, <1>6, <1>7 DEF Next

\* The store of segments, blocks and pieces is the flat store of RangeLock: a release takes
\* out of memory exactly the interval remove_lock calls it with (ResourceData::release,
\* Segment::release, Block::release), and no other operation takes out anything.
THEOREM ResourceDataImplementsRangeLock ==
  ASSUME CountersFit, LongSegments
  PROVE  Spec => ImplementsRangeLock
  <1>1. Init => Within /\ Locks!LocksInit
    BY InitMaps
  <1>2. IInv /\ Within /\ [Next]_vars => Within' /\ [Locks!LocksNext]_(Locks!lockVars)
    BY NextMaps DEF Maps
  <1> QED
    BY <1>1, <1>2, Invariant, PTL DEF Spec, ImplementsRangeLock, Locks!LocksSpec
=============================================================================
