--------------------------- MODULE Storage_proof ---------------------------
(***************************************************************************)
(* Proofs about the two parts that keep what has been downloaded: the      *)
(* range locks of RangeLock, for every set of locks and every MaxPos, and  *)
(* the entries and the worker of DiskCache, for every number of segments,  *)
(* blocks and entries.  They share no state: each has its own theorems.    *)
(***************************************************************************)
EXTENDS DiskCache, RangeLock, FiniteSetTheorems, TLAPS

-----------------------------------------------------------------------------
(* RangeLock: type correctness and the invariant of the walk *)

\* Positions, ranges and the idle walk have the types the proofs below use.
LEMMA PosFacts ==
  /\ \A r \in Ranges : r.from \in Nat /\ r.to \in Nat /\ r.from \in Pos /\ r.to \in Pos /\ r.from <= r.to
  /\ \A x \in Pos : x \in Nat
  /\ 0 \in Pos
  /\ Idle \in Walk
  /\ NoRange \in Ranges
  BY MaxPosAssumption, SMT DEF Ranges, Pos, Idle, Walk, NoRange

\* The invariant holds before any operation.
LEMMA LocksInitInv == LocksInit => LocksInv
  <1> SUFFICES ASSUME LocksInit PROVE LocksInv
    OBVIOUS
  <1> QED
    BY PosFacts DEF LocksInit, LocksInv, LocksTypeOK, WalkInv, Idle

\* remove_lock starts a walk that satisfies its invariant.
LEMMA RemoveLockInv ==
  ASSUME NEW o \in Ranges, NEW S \in SUBSET Lock, remove_lock(o, S), held' = S,
         range' \in [Lock -> Ranges]
  PROVE  walk' \in Walk /\ WalkInv'
  <1>1. CASE o.from = o.to
    BY <1>1, PosFacts DEF remove_lock, WalkInv, Idle
  <1>2. CASE o.from # o.to
    BY <1>2, PosFacts DEF remove_lock, WalkInv, Walk
  <1> QED
    BY <1>1, <1>2

\* An iteration of the loop of remove_lock keeps the invariant, does not touch the
\* locks and only takes data out of the store.
LEMMA LoopInv ==
  ASSUME LocksInv, Loop
  PROVE  LocksInv' /\ UNCHANGED <<held, range>> /\ stored' \subseteq stored
  <1> USE DEF LocksInv, LocksTypeOK
  <1>1. CASE ReleaseRest
    BY <1>1, PosFacts DEF ReleaseRest, release, Return, WalkInv, Idle
  <1>2. ASSUME NEW l \in Lock, SkipLock(l)
        PROVE  LocksInv' /\ UNCHANGED <<held, range>> /\ stored' \subseteq stored
    <2> range[l] \in Ranges /\ walk.from \in Pos
      BY DEF Walk
    <2>1. walk' = [on |-> TRUE, from |-> walk.from, to |-> walk.to, todo |-> walk.todo \ {l}]
      BY <1>2 DEF SkipLock, Advance
    <2>2. walk' \in Walk
      BY <2>1 DEF Walk
    <2>3. WalkInv'
      BY <1>2, <2>1, PosFacts DEF SkipLock, NextLock, WalkInv, Walk
    <2> QED
      BY <1>2, <2>2, <2>3 DEF SkipLock
  <1>3. ASSUME NEW l \in Lock, CoverHead(l) \/ ReleaseGap(l)
        PROVE  LocksInv' /\ UNCHANGED <<held, range>> /\ stored' \subseteq stored
    <2>1. range[l] \in Ranges /\ UNCHANGED <<held, range>> /\ stored' \subseteq stored
      BY <1>3 DEF CoverHead, ReleaseGap, release
    <2>2. CASE range[l].to < walk.to
      <3>1. walk' = [on |-> TRUE, from |-> range[l].to, to |-> walk.to, todo |-> walk.todo \ {l}]
        BY <1>3, <2>2 DEF CoverHead, ReleaseGap, Advance
      <3>2. walk' \in Walk
        BY <2>1, <3>1, PosFacts DEF Walk
      <3>3. walk.from <= range[l].to
        BY <1>3, <2>1, PosFacts DEF CoverHead, ReleaseGap, Walk
      <3>4. WalkInv'
        BY <1>3, <2>1, <2>2, <3>1, <3>3, PosFacts
        DEF CoverHead, ReleaseGap, NextLock, WalkInv, Walk
      <3> QED
        BY <2>1, <3>2, <3>4
    <2>3. CASE ~(range[l].to < walk.to)
      <3>1. walk' = Idle
        BY <1>3, <2>3 DEF CoverHead, ReleaseGap, Return
      <3> QED
        BY <2>1, <3>1, PosFacts DEF WalkInv, Idle
    <2> QED
      BY <2>2, <2>3
  <1> QED
    BY <1>1, <1>2, <1>3 DEF Loop

\* The invariant is inductive: one step per operation of RangeLock.
LEMMA LocksNextInv == LocksInv /\ [LocksNext]_lockVars => LocksInv'
  <1> SUFFICES ASSUME LocksInv, [LocksNext]_lockVars PROVE LocksInv'
    OBVIOUS
  <1>1. ASSUME NEW r \in Ranges, Store(r) PROVE LocksInv'
    BY <1>1 DEF Store, Interval, LocksInv, LocksTypeOK, WalkInv
  <1>2. ASSUME NEW l \in Lock, NEW r \in Ranges, alloc_lock(l, r) PROVE LocksInv'
    BY <1>2 DEF alloc_lock, LocksInv, LocksTypeOK, WalkInv
  <1>3. ASSUME NEW l \in Lock, NEW r \in Ranges, modify_lock(l, r) PROVE LocksInv'
    <2>1. range[l] \in Ranges /\ range' \in [Lock -> Ranges] /\ held' = held /\ stored' = stored
      BY <1>3 DEF modify_lock, LocksInv, LocksTypeOK
    <2>2. walk' \in Walk /\ WalkInv'
      BY <1>3, <2>1, RemoveLockInv DEF modify_lock, LocksInv, LocksTypeOK
    <2> QED
      BY <2>1, <2>2 DEF LocksInv, LocksTypeOK
  <1>4. ASSUME NEW l \in Lock, release_lock(l) PROVE LocksInv'
    <2>1. /\ range[l] \in Ranges /\ range' \in [Lock -> Ranges]
          /\ held' = held \ {l} /\ stored' = stored
      BY <1>4, PosFacts DEF release_lock, LocksInv, LocksTypeOK
    <2>2. walk' \in Walk /\ WalkInv'
      <3> HIDE DEF WalkInv
      <3>1. remove_lock(range[l], held \ {l}) /\ held \ {l} \in SUBSET Lock
        BY <1>4, <2>1 DEF release_lock, LocksInv, LocksTypeOK
      <3> QED
        BY <2>1, <3>1, RemoveLockInv
    <2> QED
      BY <2>1, <2>2 DEF LocksInv, LocksTypeOK
  <1>5. CASE Loop
    BY <1>5, LoopInv
  <1>6. CASE UNCHANGED lockVars
    BY <1>6 DEF lockVars, LocksInv, LocksTypeOK, WalkInv
  <1> QED
    BY <1>1, <1>2, <1>3, <1>4, <1>5, <1>6 DEF LocksNext

\* In every reachable state the variables have their types and the walk its
\* invariant: the locks remove_lock has passed cover nothing of what is left.
THEOREM WalkCorrect == LocksSpec => []LocksInv
  BY LocksInitInv, LocksNextInv, PTL DEF LocksSpec

-----------------------------------------------------------------------------
(* RangeLock: what the walk releases *)

\* A step of the loop takes out of the store only what was pending, and exactly
\* what is pending no longer.
LEMMA LoopReleases ==
  ASSUME LocksInv, Loop
  PROVE  /\ UNCHANGED <<held, range>>
         /\ Pending' \subseteq Pending
         /\ stored' = stored \ (Pending \ Pending')
  <1> USE DEF LocksInv, LocksTypeOK
  <1>0. walk \in Walk /\ walk.from \in Pos /\ walk.to \in Pos /\ held \subseteq Lock
    BY DEF Walk
  <1>1. CASE ReleaseRest
    <2>1. \A k \in held : range[k].to <= walk.from \/ walk.to <= range[k].from
      BY <1>0, <1>1, PosFacts DEF ReleaseRest, NextLock, WalkInv
    <2>2. Pending = Interval(walk.from, walk.to)
      BY <1>0, <1>1, <2>1, PosFacts DEF ReleaseRest, Pending, CoveredBy, Interval
    <2>3. Pending' = {} /\ stored' = stored \ Interval(walk.from, walk.to)
      BY <1>1 DEF ReleaseRest, Return, Idle, Pending, release
    <2> QED
      BY <1>1, <2>2, <2>3 DEF ReleaseRest
  <1>2. ASSUME NEW l \in Lock, SkipLock(l)
        PROVE  Pending' = Pending /\ stored' = stored /\ UNCHANGED <<held, range>>
    BY <1>2 DEF SkipLock, NextLock, Advance, Pending, Interval, CoveredBy
  <1>3. ASSUME NEW l \in Lock, CoverHead(l)
        PROVE  Pending' = Pending /\ stored' = stored /\ UNCHANGED <<held, range>>
    <2>1. range[l] \in Ranges /\ l \in held /\ stored' = stored /\ UNCHANGED <<held, range>>
      BY <1>3 DEF CoverHead, NextLock, WalkInv
    <2>2. CASE range[l].to < walk.to
      <3>1. walk' = [on |-> TRUE, from |-> range[l].to, to |-> walk.to, todo |-> walk.todo \ {l}]
        BY <1>3, <2>2 DEF CoverHead, Advance
      <3>2. \A x \in Pos : x \in Pending' <=> x \in Pending
        BY <1>0, <1>3, <2>1, <3>1, PosFacts DEF CoverHead, NextLock, Pending, Interval, CoveredBy
      <3> QED
        BY <2>1, <3>2 DEF Pending, Interval
    <2>3. CASE ~(range[l].to < walk.to)
      <3>1. Pending' = {}
        BY <1>3, <2>3 DEF CoverHead, Return, Idle, Pending
      <3>2. Pending = {}
        BY <1>0, <1>3, <2>1, <2>3, PosFacts DEF CoverHead, NextLock, Pending, Interval, CoveredBy
      <3> QED
        BY <2>1, <3>1, <3>2
    <2> QED
      BY <2>2, <2>3
  <1>4. ASSUME NEW l \in Lock, ReleaseGap(l)
        PROVE  /\ UNCHANGED <<held, range>>
               /\ Pending' \subseteq Pending
               /\ stored' = stored \ (Pending \ Pending')
    <2>1. /\ range[l] \in Ranges /\ l \in held /\ walk.on /\ UNCHANGED <<held, range>>
          /\ walk.from < range[l].from /\ range[l].from < walk.to
      BY <1>4 DEF ReleaseGap, NextLock, WalkInv
    <2>2. stored' = stored \ Interval(walk.from, range[l].from)
      BY <1>4 DEF ReleaseGap, release
    <2>3. \A k \in held : range[k].to <= walk.from \/ range[l].from <= range[k].from
      BY <1>0, <1>4, <2>1, PosFacts DEF ReleaseGap, NextLock, WalkInv
    <2>4. \A x \in Pos : x \in Interval(walk.from, range[l].from) => x \in Pending
      BY <1>0, <2>1, <2>3, PosFacts DEF Pending, Interval, CoveredBy
    <2>5. \A x \in Pos : x \in Pending' <=> x \in Pending /\ range[l].from <= x
      <3>1. CASE range[l].to < walk.to
        <4>1. walk' = [on |-> TRUE, from |-> range[l].to, to |-> walk.to, todo |-> walk.todo \ {l}]
          BY <1>4, <3>1 DEF ReleaseGap, Advance
        <4> QED
          BY <1>0, <2>1, <4>1, PosFacts DEF Pending, Interval, CoveredBy
      <3>2. CASE ~(range[l].to < walk.to)
        <4>1. Pending' = {}
          BY <1>4, <3>2 DEF ReleaseGap, Return, Idle, Pending
        <4>2. \A x \in Pos : ~(x \in Pending /\ range[l].from <= x)
          BY <1>0, <2>1, <3>2, PosFacts DEF Pending, Interval, CoveredBy
        <4> QED
          BY <4>1, <4>2
      <3> QED
        BY <3>1, <3>2
    <2>6. Pending \ Pending' = Interval(walk.from, range[l].from)
      <3>1. Pending \subseteq Pos /\ Pending' \subseteq Pos /\ Interval(walk.from, range[l].from) \subseteq Pos
        BY DEF Pending, Interval
      <3>2. \A x \in Pos : x \in Pending => walk.from <= x
        BY DEF Pending, Interval
      <3>3. \A x \in Pos : x \in Pending \ Pending' <=> x \in Interval(walk.from, range[l].from)
        BY <1>0, <2>1, <2>4, <2>5, <3>2, PosFacts DEF Interval
      <3> QED
        BY <3>1, <3>3
    <2>7. Pending' \subseteq Pending
      <3>1. Pending' \subseteq Pos
        BY DEF Pending, Interval
      <3> QED
        BY <2>5, <3>1
    <2> QED
      BY <2>1, <2>2, <2>6, <2>7
  <1> QED
    BY <1>1, <1>2, <1>3, <1>4 DEF Loop

\* Every step keeps the data that a lock covers before and after it.
LEMMA StepKeepsLockedData ==
  ASSUME LocksInv, [LocksNext]_lockVars,
         NEW x \in stored, x \in CoveredBy(held, range), x \in CoveredBy(held', range')
  PROVE  x \in stored'
  <1>1. CASE Loop
    <2>1. x \notin Pending
      BY DEF Pending
    <2> QED
      BY <1>1, <2>1, LoopReleases
  <1>2. CASE ~Loop
    BY <1>2 DEF LocksNext, Store, alloc_lock, modify_lock, release_lock, lockVars
  <1> QED
    BY <1>1, <1>2

\* A piece stays in memory as long as some lock covers it, whatever other locks
\* are moved or dropped (ResourceData::modify_lock, release_lock).
THEOREM LockedDataIsKept == LocksSpec => LockedDataStays
  <1>1. LocksInv /\ [LocksNext]_lockVars =>
          [\A x \in stored : x \in CoveredBy(held, range) /\ x \in CoveredBy(held', range')
             => x \in stored']_lockVars
    BY StepKeepsLockedData
  <1> QED
    BY LocksInitInv, LocksNextInv, <1>1, PTL DEF LocksSpec, LockedDataStays

-----------------------------------------------------------------------------
(* RangeLock: the walk implements the single-step store *)

\* The operators the two modules define alike are equal.
LEMMA SameOperators ==
  /\ Abs!Range = Ranges
  /\ Abs!Pos = Pos
  /\ Abs!NoRange = NoRange
  /\ \A f, t : Abs!Interval(f, t) = Interval(f, t)
  /\ \A S, rg : Abs!CoveredBy(S, rg) = CoveredBy(S, rg)
  BY DEF Abs!NoRange, NoRange, Abs!Range, Abs!Pos, Abs!Interval, Abs!CoveredBy, Ranges, Pos, Interval, CoveredBy

\* What is pending right after remove_lock(o, held') is the uncovered part of o.
LEMMA RemoveLockPending ==
  ASSUME NEW o \in Ranges, NEW S, remove_lock(o, S)
  PROVE  Pending' = Interval(o.from, o.to) \ CoveredBy(held', range')
  <1>1. CASE o.from = o.to
    <2>1. Interval(o.from, o.to) = {}
      BY <1>1, PosFacts DEF Interval
    <2> QED
      BY <1>1, <2>1 DEF remove_lock, Pending, Idle
  <1>2. CASE o.from # o.to
    BY <1>2 DEF remove_lock, Pending
  <1> QED
    BY <1>1, <1>2

\* An operation is the step of the abstract store of the same name, an iteration
\* of the walk a stutter.
LEMMA StepImplements ==
  ASSUME LocksInv, [LocksNext]_lockVars
  PROVE  [Abs!AbsNext]_(Abs!absVars)
  <1> DEFINE abs == stored \ Pending
  <1>1. ASSUME NEW r \in Ranges, Store(r) PROVE Abs!AbsStore(r)
    <2>1. Pending = {} /\ Pending' = {}
      BY <1>1 DEF Store, Pending
    <2> QED
      BY <1>1, <2>1, SameOperators DEF Store, Abs!AbsStore
  <1>2. ASSUME NEW l \in Lock, NEW r \in Ranges, alloc_lock(l, r) PROVE Abs!AbsAlloc(l, r)
    <2>1. Pending = {} /\ Pending' = {}
      BY <1>2 DEF alloc_lock, Pending
    <2> QED
      BY <1>2, <2>1 DEF alloc_lock, Abs!AbsAlloc
  <1>3. ASSUME NEW l \in Lock, NEW r \in Ranges, modify_lock(l, r) PROVE Abs!AbsModify(l, r)
    <2>1. Pending = {} /\ range[l] \in Ranges /\ held' = held /\ stored' = stored
      BY <1>3 DEF modify_lock, Pending, LocksInv, LocksTypeOK
    <2>2. Pending' = Interval(range[l].from, range[l].to) \ CoveredBy(held', range')
      BY <1>3, <2>1, RemoveLockPending DEF modify_lock
    <2> QED
      BY <1>3, <2>1, <2>2, SameOperators DEF modify_lock, Abs!AbsModify
  <1>4. ASSUME NEW l \in Lock, release_lock(l) PROVE Abs!AbsRelease(l)
    <2>1. Pending = {} /\ range[l] \in Ranges /\ stored' = stored
      BY <1>4 DEF release_lock, Pending, LocksInv, LocksTypeOK
    <2>2. Pending' = Interval(range[l].from, range[l].to) \ CoveredBy(held', range')
      BY <1>4, <2>1, RemoveLockPending DEF release_lock
    <2>3. CoveredBy(held', range') = CoveredBy(held', range)
      BY <1>4 DEF release_lock, CoveredBy, LocksInv, LocksTypeOK
    <2> QED
      BY <1>4, <2>1, <2>2, <2>3, SameOperators DEF release_lock, Abs!AbsRelease
  <1>5. CASE Loop
    <2>1. stored' \ Pending' = stored \ Pending
      BY <1>5, LoopReleases
    <2> QED
      BY <1>5, <2>1, LoopReleases DEF Abs!absVars
  <1>6. CASE UNCHANGED lockVars
    BY <1>6 DEF lockVars, Pending, Abs!absVars
  <1> QED
    BY <1>1, <1>2, <1>3, <1>4, <1>5, <1>6, SameOperators DEF LocksNext, Abs!AbsNext

\* The loop of remove_lock, with its five branches and early returns, releases
\* exactly the uncovered part of the old range: ResourceData's locks implement
\* the abstract store of LockedStore.
THEOREM RangeLockImplementsLockedStore == LocksSpec => ImplementsLockedStore
  <1>1. LocksInit => Abs!AbsInit
    BY SameOperators DEF LocksInit, Idle, Pending, Abs!AbsInit
  <1> QED
    BY <1>1, LocksInitInv, LocksNextInv, StepImplements, PTL DEF LocksSpec, ImplementsLockedStore, Abs!AbsSpec

-----------------------------------------------------------------------------
(* Entries, and the blocks they count *)

\* The pool never grows past Entry: the more is used, the less it grows.
LEMMA GrowthBound ==
  ASSUME NEW u \in 1 .. Total
  PROVE  Growth(u) \in Int /\ Growth(u) <= Growth(1)
  <1> DEFINE a == Total * (Total - u) * 2
             b == Total * (Total - 1) * 2
  <1>1. Total \in Nat /\ BPS \in Nat /\ BPS >= 1
    BY DiskAssumption
  <1>2. a \in Nat /\ b \in Nat /\ a <= b
    <2>1. Total - u \in Nat /\ Total - 1 \in Nat /\ Total - u <= Total - 1
      BY <1>1
    <2>2. \A x, y, z \in Nat : x <= y => z * x <= z * y /\ z * x \in Nat /\ z * y \in Nat
      BY SMT
    <2>3. Total * (Total - u) \in Nat /\ Total * (Total - 1) \in Nat /\ Total * (Total - u) <= Total * (Total - 1)
      BY <1>1, <2>1, <2>2
    <2> QED
      BY <2>3
  <1>3. \A x \in Nat : x \div u \in Nat /\ x \div u <= x
    BY SMT
  <1>4. \A x \in Nat : x \div 1 = x
    BY SMT
  <1>5. a \div u \in Nat /\ a \div u <= b \div 1 /\ b \div 1 \in Nat
    BY <1>2, <1>3, <1>4
  <1>6. \A x, y, z \in Nat : x <= y /\ z >= 1 => x \div z \in Nat /\ x \div z <= y \div z
    BY SMT
  <1>7. Growth(u) = (a \div u) \div BPS /\ Growth(1) = (b \div 1) \div BPS
    BY DEF Growth
  <1> HIDE DEF a, b
  <1> QED
    BY <1>1, <1>5, <1>6, <1>7

EntryType == [seg : 0 .. SegCount, load : BOOLEAN, data : {"NULL", "segment", "this"}, lock : BOOLEAN]

\* What the proofs below need to know of the constants.
LEMMA EntryFacts ==
  /\ Slots \in Nat /\ Entry \subseteq Nat \ {0} /\ IsFiniteSet(Entry) /\ 1 .. Slots \subseteq Entry
  /\ \A u \in 1 .. Total : Slots + 1 .. Slots + Growth(u) \subseteq Entry
  /\ Segment \subseteq 0 .. SegCount /\ 0 \notin Segment /\ Empty \in EntryType
  /\ \A s \in Segment : Blocks[s] \in Nat \ {0} /\ Blocks[s] <= BPS
  <1>1. Slots \in Nat /\ Total \in Nat /\ Total >= 1 /\ BPS \in Nat /\ SegCount \in Nat
    BY DiskAssumption
  <1>2. Growth(1) \in Int
    BY <1>1, GrowthBound
  <1>3. /\ Entry \subseteq Nat \ {0}
        /\ \A u \in 1 .. Total : Slots + 1 .. Slots + Growth(u) \subseteq Entry
    BY <1>1, <1>2, GrowthBound DEF Entry
  <1>4. IsFiniteSet(Entry)
    BY <1>1, <1>2, FS_Interval DEF Entry
  <1>5. Growth(1) >= 0
    <2>1. Total * (Total - 1) * 2 \in Nat
      <3>1. \A x, y \in Nat : x * y \in Nat
        BY SMT
      <3>2. Total - 1 \in Nat
        BY <1>1
      <3> QED
        BY <1>1, <3>1, <3>2
    <2>2. \A x \in Nat : \A z \in Nat : z >= 1 => x \div z \in Nat
      BY SMT
    <2>3. BPS >= 1
      BY DiskAssumption
    <2> DEFINE b == Total * (Total - 1) * 2
    <2>4. b \div 1 \in Nat
      BY <2>1, <2>2
    <2>5. Growth(1) = (b \div 1) \div BPS
      BY DEF Growth
    <2> HIDE DEF b
    <2> QED
      BY <1>1, <2>2, <2>3, <2>4, <2>5
  <1>6. 1 .. Slots \subseteq Entry
    BY <1>1, <1>2, <1>5 DEF Entry
  <1>7. /\ Segment \subseteq 0 .. SegCount /\ 0 \notin Segment /\ Empty \in EntryType
        /\ \A s \in Segment : Blocks[s] \in Nat \ {0} /\ Blocks[s] <= BPS
    BY <1>1, DiskAssumption DEF Segment, Empty, EntryType
  <1> QED
    BY <1>1, <1>3, <1>4, <1>6, <1>7

\* The blocks of an entry can be counted.
LEMMA BlocksFinite ==
  ASSUME NEW e
  PROVE  IsFiniteSet(BlocksOf(e)) /\ Cardinality(BlocksOf(e)) \in Nat
  <1>1. IsFiniteSet(1 .. BPS)
    BY DiskAssumption, FS_Interval
  <1>2. IsFiniteSet(Entry \X (1 .. BPS))
    BY <1>1, EntryFacts, FS_Product
  <1>3. BlocksOf(e) \subseteq Entry \X (1 .. BPS)
    BY DEF BlocksOf
  <1>4. IsFiniteSet(BlocksOf(e))
    BY <1>2, <1>3, FS_Subset
  <1> QED
    BY <1>4, FS_CardinalityType

\* An entry that comes into use adds the blocks of its segment.
LEMMA CountOneMore ==
  ASSUME NEW e \in [Entry -> EntryType], NEW f \in [Entry -> EntryType], NEW c \in Entry,
         c \notin InUse(e), InUse(f) = InUse(e) \union {c},
         \A d \in InUse(e) : f[d].seg = e[d].seg, f[c].seg \in Segment
  PROVE  Cardinality(BlocksOf(f)) = Cardinality(BlocksOf(e)) + Blocks[f[c].seg]
  <1> DEFINE n   == Blocks[f[c].seg]
             new == {c} \X (1 .. n)
  <1>1. n \in Nat /\ n <= BPS /\ BPS \in Nat
    BY EntryFacts, DiskAssumption
  <1>2. IsFiniteSet(new) /\ Cardinality(new) = n
    <2>1. IsFiniteSet(1 .. n) /\ Cardinality(1 .. n) = n
      BY <1>1, FS_Interval
    <2>2. IsFiniteSet({c}) /\ Cardinality({c}) = 1
      BY FS_Singleton
    <2> HIDE DEF n
    <2>3. IsFiniteSet(new) /\ Cardinality(new) = 1 * n
      BY <2>1, <2>2, FS_Product
    <2> QED
      BY <1>1, <2>3
  <1>3. BlocksOf(f) = BlocksOf(e) \union new
    <2>1. \A d \in Entry, b \in 1 .. BPS : <<d, b>> \in BlocksOf(f) <=> <<d, b>> \in BlocksOf(e) \union new
      BY <1>1 DEF BlocksOf
    <2>2. BlocksOf(f) \subseteq Entry \X (1 .. BPS) /\ BlocksOf(e) \subseteq Entry \X (1 .. BPS)
      BY DEF BlocksOf
    <2>3. new \subseteq Entry \X (1 .. BPS)
      BY <1>1
    <2> HIDE DEF new
    <2> QED
      BY <2>1, <2>2, <2>3
  <1>4. BlocksOf(e) \intersect new = {}
    BY DEF BlocksOf
  <1>5. IsFiniteSet(BlocksOf(e)) /\ Cardinality(BlocksOf(e)) \in Nat
    BY BlocksFinite
  <1> HIDE DEF new, n
  <1>6. Cardinality(BlocksOf(f)) = Cardinality(BlocksOf(e)) + n - Cardinality(BlocksOf(e) \intersect new)
    BY <1>2, <1>3, <1>5, FS_Union
  <1>7. Cardinality(BlocksOf(e) \intersect new) = 0
    BY <1>4, FS_EmptySet
  <1> QED
    BY <1>1, <1>5, <1>6, <1>7 DEF n

-----------------------------------------------------------------------------
(* alloc_cache *)

\* An eviction takes an entry whose save is finished, and no other is touched.
LEMMA EvictedFacts ==
  ASSUME IInv
  PROVE  /\ Evicted.list \in Seq(Entry) /\ Evicted.free \subseteq Entry
         /\ Evicted.ent \in [Entry -> EntryType] /\ Evicted.lost \subseteq Segment
         /\ Evicted.used = Cardinality(BlocksOf(Evicted.ent))
         /\ \A c \in Evicted.free : Evicted.ent[c] = Empty
         /\ ~grown => Evicted.free \subseteq 1 .. Slots /\ \A c \in Entry : c > Slots => Evicted.ent[c] = Empty
         /\ \A c \in InUse(Evicted.ent) : Evicted.ent[c].seg \in Segment
         /\ \A c \in Entry : ent[c].data = "segment" => Evicted.ent[c] = ent[c]
  <1> USE DEF IInv
  <1>0. /\ ent \in [Entry -> EntryType] /\ list \in Seq(Entry) /\ free \subseteq Entry /\ Empty \in EntryType
        /\ used = Cardinality(BlocksOf(ent))
    BY EntryFacts DEF TypeOK, EntryType, UsedIsAccounted
  <1>1. CASE ~CanEvict
    BY <1>0, <1>1 DEF Evicted, JobInv
  <1>2. CASE CanEvict
    <2> DEFINE c == Head(list)
               e == [ent EXCEPT ![c] = Empty]
    <2>1. /\ Evicted.list = Tail(list) /\ Evicted.free = {c} /\ Evicted.ent = e
          /\ Evicted.used = used - Blocks[ent[c].seg] /\ Evicted.lost = {ent[c].seg}
      BY <1>2 DEF Evicted
    <2>2. c \in Entry /\ Tail(list) \in Seq(Entry) /\ ent[c].data = "this" /\ c \in InUse(ent)
      BY <1>0, <1>2 DEF CanEvict, InUse
    <2>3. e \in [Entry -> EntryType] /\ e[c] = Empty /\ \A d \in Entry \ {c} : e[d] = ent[d]
      BY <1>0, <2>2
    <2>4. ent[c].seg \in Segment
      BY <2>2 DEF JobInv
    <2> HIDE DEF c, e
    <2>5. c \notin InUse(e)
      BY <2>2, <2>3 DEF InUse, Empty
    <2>6. InUse(ent) = InUse(e) \union {c}
      BY <2>2, <2>3, <2>5 DEF InUse
    <2>7. Cardinality(BlocksOf(ent)) = Cardinality(BlocksOf(e)) + Blocks[ent[c].seg]
      <3>1. \A d \in InUse(e) : ent[d].seg = e[d].seg
        BY <2>3, <2>5 DEF InUse
      <3> QED
        BY <1>0, <2>2, <2>3, <2>4, <2>5, <2>6, <3>1, CountOneMore
    <2>8. Evicted.used = Cardinality(BlocksOf(Evicted.ent))
      <3>1. Cardinality(BlocksOf(e)) \in Nat /\ Blocks[ent[c].seg] \in Nat
        BY <2>4, EntryFacts, BlocksFinite
      <3> QED
        BY <1>0, <2>1, <2>7, <3>1
    <2>9. \A d \in InUse(e) : e[d].seg \in Segment
      BY <2>3, <2>5, <2>6 DEF JobInv, InUse
    <2>10. ~grown => {c} \subseteq 1 .. Slots /\ \A d \in Entry : d > Slots => e[d] = Empty
      BY <2>2, <2>3, EntryFacts DEF JobInv, Empty
    <2>11. \A d \in Entry : ent[d].data = "segment" => e[d] = ent[d]
      BY <2>2, <2>3
    <2> QED
      BY <2>1, <2>2, <2>3, <2>4, <2>8, <2>9, <2>10, <2>11
  <1> QED
    BY <1>1, <1>2

Own(e, j) == e[j.c] = [seg |-> j.seg, load |-> j.load, data |-> "segment", lock |-> TRUE]

Job    == [c : Entry, seg : Segment, load : BOOLEAN]
Answer == [c : Entry, seg : Segment, load : BOOLEAN, ok : BOOLEAN]

\* What alloc_cache leaves behind: the entries, the blocks and the jobs are in order
\* again, and if there is a new job it is for the segment that was given.
LEMMA AllocFacts ==
  ASSUME IInv, NEW s \in Segment, NEW load \in BOOLEAN, alloc_cache(s, load)
  PROVE  /\ list' \in Seq(Entry) /\ free' \subseteq Entry /\ grown' \in BOOLEAN
         /\ ent' \in [Entry -> EntryType] /\ queue' \in Seq(Job)
         /\ saved' \subseteq Segment /\ file' \in [Segment -> {"none", "partial", "bad", "good"}]
         /\ UNCHANGED <<done, run>>
         /\ UsedIsAccounted' /\ JobsOwnTheirEntry' /\ JobInv'
         /\ \A i \in DOMAIN queue' : \/ i \in DOMAIN queue /\ queue'[i] = queue[i]
                                     \/ queue'[i].seg = s /\ queue'[i].load = load
  <1> DEFINE e == Evicted
             c == CHOOSE x \in e.free : TRUE
             f == e.free \ {c}
             u == e.used + Blocks[s]
             n == [seg |-> s, load |-> load, data |-> "segment", lock |-> TRUE]
             E == [e.ent EXCEPT ![c] = n]
  <1>1. /\ e.list \in Seq(Entry) /\ e.free \subseteq Entry
        /\ e.ent \in [Entry -> EntryType] /\ e.lost \subseteq Segment
        /\ e.used = Cardinality(BlocksOf(e.ent))
        /\ \A d \in e.free : e.ent[d] = Empty
        /\ ~grown => e.free \subseteq 1 .. Slots /\ \A d \in Entry : d > Slots => e.ent[d] = Empty
        /\ \A d \in InUse(e.ent) : e.ent[d].seg \in Segment
        /\ \A d \in Entry : ent[d].data = "segment" => e.ent[d] = ent[d]
    BY EvictedFacts
  <1>2. /\ queue \in Seq(Job) /\ done \in Seq(Answer) /\ grown \in BOOLEAN
        /\ saved \subseteq Segment /\ file \in [Segment -> {"none", "partial", "bad", "good"}]
        /\ JobsOwnTheirEntry /\ JobInv
    BY DEF IInv, TypeOK, Job, Answer
  <1>6. /\ \A i \in DOMAIN queue : queue[i].c \in Entry /\ Own(ent, queue[i])
        /\ \A i \in DOMAIN done : done[i].c \in Entry /\ Own(ent, done[i])
        /\ run # NoRun => run.c \in Entry /\ Own(ent, run)
    <2>1. \A i \in DOMAIN queue : queue[i] \in Job
      BY <1>2
    <2>2. \A i \in DOMAIN done : done[i] \in Answer
      BY <1>2
    <2> QED
      BY <1>2, <2>1, <2>2 DEF JobsOwnTheirEntry, Owns, Own, JobInv, Job, Answer
  <1>7. \A j : j.c \in Entry /\ Own(ent, j) => Own(e.ent, j) /\ e.ent[j.c] # Empty
    <2> HIDE DEF e
    <2>1. \A j : Own(ent, j) => ent[j.c].data = "segment" /\ ent[j.c] # Empty
      <3> SUFFICES ASSUME NEW j, Own(ent, j) PROVE ent[j.c].data = "segment" /\ ent[j.c] # Empty
        OBVIOUS
      <3>1. ent[j.c].data = "segment"
        BY DEF Own
      <3>2. Empty.data = "NULL"
        BY DEF Empty
      <3> QED
        BY <3>1, <3>2
    <2> QED
      BY <1>1, <2>1 DEF Own
  <1>3. /\ saved' \subseteq Segment /\ file' \in [Segment -> {"none", "partial", "bad", "good"}]
        /\ UNCHANGED <<done, run>>
    BY <1>2 DEF alloc_cache
  <1>4. CASE ~HasRoom(e, s, load)
    <2>1. /\ list' = e.list /\ free' = e.free /\ ent' = e.ent /\ used' = e.used
          /\ UNCHANGED <<grown, queue>>
      BY <1>4 DEF alloc_cache
    <2> HIDE DEF e
    <2>2. JobsOwnTheirEntry'
      BY <1>3, <1>6, <1>7, <2>1 DEF JobsOwnTheirEntry, Owns, Own
    <2>3. JobInv'
      BY <1>1, <1>2, <1>3, <2>1 DEF JobInv, InUse
    <2>4. UsedIsAccounted'
      BY <1>1, <2>1 DEF UsedIsAccounted, BlocksOf, InUse
    <2> QED
      BY <1>1, <1>2, <1>3, <2>1, <2>2, <2>3, <2>4
  <1>5. CASE HasRoom(e, s, load)
    <2>1. /\ list' = Append(e.list, c) /\ ent' = E /\ used' = u
          /\ free' = IF Grows(f, u) THEN Slots + 1 .. Slots + Growth(u) ELSE f
          /\ grown' = (grown \/ Grows(f, u))
          /\ queue' = Append(queue, [c |-> c, seg |-> s, load |-> load])
      BY <1>5 DEF alloc_cache
    <2>2. c \in e.free /\ c \in Entry /\ e.ent[c] = Empty
      BY <1>1, <1>5 DEF HasRoom
    <2> HIDE DEF e, c
    <2>3. n \in EntryType
      BY EntryFacts DEF EntryType
    <2>4. E \in [Entry -> EntryType] /\ E[c] = n /\ \A d \in Entry \ {c} : E[d] = e.ent[d]
      BY <1>1, <2>2, <2>3
    <2> HIDE DEF E
    <2>5. c \notin InUse(e.ent) /\ InUse(E) = InUse(e.ent) \union {c}
      BY <2>2, <2>4 DEF InUse, Empty
    <2>6. Cardinality(BlocksOf(E)) = Cardinality(BlocksOf(e.ent)) + Blocks[s]
      <3>1. E[c].seg = s
        BY <2>4
      <3>2. \A d \in InUse(e.ent) : E[d].seg = e.ent[d].seg
        BY <2>4, <2>5 DEF InUse
      <3> QED
        BY <1>1, <2>2, <2>4, <2>5, <3>1, <3>2, CountOneMore
    <2>7. UsedIsAccounted'
      BY <1>1, <2>1, <2>6 DEF UsedIsAccounted, BlocksOf, InUse
    <2>8. u \in Nat \ {0}
      BY <1>1, EntryFacts, BlocksFinite
    <2>9. Grows(f, u) => /\ ~grown /\ f = {} /\ Slots + 1 .. Slots + Growth(u) \subseteq Entry
                         /\ \A d \in Slots + 1 .. Slots + Growth(u) : d > Slots
      <3>1. Grows(f, u) => u \in 1 .. Total
        BY <2>8, DiskAssumption DEF Grows
      <3>2. Growth(u) \in Int \/ ~Grows(f, u)
        BY <3>1, GrowthBound
      <3> QED
        BY <3>1, <3>2, EntryFacts DEF Grows
    <2>10. \A j : j.c \in Entry /\ Own(ent, j) => j.c # c /\ Own(ent', j)
      BY <1>7, <2>1, <2>2, <2>4 DEF Own
    <2>11. /\ \A i \in DOMAIN queue : queue[i].c # c
           /\ \A i \in DOMAIN done : done[i].c # c
           /\ run # NoRun => run.c # c
      BY <1>6, <2>10
    <2>13. /\ DOMAIN queue' = DOMAIN queue \union {Len(queue) + 1} /\ Len(queue) + 1 \notin DOMAIN queue
           /\ \A i \in DOMAIN queue : queue'[i] = queue[i]
           /\ queue'[Len(queue) + 1] = [c |-> c, seg |-> s, load |-> load]
           /\ queue' \in Seq(Job)
      BY <1>2, <2>1, <2>2 DEF Job
    <2>14. JobsOwnTheirEntry'
      <3> DEFINE j == [c |-> c, seg |-> s, load |-> load]
      <3>1. Own(ent', j)
        BY <2>1, <2>4 DEF Own
      <3> HIDE DEF j
      <3>2. \A i \in DOMAIN queue' : Own(ent', queue'[i])
        BY <1>6, <2>10, <2>13, <3>1 DEF j
      <3> QED
        BY <1>3, <1>6, <2>10, <3>2 DEF JobsOwnTheirEntry, Owns, Own
    <2>15. JobInv'
      <3>1. /\ \A i, j \in DOMAIN queue' : queue'[i].c = queue'[j].c => i = j
            /\ \A i \in DOMAIN queue', j \in DOMAIN done' : queue'[i].c # done'[j].c
            /\ run' # NoRun => \A i \in DOMAIN queue' : queue'[i].c # run'.c
        BY <1>2, <1>3, <2>11, <2>13 DEF JobInv
      <3>2. \A d \in free' : ent'[d] = Empty
        <4>1. CASE Grows(f, u)
          BY <1>1, <2>1, <2>2, <2>4, <2>9, <4>1, EntryFacts
        <4>2. CASE ~Grows(f, u)
          BY <1>1, <2>1, <2>2, <2>4, <4>2
        <4> QED
          BY <4>1, <4>2
      <3>3. ~grown' => free' \subseteq 1 .. Slots /\ \A d \in Entry : d > Slots => ent'[d] = Empty
        <4>1. ~grown' => ~grown /\ c \in 1 .. Slots
          BY <1>1, <2>1, <2>2
        <4>2. ~grown' => free' \subseteq 1 .. Slots
          BY <1>1, <2>1
        <4>3. \A d \in Entry : d > Slots /\ ~grown' => d # c /\ e.ent[d] = Empty
          BY <1>1, <4>1, EntryFacts
        <4> HIDE DEF n
        <4>4. \A d \in Entry : d > Slots /\ ~grown' => ent'[d] = Empty
          BY <2>1, <2>4, <4>3
        <4> QED
          BY <4>2, <4>4
      <3>4. \A d \in InUse(ent') : ent'[d].seg \in Segment
        BY <1>1, <2>1, <2>4, <2>5 DEF InUse
      <3> QED
        BY <1>2, <1>3, <3>1, <3>2, <3>3, <3>4 DEF JobInv
    <2> QED
      BY <1>1, <1>2, <1>3, <2>1, <2>2, <2>4, <2>7, <2>9, <2>13, <2>14, <2>15
  <1> QED
    BY <1>4, <1>5

-----------------------------------------------------------------------------
(* The steps *)

\* What the types and the invariant say of each job, by its place.
LEMMA JobFacts ==
  ASSUME IInv
  PROVE  /\ queue \in Seq(Job) /\ done \in Seq(Answer) /\ ent \in [Entry -> EntryType]
         /\ \A i \in DOMAIN queue : queue[i] \in Job /\ Own(ent, queue[i])
         /\ \A i \in DOMAIN done : done[i] \in Answer /\ Own(ent, done[i])
         /\ run # NoRun => run.c \in Entry /\ run.seg \in Segment /\ run.load \in BOOLEAN /\ Own(ent, run)
  <1>1. /\ queue \in Seq(Job) /\ done \in Seq(Answer) /\ ent \in [Entry -> EntryType] /\ run.load \in BOOLEAN
        /\ JobsOwnTheirEntry /\ JobInv
    BY DEF IInv, TypeOK, Job, Answer, EntryType
  <1>2. /\ \A i \in DOMAIN queue : queue[i] \in Job
        /\ \A i \in DOMAIN done : done[i] \in Answer
    BY <1>1
  <1> QED
    BY <1>1, <1>2 DEF JobsOwnTheirEntry, Owns, Own, JobInv

\* The lock of its entry keeps the segment of a job in memory, whoever else lets go.
LEMMA KeepFacts ==
  ASSUME NEW e, NEW pin, mem \in [Segment -> {"no", "right", "wrong"}]
  PROVE  /\ Keep(e, pin) \in [Segment -> {"no", "right", "wrong"}]
         /\ \A j : j.c \in Entry /\ j.seg \in Segment /\ ~j.load /\ Own(e, j) => Keep(e, pin)[j.seg] = mem[j.seg]
  <1>1. Keep(e, pin) \in [Segment -> {"no", "right", "wrong"}]
    BY DEF Keep
  <1>2. ASSUME NEW j, j.c \in Entry, j.seg \in Segment, ~j.load, Own(e, j)
        PROVE  Keep(e, pin)[j.seg] = mem[j.seg]
    <2>1. e[j.c].lock /\ ~e[j.c].load /\ e[j.c].seg = j.seg
      BY <1>2 DEF Own
    <2>2. KeptBy(e, pin, j.seg)
      BY <1>2, <2>1 DEF KeptBy
    <2> QED
      BY <1>2, <2>2 DEF Keep
  <1> QED
    BY <1>1, <1>2

\* The worker takes the next job.
LEMMA StartJobInv ==
  ASSUME IInv, StartJob
  PROVE  IInv'
  <1> DEFINE h == Head(queue)
  <1>1. queue # <<>> /\ h = queue[1] /\ h \in Job /\ 1 \in DOMAIN queue /\ run = NoRun
    BY JobFacts DEF StartJob
  <1>2. /\ Tail(queue) \in Seq(Job)
        /\ \A i \in DOMAIN Tail(queue) : i + 1 \in DOMAIN queue /\ Tail(queue)[i] = queue[i + 1] /\ i + 1 # 1 /\ i \in Nat
    BY <1>1, JobFacts
  <1>3. /\ queue' = Tail(queue)
        /\ run' = [c |-> h.c, seg |-> h.seg, load |-> h.load, writing |-> FALSE]
        /\ UNCHANGED <<poolVars, done, map, dataVars, diskVars>>
    BY DEF StartJob
  <1>4. h.c \in Entry /\ h.seg \in Segment /\ h.load \in BOOLEAN /\ Own(ent, h)
    BY <1>1, JobFacts DEF Job
  <1> HIDE DEF h
  <1>5. run'.c = h.c /\ run'.seg = h.seg /\ run'.load = h.load
    BY <1>3
  <1>6. TypeOK'
    BY <1>2, <1>3, <1>4, EntryFacts DEF IInv, TypeOK, Job, poolVars, dataVars, diskVars
  <1>7. SaveHasItsSegment'
    BY <1>1, <1>2, <1>3, <1>5 DEF IInv, SaveHasItsSegment, dataVars
  <1>8. JobsOwnTheirEntry'
    BY <1>2, <1>3, <1>4, <1>5, JobFacts DEF JobsOwnTheirEntry, Owns, Own, poolVars
  <1>9. UsedIsAccounted'
    BY <1>3 DEF IInv, UsedIsAccounted, BlocksOf, InUse, poolVars
  <1>10. JobInv'
    <2>1. \A i, j \in DOMAIN queue' : queue'[i].c = queue'[j].c => i = j
      BY <1>2, <1>3 DEF IInv, JobInv
    <2>2. \A i \in DOMAIN queue', j \in DOMAIN done' : queue'[i].c # done'[j].c
      BY <1>2, <1>3 DEF IInv, JobInv
    <2>3. \A i \in DOMAIN queue' : queue'[i].c # run'.c
      BY <1>1, <1>2, <1>3, <1>5 DEF IInv, JobInv
    <2>4. \A i \in DOMAIN done' : done'[i].c # run'.c
      BY <1>1, <1>3, <1>5 DEF IInv, JobInv
    <2> QED
      BY <1>3, <1>4, <1>5, <2>1, <2>2, <2>3, <2>4 DEF IInv, JobInv, InUse, poolVars
  <1> QED
    BY <1>6, <1>7, <1>8, <1>9, <1>10 DEF IInv

\* The worker posts a result.
LEMMA ResultInv ==
  ASSUME IInv, NEW ok \in BOOLEAN, run # NoRun, Result(ok), run' = NoRun,
         UNCHANGED <<poolVars, queue, map, dataVars, metaFile, dirty>>,
         file' \in [Segment -> {"none", "partial", "bad", "good"}]
  PROVE  IInv'
  <1> DEFINE a == [c |-> run.c, seg |-> run.seg, load |-> run.load, ok |-> ok]
             n == Len(done) + 1
  <1>1. a \in Answer /\ a.c = run.c /\ a.seg = run.seg /\ a.load = run.load /\ Own(ent, a)
    BY JobFacts DEF Answer, Own
  <1>2. done' = Append(done, a)
    BY DEF Result
  <1> HIDE DEF a
  <1>3. /\ done' \in Seq(Answer) /\ DOMAIN done' = DOMAIN done \union {n} /\ n \notin DOMAIN done
        /\ \A i \in DOMAIN done : done'[i] = done[i]
        /\ done'[n] = a
    BY <1>1, <1>2, JobFacts
  <1> HIDE DEF n
  <1>9. run' \in [c : {0} \union Entry, seg : 0 .. SegCount, load : BOOLEAN, writing : BOOLEAN]
    <2>1. 0 \in 0 .. SegCount
      BY DiskAssumption
    <2> QED
      BY <2>1 DEF NoRun
  <1>10. /\ TypeOK /\ UNCHANGED <<list, free, grown, ent, used, queue, map, mem, pinned, saved, metaFile, dirty>>
         /\ done' \in Seq([c : Entry, seg : Segment, load : BOOLEAN, ok : BOOLEAN])
    BY <1>3 DEF IInv, Answer, poolVars, dataVars
  <1>4. TypeOK'
    BY <1>9, <1>10 DEF TypeOK
  <1>5. SaveHasItsSegment'
    BY DEF IInv, SaveHasItsSegment, dataVars
  <1>6. JobsOwnTheirEntry'
    BY <1>1, <1>3, JobFacts DEF JobsOwnTheirEntry, Owns, Own, poolVars
  <1>7. UsedIsAccounted'
    BY DEF IInv, UsedIsAccounted, BlocksOf, InUse, poolVars
  <1>8. JobInv'
    <2>1. \A i, j \in DOMAIN done' : done'[i].c = done'[j].c => i = j
      BY <1>1, <1>3 DEF IInv, JobInv
    <2>2. \A i \in DOMAIN queue', j \in DOMAIN done' : queue'[i].c # done'[j].c
      BY <1>1, <1>3 DEF IInv, JobInv
    <2> QED
      BY <2>1, <2>2 DEF IInv, JobInv, InUse, poolVars
  <1> QED
    BY <1>4, <1>5, <1>6, <1>7, <1>8 DEF IInv

\* The result of the first job is handled: its entry gives up its lock and, if the save
\* failed, its blocks.
LEMMA HandledInv ==
  ASSUME IInv, done # <<>>, done' = Tail(done), mem' = Keep(ent', pinned),
         NEW d \in {"segment", "this"},
         ent' \in [Entry -> EntryType],
         ent'[Head(done).c] = [ent[Head(done).c] EXCEPT !.data = d, !.lock = FALSE],
         \A c \in Entry \ {Head(done).c} : ent'[c] = ent[c],
         used' = IF d = "this" THEN used ELSE used - Blocks[Head(done).seg],
         saved' \subseteq Segment,
         UNCHANGED <<list, free, grown, queue, run, map, pinned, diskVars>>
  PROVE  IInv'
  <1> DEFINE h == Head(done)
  <1>1. h = done[1] /\ h \in Answer /\ 1 \in DOMAIN done /\ h.c \in Entry /\ h.seg \in Segment /\ Own(ent, h)
    BY JobFacts DEF Answer
  <1>2. /\ Tail(done) \in Seq(Answer)
        /\ \A i \in DOMAIN Tail(done) : i + 1 \in DOMAIN done /\ Tail(done)[i] = done[i + 1] /\ i + 1 # 1 /\ i \in Nat
    BY JobFacts
  <1> HIDE DEF h
  <1>3. /\ ent' \in [Entry -> EntryType] /\ ent'[h.c].data = d /\ ent'[h.c].lock = FALSE /\ ent'[h.c].seg = h.seg
        /\ \A c \in Entry \ {h.c} : ent'[c] = ent[c]
        /\ ent[h.c].lock = TRUE /\ ent[h.c].data = "segment" /\ ent[h.c].seg = h.seg
    <2>1. ent[h.c].lock = TRUE /\ ent[h.c].data = "segment" /\ ent[h.c].seg = h.seg
      BY <1>1 DEF Own
    <2>2. ent[h.c] \in EntryType
      BY <1>1, JobFacts
    <2> QED
      BY <2>1, <2>2 DEF EntryType, h
  <1>4. /\ \A i \in DOMAIN queue' : queue'[i] \in Job /\ Own(ent', queue'[i])
        /\ \A i \in DOMAIN done' : done'[i] \in Answer /\ Own(ent', done'[i])
        /\ run' # NoRun => run'.c \in Entry /\ run'.seg \in Segment /\ run'.load \in BOOLEAN /\ Own(ent', run')
    <2>1. \A i \in DOMAIN queue : queue[i].c \in Entry \ {h.c}
      BY <1>1, JobFacts DEF IInv, JobInv, Job
    <2>2. \A i \in DOMAIN done' : done'[i] \in Answer /\ done'[i].c \in Entry \ {h.c} /\ Own(ent, done'[i])
      BY <1>1, <1>2, JobFacts DEF IInv, JobInv, Answer
    <2>3. run # NoRun => run.c \in Entry \ {h.c}
      BY <1>1 DEF IInv, JobInv
    <2>4. \A j : j.c \in Entry \ {h.c} /\ Own(ent, j) => Own(ent', j)
      BY <1>3 DEF Own
    <2>5. \A i \in DOMAIN queue : queue[i] \in Job /\ Own(ent', queue[i])
      BY <2>1, <2>4, JobFacts
    <2>6. run # NoRun => run.c \in Entry /\ run.seg \in Segment /\ run.load \in BOOLEAN /\ Own(ent', run)
      BY <2>3, <2>4, JobFacts
    <2>7. \A i \in DOMAIN done' : done'[i] \in Answer /\ Own(ent', done'[i])
      BY <2>2, <2>4
    <2> QED
      BY <2>5, <2>6, <2>7
  <1>5. mem \in [Segment -> {"no", "right", "wrong"}] /\ SaveHasItsSegment /\ JobInv /\ TypeOK
        /\ used = Cardinality(BlocksOf(ent))
    BY DEF IInv, TypeOK, UsedIsAccounted
  <1>6. JobsOwnTheirEntry'
    BY <1>4 DEF JobsOwnTheirEntry, Owns, Own
  <1>7. SaveHasItsSegment'
    <2>2. \A j : j.c \in Entry /\ j.seg \in Segment /\ ~j.load /\ Own(ent', j) => mem'[j.seg] = mem[j.seg]
      BY <1>5, KeepFacts
    <2>3. \A i \in DOMAIN queue' : queue'[i].c \in Entry /\ queue'[i].seg \in Segment /\ Own(ent', queue'[i])
      BY <1>4 DEF Job
    <2>1. /\ \A i \in DOMAIN queue' : ~queue'[i].load => mem'[queue'[i].seg] = mem[queue'[i].seg]
          /\ run' # NoRun /\ ~run'.load => mem'[run'.seg] = mem[run'.seg]
      BY <1>4, <2>2, <2>3
    <2> QED
      BY <1>5, <2>1 DEF SaveHasItsSegment
  <1>8. /\ InUse(ent') = IF d = "this" THEN InUse(ent) ELSE InUse(ent) \ {h.c}
        /\ h.c \in InUse(ent) /\ \A c \in Entry : ent'[c].seg = ent[c].seg
    BY <1>1, <1>3 DEF InUse
  <1>9. UsedIsAccounted' /\ used' \in Nat
    <2>1. CASE d = "this"
      <3>1. BlocksOf(ent') = BlocksOf(ent)
        BY <1>8, <2>1 DEF BlocksOf
      <3> QED
        BY <1>5, <2>1, <3>1, BlocksFinite DEF UsedIsAccounted, BlocksOf, InUse
    <2>2. CASE d = "segment"
      <3>1. /\ h.c \notin InUse(ent') /\ InUse(ent) = InUse(ent') \union {h.c}
            /\ \A c \in InUse(ent') : ent[c].seg = ent'[c].seg
        BY <1>8, <2>2 DEF InUse
      <3>2. Cardinality(BlocksOf(ent)) = Cardinality(BlocksOf(ent')) + Blocks[h.seg]
        <4>1. ent[h.c].seg \in Segment /\ ent \in [Entry -> EntryType]
          BY <1>1, <1>3, JobFacts
        <4>2. \A c \in InUse(ent') : c \in Entry
          BY DEF InUse
        <4>3. Cardinality(BlocksOf(ent)) = Cardinality(BlocksOf(ent')) + Blocks[ent[h.c].seg]
          BY <1>1, <1>3, <3>1, <4>1, CountOneMore
        <4> QED
          BY <1>3, <4>3
      <3>3. Cardinality(BlocksOf(ent')) \in Nat /\ Blocks[h.seg] \in Nat
        BY <1>1, EntryFacts, BlocksFinite
      <3>4. used' = Cardinality(BlocksOf(ent'))
        BY <1>5, <2>2, <3>2, <3>3 DEF h
      <3> QED
        BY <3>3, <3>4 DEF UsedIsAccounted, BlocksOf, InUse
    <2> QED
      BY <2>1, <2>2
  <1>10. TypeOK'
    BY <1>2, <1>3, <1>5, <1>9, KeepFacts DEF TypeOK, EntryType, Answer, diskVars
  <1>11. JobInv'
    <2>1. /\ \A i, j \in DOMAIN done' : done'[i].c = done'[j].c => i = j
          /\ \A i \in DOMAIN queue', j \in DOMAIN done' : queue'[i].c # done'[j].c
          /\ run' # NoRun => \A i \in DOMAIN done' : done'[i].c # run'.c
      BY <1>2, <1>5 DEF JobInv
    <2>2. ent[h.c] # Empty
      BY <1>3 DEF Empty
    <2>3. \A c \in free' : ent'[c] = Empty
      <3>1. \A c \in free : c \in Entry /\ ent[c] = Empty
        BY <1>5 DEF JobInv, TypeOK
      <3> QED
        BY <1>3, <2>2, <3>1
    <2>4. ~grown' => \A c \in Entry : c > Slots => ent'[c] = Empty
      BY <1>3, <1>5, <2>2 DEF JobInv
    <2>5. \A c \in InUse(ent') : ent'[c].seg \in Segment
      BY <1>5, <1>8 DEF JobInv, InUse
    <2> QED
      BY <1>5, <2>1, <2>3, <2>4, <2>5 DEF JobInv
  <1> QED
    BY <1>6, <1>7, <1>9, <1>10, <1>11 DEF IInv

\* on_save, whether the job succeeded or not.
LEMMA OnSaveInv ==
  ASSUME IInv, on_saved \/ on_not_saved
  PROVE  IInv'
  <1> DEFINE h == Head(done)
  <1>1. done # <<>>
    BY DEF on_saved, on_not_saved
  <1>2. /\ h \in Answer /\ h.c \in Entry /\ h.seg \in Segment /\ Own(ent, h)
        /\ ent \in [Entry -> EntryType] /\ ent[h.c] \in EntryType
    <2>1. h = done[1] /\ 1 \in DOMAIN done
      BY <1>1, JobFacts
    <2> QED
      BY <2>1, JobFacts DEF Answer
  <1>3. saved \subseteq Segment
    BY DEF IInv, TypeOK
  <1>4. CASE on_saved
    <2>1. ent' = [ent EXCEPT ![h.c].data = "this", ![h.c].lock = FALSE]
      BY <1>4 DEF on_saved
    <2>2. /\ ent' \in [Entry -> EntryType]
          /\ ent'[h.c] = [ent[h.c] EXCEPT !.data = "this", !.lock = FALSE]
          /\ \A c \in Entry \ {h.c} : ent'[c] = ent[c]
      BY <1>2, <2>1 DEF EntryType
    <2>3. saved' \subseteq Segment
      BY <1>2, <1>3, <1>4 DEF on_saved
    <2>4. /\ done' = Tail(done) /\ mem' = Keep(ent', pinned) /\ used' = used
          /\ UNCHANGED <<list, free, grown, queue, run, map, pinned, diskVars>>
      BY <1>4 DEF on_saved
    <2> QED
      BY <1>1, <2>2, <2>3, <2>4, HandledInv
  <1>5. CASE on_not_saved
    <2>1. ent' = [ent EXCEPT ![h.c].lock = FALSE]
      BY <1>5 DEF on_not_saved
    <2>2. /\ ent' \in [Entry -> EntryType]
          /\ ent'[h.c] = [ent[h.c] EXCEPT !.data = "segment", !.lock = FALSE]
          /\ \A c \in Entry \ {h.c} : ent'[c] = ent[c]
      <3>1. ent[h.c].data = "segment"
        BY <1>2 DEF Own
      <3> QED
        BY <1>2, <2>1, <3>1 DEF EntryType
    <2>3. saved' \subseteq Segment
      BY <1>2, <1>3, <1>5 DEF on_not_saved
    <2>4. /\ done' = Tail(done) /\ mem' = Keep(ent', pinned) /\ used' = used - Blocks[h.seg]
          /\ UNCHANGED <<list, free, grown, queue, run, map, pinned, diskVars>>
      BY <1>5 DEF on_not_saved
    <2> QED
      BY <1>1, <2>2, <2>3, <2>4, HandledInv
  <1> QED
    BY <1>4, <1>5

\* A new job is for a segment that is in memory, or for a file.
LEMMA DownloadInv ==
  ASSUME IInv, NEW s \in Segment, NEW md5 \in {"right", "wrong"}, Download(s, md5)
  PROVE  IInv'
  <1>1. /\ mem' = [mem EXCEPT ![s] = md5] /\ UNCHANGED <<map, pinned, metaFile, dirty>>
        /\ alloc_cache(s, FALSE) \/ UNCHANGED <<poolVars, workVars, saved, file>>
    BY DEF Download
  <1>2. TypeOK /\ SaveHasItsSegment /\ UsedIsAccounted
    BY DEF IInv
  <1>3. mem' \in [Segment -> {"no", "right", "wrong"}]
    BY <1>1, <1>2 DEF TypeOK
  <1>4. mem'[s] # "no" /\ \A t \in Segment : mem[t] # "no" => mem'[t] # "no"
    BY <1>1, <1>2 DEF TypeOK
  <1>5. CASE alloc_cache(s, FALSE)
    <2>1. /\ list' \in Seq(Entry) /\ free' \subseteq Entry /\ grown' \in BOOLEAN
          /\ ent' \in [Entry -> EntryType] /\ queue' \in Seq(Job)
          /\ saved' \subseteq Segment /\ file' \in [Segment -> {"none", "partial", "bad", "good"}]
          /\ UNCHANGED <<done, run>>
          /\ UsedIsAccounted' /\ JobsOwnTheirEntry' /\ JobInv'
          /\ \A i \in DOMAIN queue' : \/ i \in DOMAIN queue /\ queue'[i] = queue[i]
                                      \/ queue'[i].seg = s /\ queue'[i].load = FALSE
      BY <1>5, AllocFacts
    <2>2. used' \in Nat
      BY <2>1, BlocksFinite DEF UsedIsAccounted, BlocksOf, InUse
    <2>3. TypeOK'
      BY <1>1, <1>2, <1>3, <2>1, <2>2 DEF TypeOK, EntryType, Job
    <2>4. \A i \in DOMAIN queue' : queue'[i].seg \in Segment
      <3>1. \A i \in DOMAIN queue' : queue'[i] \in Job
        BY <2>1
      <3> QED
        BY <3>1 DEF Job
    <2>5. SaveHasItsSegment'
      <3>1. \A i \in DOMAIN queue' : ~queue'[i].load => mem'[queue'[i].seg] # "no"
        BY <1>2, <1>4, <2>1, <2>4 DEF SaveHasItsSegment
      <3>2. run' # NoRun /\ ~run'.load => mem'[run'.seg] # "no"
        BY <1>2, <1>4, <2>1, JobFacts DEF SaveHasItsSegment
      <3> QED
        BY <3>1, <3>2 DEF SaveHasItsSegment
    <2> QED
      BY <2>1, <2>3, <2>5 DEF IInv
  <1>6. CASE UNCHANGED <<poolVars, workVars, saved, file>>
    <2>1. TypeOK'
      BY <1>1, <1>2, <1>3, <1>6 DEF TypeOK, poolVars, workVars
    <2>2. SaveHasItsSegment'
      <3>1. \A i \in DOMAIN queue : queue[i].seg \in Segment
        BY JobFacts DEF Job
      <3> QED
        BY <1>2, <1>4, <1>6, <3>1, JobFacts DEF SaveHasItsSegment, workVars
    <2> QED
      BY <2>1, <2>2, <1>6 DEF IInv, UsedIsAccounted, BlocksOf, InUse, JobsOwnTheirEntry, Owns, JobInv,
        poolVars, workVars
  <1> QED
    BY <1>1, <1>5, <1>6

\* An entry for a file that was found at startup.
LEMMA LoadCacheInv ==
  ASSUME IInv, load_cache
  PROVE  IInv'
  <1>1. PICK s \in map : map' = map \ {s} /\ alloc_cache(s, TRUE)
    BY DEF load_cache
  <1>2. TypeOK /\ SaveHasItsSegment /\ UNCHANGED <<mem, pinned, metaFile, dirty>>
    BY DEF IInv, load_cache
  <1>3. s \in Segment /\ map' \subseteq Segment
    BY <1>1, <1>2 DEF TypeOK
  <1>4. /\ list' \in Seq(Entry) /\ free' \subseteq Entry /\ grown' \in BOOLEAN
        /\ ent' \in [Entry -> EntryType] /\ queue' \in Seq(Job)
        /\ saved' \subseteq Segment /\ file' \in [Segment -> {"none", "partial", "bad", "good"}]
        /\ UNCHANGED <<done, run>>
        /\ UsedIsAccounted' /\ JobsOwnTheirEntry' /\ JobInv'
        /\ \A i \in DOMAIN queue' : \/ i \in DOMAIN queue /\ queue'[i] = queue[i]
                                    \/ queue'[i].seg = s /\ queue'[i].load = TRUE
    BY <1>1, <1>3, AllocFacts
  <1>5. used' \in Nat
    BY <1>4, BlocksFinite DEF UsedIsAccounted, BlocksOf, InUse
  <1>6. TypeOK'
    BY <1>2, <1>3, <1>4, <1>5 DEF TypeOK, EntryType, Job
  <1>7. SaveHasItsSegment'
    BY <1>2, <1>4 DEF SaveHasItsSegment
  <1> QED
    BY <1>4, <1>6, <1>7 DEF IInv

\* What other holders do, the timers and the file system: no entry changes hands.
LEMMA QuietInv ==
  ASSUME IInv, TypeOK', SaveHasItsSegment', UNCHANGED <<free, grown, ent, used, queue, done>>,
         run' = NoRun <=> run = NoRun,
         run'.c = run.c, run'.seg = run.seg, run'.load = run.load
  PROVE  IInv'
  <1>1. UsedIsAccounted'
    BY DEF IInv, UsedIsAccounted, BlocksOf, InUse
  <1>2. JobsOwnTheirEntry'
    BY DEF IInv, JobsOwnTheirEntry, Owns
  <1>3. JobInv'
    BY DEF IInv, JobInv, InUse
  <1> QED
    BY <1>1, <1>2, <1>3 DEF IInv

\* A list is reversed in place.
LEMMA ReverseType ==
  ASSUME NEW S, NEW l \in Seq(S)
  PROVE  Reverse(l) \in Seq(S)
  <1>1. \A i \in 1 .. Len(l) : (Len(l) - i) + 1 \in 1 .. Len(l)
    OBVIOUS
  <1> QED
    BY <1>1 DEF Reverse

\* A segment that is released keeps the invariant.
LEMMA UnpinInv ==
  ASSUME IInv, NEW s \in Segment, Unpin(s)
  PROVE  IInv'
  <1>1. /\ pinned' = pinned \ {s} /\ mem' = Keep(ent, pinned')
        /\ UNCHANGED <<poolVars, workVars, map, saved, diskVars>>
    BY DEF Unpin
  <1>2. TypeOK /\ SaveHasItsSegment /\ mem \in [Segment -> {"no", "right", "wrong"}]
    BY DEF IInv, TypeOK
  <1>3. TypeOK'
    BY <1>1, <1>2, KeepFacts DEF TypeOK, poolVars, workVars, diskVars
  <1>4. SaveHasItsSegment'
    <2>1. \A j : j.c \in Entry /\ j.seg \in Segment /\ ~j.load /\ Own(ent, j) => mem'[j.seg] = mem[j.seg]
      BY <1>1, <1>2, KeepFacts
    <2>2. \A i \in DOMAIN queue : queue[i].c \in Entry /\ queue[i].seg \in Segment /\ Own(ent, queue[i])
      BY JobFacts DEF Job
    <2> QED
      BY <1>1, <1>2, <2>1, <2>2, JobFacts DEF SaveHasItsSegment, workVars
  <1> QED
    BY <1>1, <1>3, <1>4, QuietInv DEF poolVars, workVars

\* The worker that opens a file keeps it.
LEMMA OpenFileInv ==
  ASSUME IInv, OpenFile
  PROVE  IInv'
  <1>1. /\ run' = [run EXCEPT !.writing = TRUE] /\ file' = [file EXCEPT ![run.seg] = "partial"]
        /\ run # NoRun /\ UNCHANGED <<poolVars, queue, done, map, dataVars, metaFile, dirty>>
    BY DEF OpenFile
  <1>2. TypeOK /\ SaveHasItsSegment
    BY DEF IInv
  <1>3. /\ run' \in [c : {0} \union Entry, seg : 0 .. SegCount, load : BOOLEAN, writing : BOOLEAN]
        /\ run'.c = run.c /\ run'.seg = run.seg /\ run'.load = run.load /\ run'.writing = TRUE
    BY <1>1, <1>2 DEF TypeOK
  <1>4. run' # NoRun
    BY <1>3 DEF NoRun
  <1>5. file' \in [Segment -> {"none", "partial", "bad", "good"}]
    BY <1>1, <1>2 DEF TypeOK
  <1>6. TypeOK'
    BY <1>1, <1>2, <1>3, <1>5 DEF TypeOK, poolVars, dataVars
  <1>7. SaveHasItsSegment'
    BY <1>1, <1>2, <1>3 DEF SaveHasItsSegment, dataVars
  <1> QED
    BY <1>1, <1>3, <1>4, <1>6, <1>7, QuietInv DEF poolVars

\* The results of the worker.
LEMMA WorkerInv ==
  ASSUME IInv, Worker
  PROVE  IInv'
  <1>1. file \in [Segment -> {"none", "partial", "bad", "good"}]
    BY DEF IInv, TypeOK
  <1>2. CASE StartJob
    BY <1>2, StartJobInv
  <1>3. CASE OpenFile
    BY <1>3, OpenFileInv
  <1>4. CASE SaveFails
    BY <1>1, <1>4, ResultInv DEF SaveFails, diskVars
  <1>5. CASE CloseFile
    <2>1. run # NoRun
      BY <1>5 DEF CloseFile, NoRun
    <2>2. file' \in [Segment -> {"none", "partial", "bad", "good"}]
      BY <1>1, <1>5 DEF CloseFile
    <2> QED
      BY <1>5, <2>1, <2>2, ResultInv DEF CloseFile
  <1>6. CASE CheckFile
    <2>1. file' \in [Segment -> {"none", "partial", "bad", "good"}]
      BY <1>1, <1>6 DEF CheckFile
    <2>2. (file[run.seg] = "good") \in BOOLEAN
      OBVIOUS
    <2> QED
      BY <1>6, <2>1, <2>2, ResultInv DEF CheckFile
  <1> QED
    BY <1>2, <1>3, <1>4, <1>5, <1>6 DEF Worker

\* An empty pool counts nothing.
LEMMA EmptyPool ==
  ASSUME NEW e, e = [c \in Entry |-> Empty]
  PROVE  InUse(e) = {} /\ Cardinality(BlocksOf(e)) = 0 /\ e \in [Entry -> EntryType]
  <1>1. \A c \in Entry : e[c] = Empty
    OBVIOUS
  <1>2. InUse(e) = {}
    BY <1>1 DEF InUse, Empty
  <1>3. BlocksOf(e) = {}
    BY <1>2 DEF BlocksOf
  <1> QED
    BY <1>2, <1>3, EntryFacts, FS_EmptySet

\* A restart: what is left of the files does not matter here.
LEMMA CrashInv ==
  ASSUME IInv, Crash
  PROVE  IInv'
  <1>1. /\ list' = <<>> /\ free' = 1 .. Slots /\ grown' = FALSE
        /\ ent' = [c \in Entry |-> Empty] /\ used' = 0
        /\ queue' = <<>> /\ done' = <<>> /\ run' = NoRun
        /\ mem' = [s \in Segment |-> "no"] /\ pinned' = {} /\ saved' = {}
    BY DEF Crash, Startup
  <1>2. metaFile' \in BOOLEAN /\ dirty' \in BOOLEAN
    BY DEF Crash, IInv, TypeOK
  <1>3. map' \subseteq Segment
    BY DEF Crash, Listed
  <1>4. file' \in [Segment -> {"none", "partial", "bad", "good"}]
    <2>1. PICK F \in [Segment -> {"none", "partial", "bad", "good"}] : file' = load_status(F)
      BY DEF Crash
    <2> QED
      BY <2>1 DEF load_status
  <1>5. InUse(ent') = {} /\ Cardinality(BlocksOf(ent')) = 0 /\ ent' \in [Entry -> EntryType]
    BY <1>1, EmptyPool
  <1>6. run' \in [c : {0} \union Entry, seg : 0 .. SegCount, load : BOOLEAN, writing : BOOLEAN]
    BY <1>1, DiskAssumption DEF NoRun
  <1>7. TypeOK'
    <2>1. free' \subseteq Entry
      BY <1>1, EntryFacts
    <2>2. /\ list' \in Seq(Entry) /\ grown' \in BOOLEAN /\ used' \in Nat
          /\ queue' \in Seq([c : Entry, seg : Segment, load : BOOLEAN])
          /\ done' \in Seq([c : Entry, seg : Segment, load : BOOLEAN, ok : BOOLEAN])
      <3>1. \A S : <<>> \in Seq(S)
        OBVIOUS
      <3> QED
        BY <1>1, <3>1
    <2>3. mem' \in [Segment -> {"no", "right", "wrong"}] /\ pinned' \subseteq Segment /\ saved' \subseteq Segment
      BY <1>1
    <2> QED
      BY <1>2, <1>3, <1>4, <1>5, <1>6, <2>1, <2>2, <2>3 DEF TypeOK, EntryType
  <1>8. SaveHasItsSegment' /\ JobsOwnTheirEntry'
    BY <1>1 DEF SaveHasItsSegment, JobsOwnTheirEntry
  <1>9. UsedIsAccounted'
    BY <1>1, <1>5 DEF UsedIsAccounted, BlocksOf, InUse
  <1>10. JobInv'
    <2>1. \A c \in Entry : ent'[c] = Empty
      BY <1>1
    <2>2. \A c \in InUse(ent') : ent'[c].seg \in Segment
      BY <1>5
    <2> QED
      BY <1>1, <2>1, <2>2, EntryFacts DEF JobInv, InUse
  <1> QED
    BY <1>7, <1>8, <1>9, <1>10 DEF IInv

\* The invariant holds at the start.
LEMMA InitInv ==
  ASSUME Init
  PROVE  IInv
  <1>1. InUse(ent) = {} /\ Cardinality(BlocksOf(ent)) = 0 /\ ent \in [Entry -> EntryType]
    BY EmptyPool DEF Init
  <1>2. run \in [c : {0} \union Entry, seg : 0 .. SegCount, load : BOOLEAN, writing : BOOLEAN]
    BY DiskAssumption DEF Init, NoRun
  <1>3. TypeOK
    <2>1. free \subseteq Entry
      BY EntryFacts DEF Init
    <2>2. /\ list \in Seq(Entry) /\ grown \in BOOLEAN /\ used \in Nat
          /\ queue \in Seq([c : Entry, seg : Segment, load : BOOLEAN])
          /\ done \in Seq([c : Entry, seg : Segment, load : BOOLEAN, ok : BOOLEAN])
          /\ map \subseteq Segment
      <3>1. \A S : <<>> \in Seq(S)
        OBVIOUS
      <3> QED
        BY <3>1 DEF Init
    <2>3. /\ mem \in [Segment -> {"no", "right", "wrong"}] /\ pinned \subseteq Segment /\ saved \subseteq Segment
          /\ file \in [Segment -> {"none", "partial", "bad", "good"}] /\ metaFile \in BOOLEAN /\ dirty \in BOOLEAN
      BY DEF Init
    <2> QED
      BY <1>1, <1>2, <2>1, <2>2, <2>3 DEF TypeOK, EntryType
  <1>4. SaveHasItsSegment /\ JobsOwnTheirEntry
    BY DEF Init, SaveHasItsSegment, JobsOwnTheirEntry
  <1>5. UsedIsAccounted
    BY <1>1 DEF Init, UsedIsAccounted
  <1>6. JobInv
    <2>1. \A c \in Entry : ent[c] = Empty
      BY DEF Init
    <2> QED
      BY <1>1, <2>1, EntryFacts DEF Init, JobInv
  <1> QED
    BY <1>3, <1>4, <1>5, <1>6 DEF IInv

\* Every step keeps the invariant.
LEMMA NextInv ==
  ASSUME IInv, [Next]_vars
  PROVE  IInv'
  <1>0. TypeOK /\ SaveHasItsSegment
    BY DEF IInv
  <1>1. CASE Main
    <2>1. ASSUME NEW s \in Segment, Pin(s)
          PROVE  IInv'
      <3>1. /\ pinned' = pinned \union {s}
            /\ UNCHANGED <<poolVars, workVars, map, mem, saved, diskVars>>
        BY <2>1 DEF Pin
      <3>2. TypeOK' /\ SaveHasItsSegment'
        BY <1>0, <3>1 DEF TypeOK, SaveHasItsSegment, poolVars, workVars, diskVars
      <3> QED
        BY <3>1, <3>2, QuietInv DEF poolVars, workVars
    <2>2. ASSUME NEW s \in Segment, Unpin(s)
          PROVE  IInv'
      BY <2>2, UnpinInv
    <2>3. ASSUME NEW s \in Segment, NEW md5 \in {"right", "wrong"}, Download(s, md5)
          PROVE  IInv'
      BY <2>3, DownloadInv
    <2>4. CASE on_saved \/ on_not_saved
      BY <2>4, OnSaveInv
    <2>5. CASE check_caches
      <3>1. /\ list' = Reverse(list)
            /\ UNCHANGED <<free, grown, ent, used, workVars, map, dataVars, diskVars>>
        BY <2>5 DEF check_caches
      <3>2. list' \in Seq(Entry)
        BY <1>0, <3>1, ReverseType DEF TypeOK
      <3>3. TypeOK' /\ SaveHasItsSegment'
        BY <1>0, <3>1, <3>2 DEF TypeOK, SaveHasItsSegment, workVars, dataVars, diskVars
      <3> QED
        BY <3>1, <3>3, QuietInv DEF workVars
    <2>6. CASE save_status \/ set_meta
      <3>1. /\ UNCHANGED <<poolVars, workVars, map, dataVars, file>>
            /\ metaFile' \in BOOLEAN /\ dirty' \in BOOLEAN
        BY <1>0, <2>6 DEF save_status, set_meta, TypeOK
      <3>2. TypeOK' /\ SaveHasItsSegment'
        BY <1>0, <3>1 DEF TypeOK, SaveHasItsSegment, poolVars, workVars, dataVars
      <3> QED
        BY <3>1, <3>2, QuietInv DEF poolVars, workVars
    <2> QED
      BY <1>1, <2>1, <2>2, <2>3, <2>4, <2>5, <2>6 DEF Main
  <1>2. CASE Worker
    BY <1>2, WorkerInv
  <1>3. CASE Crash
    BY <1>3, CrashInv
  <1>4. CASE load_cache
    BY <1>4, LoadCacheInv
  <1>5. CASE UNCHANGED vars
    <2>1. UNCHANGED <<poolVars, workVars, map, dataVars, diskVars>>
      BY <1>5 DEF vars
    <2>2. TypeOK' /\ SaveHasItsSegment'
      BY <1>0, <2>1 DEF TypeOK, SaveHasItsSegment, poolVars, workVars, dataVars, diskVars
    <2> QED
      BY <2>1, <2>2, QuietInv DEF poolVars, workVars
  <1> QED
    BY <1>1, <1>2, <1>3, <1>4, <1>5 DEF Next

\* For every resource and every capacity: the worker never reads a segment that was
\* released, no entry is given to another segment before on_save has run for it, and
\* used_ counts the blocks of the entries in use once each (DiskCachePool.cpp:76,
\* :131), through failed saves, evictions, growth, crashes and restarts.
THEOREM DiskCacheCorrect == Spec => []IInv
  BY InitInv, NextInv, PTL DEF Spec

-----------------------------------------------------------------------------
(* The files.  What the argument for them needs beside IInv is that a segment has one  *)
(* master at a time: the list of the files to be loaded, the entry whose job is under  *)
(* way, or the entry of the saved file; so no job touches the file of another.         *)

Held(c)   == ent[c].lock
Cached(c) == ent[c].data = "this"

HeldInv ==
  /\ \A c \in Entry : Held(c) => ent[c].data = "segment" /\ ent[c].seg \notin saved /\ ent[c].seg \notin map
  /\ \A c \in Entry : Held(c) /\ ~ent[c].load => mem[ent[c].seg] # "no"
  /\ \A c, d \in Entry : Held(c) /\ Held(d) /\ ent[c].seg = ent[d].seg => c = d
  /\ map # {} => saved = {}

CachedInv ==
  /\ \A c \in Entry : Cached(c) => ~External /\ ent[c].seg \in saved
  /\ \A c, d \in Entry : Cached(c) /\ Cached(d) /\ ent[c].seg = ent[d].seg => c = d
  /\ ~External => \A s \in saved : \E c \in Entry : Cached(c) /\ ent[c].seg = s

FileInv ==
  /\ SavedIsOnDisk
  /\ \A i \in DOMAIN done : done[i].ok => file[done[i].seg] = "good"
  /\ run.writing => run # NoRun /\ file[run.seg] = "partial"

SavedInv == HeldInv /\ CachedInv /\ FileInv

-----------------------------------------------------------------------------
(* What alloc_cache does to the masters of the segments *)

\* Every job and every result has an entry that is held, and two of them two.
LEMMA HeldJobs ==
  ASSUME IInv
  PROVE  /\ \A i \in DOMAIN queue : /\ queue[i].c \in Entry /\ queue[i].seg \in Segment
                                    /\ Held(queue[i].c) /\ ent[queue[i].c].seg = queue[i].seg
         /\ \A i \in DOMAIN done : /\ done[i].c \in Entry /\ done[i].seg \in Segment
                                   /\ Held(done[i].c) /\ ent[done[i].c].seg = done[i].seg
         /\ run # NoRun => /\ run.c \in Entry /\ run.seg \in Segment
                           /\ Held(run.c) /\ ent[run.c].seg = run.seg
                           /\ \A i \in DOMAIN done : done[i].c # run.c
         /\ \A i, j \in DOMAIN done : done[i].c = done[j].c => i = j
  <1>1. \A j : Own(ent, j) => Held(j.c) /\ ent[j.c].seg = j.seg
    BY DEF Own, Held
  <1>2. JobInv
    BY DEF IInv
  <1>3. /\ \A i \in DOMAIN queue : queue[i] \in Job /\ Own(ent, queue[i])
        /\ \A i \in DOMAIN done : done[i] \in Answer /\ Own(ent, done[i])
        /\ run # NoRun => run.c \in Entry /\ run.seg \in Segment /\ Own(ent, run)
    BY JobFacts
  <1> QED
    BY <1>1, <1>2, <1>3 DEF Job, Answer, JobInv

\* What alloc_cache does to the entries: one (0: none) is taken for s, and another, or
\* the same, was that of a saved file, which is removed.
LEMMA AllocShape ==
  ASSUME IInv, SavedInv, NEW s \in Segment, NEW load \in BOOLEAN, alloc_cache(s, load)
  PROVE  \E lost \in SUBSET saved, c \in {0} \union Entry :
           /\ saved' = saved \ lost
           /\ file' = [x \in Segment |-> IF x \in lost THEN "none" ELSE file[x]]
           /\ \A d \in Entry : Held(d) \/ (Cached(d) /\ ent[d].seg \notin lost) => ent'[d] = ent[d] /\ d # c
           /\ \A d \in Entry : Held(d)' => ent'[d] = ent[d] \/ d = c
           /\ \A d \in Entry : Cached(d)' => ent'[d] = ent[d] /\ ent[d].seg \notin lost
           /\ c \in Entry => ent'[c] = [seg |-> s, load |-> load, data |-> "segment", lock |-> TRUE]
  <1> DEFINE e == Evicted
             c == CHOOSE x \in e.free : TRUE
             n == [seg |-> s, load |-> load, data |-> "segment", lock |-> TRUE]
  <1>1. /\ ent \in [Entry -> EntryType] /\ e.ent \in [Entry -> EntryType] /\ e.free \subseteq Entry
        /\ \A d \in e.free : e.ent[d] = Empty
        /\ 0 \notin Entry
    BY EvictedFacts, JobFacts, EntryFacts
  <1>2. /\ saved' = saved \ e.lost
        /\ file' = [x \in Segment |-> IF x \in e.lost THEN "none" ELSE file[x]]
    BY DEF alloc_cache
  <1>3. /\ \A d \in Entry : Held(d) => ent[d].data = "segment" /\ ~Cached(d)
        /\ \A d \in Entry : Cached(d) => ent[d].seg \in saved
        /\ \A a, b \in Entry : Cached(a) /\ Cached(b) /\ ent[a].seg = ent[b].seg => a = b
    BY DEF SavedInv, HeldInv, CachedInv, Held, Cached
  <1>4. /\ e.lost \in SUBSET saved
        /\ \A d \in Entry : \/ e.ent[d] = ent[d] /\ (Cached(d) => ent[d].seg \notin e.lost)
                            \/ e.ent[d] = Empty /\ Cached(d) /\ ent[d].seg \in e.lost
    <2>1. CASE ~CanEvict
      BY <2>1 DEF Evicted
    <2>2. CASE CanEvict
      <3> DEFINE h == Head(list)
      <3>1. e.ent = [ent EXCEPT ![h] = Empty] /\ e.lost = {ent[h].seg} /\ Cached(h)
        BY <2>2 DEF Evicted, CanEvict, Cached
      <3>2. h \in Entry
        <4>1. list \in Seq(Entry) /\ list # <<>>
          BY <2>2 DEF IInv, TypeOK, CanEvict
        <4> QED
          BY <4>1
      <3> HIDE DEF e, h
      <3> QED
        BY <1>1, <1>3, <3>1, <3>2
    <2> QED
      BY <2>1, <2>2
  <1>5. Empty.data = "NULL" /\ Empty.lock = FALSE
    BY DEF Empty
  <1>6. CASE ~HasRoom(e, s, load)
    <2>1. ent' = e.ent
      BY <1>6 DEF alloc_cache
    <2> HIDE DEF e, c, n
    <2>2. /\ \A d \in Entry : Held(d) \/ (Cached(d) /\ ent[d].seg \notin e.lost) => ent'[d] = ent[d] /\ d # 0
          /\ \A d \in Entry : Held(d)' => ent'[d] = ent[d]
          /\ \A d \in Entry : Cached(d)' => ent'[d] = ent[d] /\ ent[d].seg \notin e.lost
      BY <1>1, <1>3, <1>4, <1>5, <2>1 DEF Held, Cached
    <2> QED
      BY <1>1, <1>2, <1>4, <2>2
  <1>7. CASE HasRoom(e, s, load)
    <2>1. ent' = [e.ent EXCEPT ![c] = n]
      BY <1>7 DEF alloc_cache
    <2>2. c \in e.free /\ c \in Entry
      BY <1>1, <1>7 DEF HasRoom
    <2>3. n.data = "segment" /\ n.lock
      OBVIOUS
    <2> HIDE DEF e, c, n
    <2>4. ent'[c] = n /\ e.ent[c] = Empty /\ \A d \in Entry \ {c} : ent'[d] = e.ent[d]
      BY <1>1, <2>1, <2>2
    <2>5. /\ \A d \in Entry : Held(d) \/ (Cached(d) /\ ent[d].seg \notin e.lost) => ent'[d] = ent[d] /\ d # c
          /\ \A d \in Entry : Held(d)' => ent'[d] = ent[d] \/ d = c
          /\ \A d \in Entry : Cached(d)' => ent'[d] = ent[d] /\ ent[d].seg \notin e.lost
      BY <1>3, <1>4, <1>5, <2>2, <2>3, <2>4 DEF Held, Cached
    <2>6. c \in {0} \union Entry /\ ent'[c] = [seg |-> s, load |-> load, data |-> "segment", lock |-> TRUE]
      BY <2>2, <2>4 DEF n
    <2> QED
      BY <1>2, <1>4, <2>5, <2>6
  <1> QED
    BY <1>6, <1>7

\* A job is given out for a segment that has no master.
LEMMA AllocSaved ==
  ASSUME IInv, IInv', SavedInv, NEW s \in Segment, NEW load \in BOOLEAN, alloc_cache(s, load),
         s \notin saved, s \notin map', map' \subseteq map,
         \A c \in Entry : Held(c) => ent[c].seg # s,
         load \/ mem'[s] # "no", \A t \in Segment : mem[t] # "no" => mem'[t] # "no"
  PROVE  SavedInv'
  <1>1. PICK lost \in SUBSET saved, c \in {0} \union Entry :
           /\ saved' = saved \ lost
           /\ file' = [x \in Segment |-> IF x \in lost THEN "none" ELSE file[x]]
           /\ \A d \in Entry : Held(d) \/ (Cached(d) /\ ent[d].seg \notin lost) => ent'[d] = ent[d] /\ d # c
           /\ \A d \in Entry : Held(d)' => ent'[d] = ent[d] \/ d = c
           /\ \A d \in Entry : Cached(d)' => ent'[d] = ent[d] /\ ent[d].seg \notin lost
           /\ c \in Entry => ent'[c] = [seg |-> s, load |-> load, data |-> "segment", lock |-> TRUE]
    BY AllocShape
  <1>2. saved \subseteq Segment /\ UNCHANGED <<done, run>>
    BY DEF IInv, TypeOK, alloc_cache
  <1>3. /\ \A d \in Entry : (Held(d) <=> ent[d].lock) /\ (Held(d)' <=> ent'[d].lock)
        /\ \A d \in Entry : (Cached(d) <=> ent[d].data = "this") /\ (Cached(d)' <=> ent'[d].data = "this")
    BY DEF Held, Cached
  <1>4. HeldInv'
    <2>1. \A d \in Entry : Held(d)' => \/ Held(d) /\ d # c /\ ent'[d] = ent[d]
                                       \/ d = c /\ ent'[d].seg = s /\ ent'[d].load = load /\ ent'[d].data = "segment"
      BY <1>1, <1>3
    <2>2. \A d \in Entry : Held(d) => ent[d].seg \in Segment
      BY DEF IInv, JobInv, InUse, Held
    <2>3. \A d \in Entry : Held(d)' => /\ ent'[d].data = "segment" /\ ent'[d].seg \notin saved'
                                       /\ ent'[d].seg \notin map'
      BY <1>1, <2>1 DEF SavedInv, HeldInv
    <2>4. \A d \in Entry : Held(d)' /\ ~ent'[d].load => mem'[ent'[d].seg] # "no"
      BY <2>1, <2>2 DEF SavedInv, HeldInv
    <2>5. \A a, b \in Entry : Held(a)' /\ Held(b)' /\ ent'[a].seg = ent'[b].seg => a = b
      BY <2>1 DEF SavedInv, HeldInv
    <2>6. map' # {} => saved' = {}
      BY <1>1 DEF SavedInv, HeldInv
    <2> QED
      BY <2>3, <2>4, <2>5, <2>6 DEF HeldInv
  <1>5. CachedInv'
    <2>1. \A d \in Entry : Cached(d)' <=> Cached(d) /\ ent[d].seg \notin lost
      BY <1>1, <1>3
    <2>2. \A d \in Entry : Cached(d)' => ent'[d] = ent[d]
      BY <1>1
    <2> QED
      BY <1>1, <2>1, <2>2 DEF SavedInv, CachedInv
  <1>6. FileInv'
    <2>1. \A d \in Entry : Held(d) => ent[d].seg \notin lost
      BY <1>1 DEF SavedInv, HeldInv
    <2>2. /\ \A i \in DOMAIN done : done[i].seg \in Segment \ lost
          /\ run # NoRun => run.seg \in Segment \ lost
      BY <2>1, HeldJobs
    <2> QED
      BY <1>1, <1>2, <2>2 DEF SavedInv, FileInv, SavedIsOnDisk
  <1> QED
    BY <1>4, <1>5, <1>6 DEF SavedInv

-----------------------------------------------------------------------------
(* The steps, for the files *)

\* The main thread gives jobs out.
LEMMA DownloadSaved ==
  ASSUME ~ConcurrentLoad, IInv, IInv', SavedInv,
         NEW s \in Segment, NEW md5 \in {"right", "wrong"}, Download(s, md5)
  PROVE  SavedInv'
  <1>1. /\ map = {} /\ map' = map /\ mem[s] = "no" /\ s \notin saved /\ ~Loading(s)
        /\ mem' = [mem EXCEPT ![s] = md5] /\ mem \in [Segment -> {"no", "right", "wrong"}]
    BY DEF Download, IInv, TypeOK
  <1>2. mem'[s] # "no" /\ \A t \in Segment : mem[t] # "no" => mem'[t] # "no"
    BY <1>1
  <1>3. CASE alloc_cache(s, FALSE)
    <2>1. \A c \in Entry : Held(c) => ent[c].seg # s
      BY <1>1 DEF SavedInv, HeldInv, Loading, Held
    <2> QED
      BY <1>1, <1>2, <1>3, <2>1, AllocSaved
  <1>4. CASE UNCHANGED <<poolVars, workVars, saved, file>>
    <2>1. UNCHANGED <<ent, done, run, saved, file, map>>
      BY <1>1, <1>4 DEF poolVars, workVars
    <2>2. \A c \in Entry : Held(c) => ent[c].seg \in Segment
      BY DEF IInv, JobInv, InUse, Held
    <2>3. HeldInv'
      BY <1>2, <2>1, <2>2 DEF SavedInv, HeldInv, Held
    <2>4. CachedInv' /\ FileInv'
      BY <2>1 DEF SavedInv, CachedInv, FileInv, SavedIsOnDisk, Cached
    <2> QED
      BY <2>3, <2>4 DEF SavedInv
  <1> QED
    BY <1>3, <1>4 DEF Download

\* load_cache keeps the invariant of saved segments.
LEMMA LoadCacheSaved ==
  ASSUME IInv, IInv', SavedInv, load_cache
  PROVE  SavedInv'
  <1>1. PICK s \in map : map' = map \ {s} /\ alloc_cache(s, TRUE)
    BY DEF load_cache
  <1>2. s \in Segment /\ mem' = mem
    BY DEF load_cache, IInv, TypeOK
  <1>3. s \notin saved /\ \A c \in Entry : Held(c) => ent[c].seg # s
    BY DEF SavedInv, HeldInv
  <1> QED
    BY <1>1, <1>2, <1>3, AllocSaved

\* What no job and no entry is touched by: what is held stays in memory.
LEMMA QuietSaved ==
  ASSUME IInv, SavedInv, UNCHANGED <<ent, done, run, saved, file, map>>,
         mem' = mem \/ mem' = Keep(ent, pinned')
  PROVE  SavedInv'
  <1>1. \A c \in Entry : Held(c) => ent[c].seg \in Segment
    BY DEF IInv, JobInv, InUse, Held
  <1>2. \A c \in Entry : Held(c) /\ ~ent[c].load => mem'[ent[c].seg] = mem[ent[c].seg]
    BY <1>1 DEF Keep, KeptBy, Held
  <1>3. HeldInv'
    BY <1>2 DEF SavedInv, HeldInv, Held
  <1>4. CachedInv' /\ FileInv'
    BY DEF SavedInv, CachedInv, FileInv, SavedIsOnDisk, Cached
  <1> QED
    BY <1>3, <1>4 DEF SavedInv

\* A result is handled: the segment goes over from the job to the entry of its file, or to
\* nobody.
LEMMA OnSaveSaved ==
  ASSUME IInv, SavedInv, on_saved \/ on_not_saved
  PROVE  SavedInv'
  <1> DEFINE h == Head(done)
  <1>1. /\ h = done[1] /\ 1 \in DOMAIN done /\ done' = Tail(done) /\ map = {}
        /\ mem' = Keep(ent', pinned) /\ UNCHANGED <<run, map, file>>
        /\ \A i \in DOMAIN Tail(done) : i + 1 \in DOMAIN done /\ Tail(done)[i] = done[i + 1] /\ i + 1 # 1
    BY JobFacts DEF on_saved, on_not_saved, diskVars
  <1>2. /\ h.c \in Entry /\ h.seg \in Segment /\ Held(h.c) /\ ent[h.c].seg = h.seg
        /\ ent \in [Entry -> EntryType] /\ ent[h.c] \in EntryType
    BY <1>1, HeldJobs, JobFacts
  <1> HIDE DEF h
  <1>3. /\ ent[h.c].data = "segment" /\ h.seg \notin saved
        /\ \A c \in Entry \ {h.c} : Held(c) => ent[c].seg # h.seg
    BY <1>2 DEF SavedInv, HeldInv
  <1>4. /\ \A c \in Entry \ {h.c} : ent'[c] = ent[c]
        /\ ~ent'[h.c].lock /\ ent'[h.c].seg = h.seg
        /\ \/ ent'[h.c].data = "this" /\ saved' = saved \union {h.seg} /\ h.ok /\ ~External
           \/ ent'[h.c].data = "segment" /\ saved' = saved /\ ~h.ok
           \/ ent'[h.c].data = "segment" /\ saved' = saved \union {h.seg} /\ h.ok /\ External
    <2>1. CASE on_saved
      <3>1. /\ ent' = [ent EXCEPT ![h.c].data = "this", ![h.c].lock = FALSE]
            /\ saved' = saved \union {h.seg} /\ h.ok /\ ~External
        BY <2>1 DEF on_saved, h
      <3>2. ent'[h.c] = [ent[h.c] EXCEPT !.data = "this", !.lock = FALSE]
        BY <1>2, <3>1 DEF EntryType
      <3>3. \A c \in Entry \ {h.c} : ent'[c] = ent[c]
        BY <1>2, <3>1 DEF EntryType
      <3> QED
        BY <1>2, <3>1, <3>2, <3>3 DEF EntryType
    <2>2. CASE on_not_saved
      <3>1. /\ ent' = [ent EXCEPT ![h.c].lock = FALSE]
            /\ saved' = IF h.ok THEN saved \union {h.seg} ELSE saved
            /\ External \/ ~h.ok
        BY <2>2 DEF on_not_saved, h
      <3>2. ent'[h.c] = [ent[h.c] EXCEPT !.lock = FALSE]
        BY <1>2, <3>1 DEF EntryType
      <3>3. \A c \in Entry \ {h.c} : ent'[c] = ent[c]
        BY <1>2, <3>1 DEF EntryType
      <3> QED
        BY <1>2, <1>3, <3>1, <3>2, <3>3 DEF EntryType
    <2> QED
      BY <2>1, <2>2
  <1>5. \A c \in Entry : Held(c)' <=> Held(c) /\ c # h.c
    BY <1>2, <1>4 DEF Held
  <1>6. HeldInv'
    <2>1. \A c \in Entry : Held(c) => ent[c].seg \in Segment
      BY DEF IInv, JobInv, InUse, Held
    <2>2. \A c \in Entry : Held(c)' /\ ~ent'[c].load => mem'[ent'[c].seg] = mem[ent[c].seg]
      BY <1>1, <1>4, <1>5, <2>1 DEF Keep, KeptBy, Held
    <2> QED
      BY <1>1, <1>3, <1>4, <1>5, <2>2 DEF SavedInv, HeldInv
  <1>7. CachedInv'
    <2>1. \A c \in Entry : Cached(c)' <=> Cached(c) \/ (c = h.c /\ ent'[h.c].data = "this")
      BY <1>2, <1>3, <1>4 DEF Cached
    <2>2. ~Cached(h.c)
      BY <1>3 DEF Cached
    <2>3. \A c \in Entry : Cached(c)' => ~External /\ ent'[c].seg \in saved'
      BY <1>2, <1>4, <2>1, <2>2 DEF SavedInv, CachedInv
    <2>4. \A c, d \in Entry : Cached(c)' /\ Cached(d)' /\ ent'[c].seg = ent'[d].seg => c = d
      BY <1>2, <1>3, <1>4, <2>1, <2>2 DEF SavedInv, CachedInv
    <2>5. ~External => \A s \in saved' : \E c \in Entry : Cached(c)' /\ ent'[c].seg = s
      BY <1>2, <1>4, <2>1, <2>2 DEF SavedInv, CachedInv
    <2> QED
      BY <2>3, <2>4, <2>5 DEF CachedInv
  <1>8. FileInv'
    <2>1. \A s \in saved' : file'[s] = "good"
      BY <1>1, <1>4 DEF SavedInv, FileInv, SavedIsOnDisk, h
    <2>2. \A i \in DOMAIN done' : done'[i].ok => file'[done'[i].seg] = "good"
      BY <1>1 DEF SavedInv, FileInv
    <2> QED
      BY <1>1, <2>1, <2>2 DEF SavedInv, FileInv, SavedIsOnDisk
  <1> QED
    BY <1>6, <1>7, <1>8 DEF SavedInv

\* The worker writes, checks or removes no file but that of its job.
LEMMA WorkerSaved ==
  ASSUME IInv, SavedInv, Worker
  PROVE  SavedInv'
  <1>1. UNCHANGED <<poolVars, map, dataVars>> /\ UNCHANGED <<ent, saved, mem>>
    BY DEF Worker, StartJob, OpenFile, SaveFails, CloseFile, CheckFile, poolVars, dataVars
  <1>2. HeldInv' /\ CachedInv'
    BY <1>1 DEF SavedInv, HeldInv, CachedInv, Held, Cached
  <1>3. /\ file \in [Segment -> {"none", "partial", "bad", "good"}] /\ FileInv
        /\ run \in [c : {0} \union Entry, seg : 0 .. SegCount, load : BOOLEAN, writing : BOOLEAN]
    BY DEF IInv, TypeOK, SavedInv
  <1>4. run # NoRun => /\ run.seg \in Segment /\ run.seg \notin saved
                       /\ \A i \in DOMAIN done : done[i].seg # run.seg
    BY HeldJobs DEF SavedInv, HeldInv
  <1>5. \A i \in DOMAIN done : done[i].seg \in Segment
    BY HeldJobs
  <1>6. saved \subseteq Segment /\ done \in Seq(Answer)
    BY JobFacts DEF IInv, TypeOK
  <1>7. ASSUME NEW ok \in BOOLEAN, run # NoRun, Result(ok), run' = NoRun,
               \A t \in Segment \ {run.seg} : file'[t] = file[t], ok => file'[run.seg] = "good"
        PROVE  FileInv'
    <2> DEFINE a == [c |-> run.c, seg |-> run.seg, load |-> run.load, ok |-> ok]
    <2>1. done' = Append(done, a) /\ a.seg = run.seg /\ a.ok = ok
      BY <1>7 DEF Result
    <2> HIDE DEF a
    <2>2. \A i \in DOMAIN done' : (i \in DOMAIN done /\ done'[i] = done[i]) \/ done'[i] = a
      BY <1>6, <2>1
    <2>3. ~run'.writing
      BY <1>7 DEF NoRun
    <2>4. \A i \in DOMAIN done' : done'[i].ok => file'[done'[i].seg] = "good"
      BY <1>3, <1>4, <1>5, <1>7, <2>1, <2>2 DEF FileInv
    <2>5. \A s \in saved' : file'[s] = "good"
      BY <1>1, <1>3, <1>4, <1>6, <1>7 DEF FileInv, SavedIsOnDisk
    <2> QED
      BY <2>3, <2>4, <2>5 DEF FileInv, SavedIsOnDisk
  <1>8. CASE StartJob
    <2>1. UNCHANGED <<done, file>> /\ run'.writing = FALSE
      BY <1>8 DEF StartJob, diskVars
    <2> QED
      BY <1>1, <1>2, <1>3, <2>1 DEF SavedInv, FileInv, SavedIsOnDisk
  <1>9. CASE OpenFile
    <2>1. /\ run # NoRun /\ done' = done /\ file' = [file EXCEPT ![run.seg] = "partial"]
          /\ run' = [run EXCEPT !.writing = TRUE]
      BY <1>9 DEF OpenFile
    <2>2. run'.seg = run.seg /\ run'.writing = TRUE
      BY <1>3, <2>1
    <2>3. run' # NoRun
      BY <2>2 DEF NoRun
    <2>4. file'[run.seg] = "partial" /\ \A t \in Segment \ {run.seg} : file'[t] = file[t]
      BY <1>3, <1>4, <2>1
    <2> QED
      BY <1>1, <1>2, <1>3, <1>4, <1>5, <1>6, <2>1, <2>2, <2>3, <2>4 DEF SavedInv, FileInv, SavedIsOnDisk
  <1>10. CASE SaveFails
    <2>1. run # NoRun /\ Result(FALSE) /\ run' = NoRun /\ file' = file
      BY <1>10 DEF SaveFails, diskVars
    <2> QED
      BY <1>2, <1>7, <2>1 DEF SavedInv
  <1>11. CASE CloseFile
    <2>1. /\ run.writing /\ Result(TRUE) /\ run' = NoRun
          /\ file' = [file EXCEPT ![run.seg] = IF @ = "none" THEN @ ELSE "good"]
      BY <1>11 DEF CloseFile
    <2>2. run # NoRun /\ file[run.seg] = "partial"
      BY <1>3, <2>1 DEF FileInv
    <2>3. file'[run.seg] = "good" /\ \A t \in Segment \ {run.seg} : file'[t] = file[t]
      BY <1>3, <1>4, <2>1, <2>2
    <2> QED
      BY <1>2, <1>7, <2>1, <2>2, <2>3 DEF SavedInv
  <1>12. CASE CheckFile
    <2>1. /\ run # NoRun /\ Result(file[run.seg] = "good") /\ run' = NoRun
          /\ file' = [file EXCEPT ![run.seg] = IF @ = "good" THEN @ ELSE "none"]
      BY <1>12 DEF CheckFile
    <2>2. /\ file[run.seg] = "good" => file'[run.seg] = "good"
          /\ \A t \in Segment \ {run.seg} : file'[t] = file[t]
      BY <1>3, <1>4, <2>1
    <2>3. (file[run.seg] = "good") \in BOOLEAN
      OBVIOUS
    <2> QED
      BY <1>2, <1>7, <2>1, <2>2, <2>3 DEF SavedInv
  <1> QED
    BY <1>8, <1>9, <1>10, <1>11, <1>12 DEF Worker

\* After a restart nothing is saved until it has been checked.
LEMMA CrashSaved ==
  ASSUME Crash
  PROVE  SavedInv'
  <1>1. ent' = [c \in Entry |-> Empty] /\ done' = <<>> /\ run' = NoRun /\ saved' = {}
    BY DEF Crash, Startup
  <1>2. \A c \in Entry : ~Held(c)' /\ ~Cached(c)'
    BY <1>1 DEF Held, Cached, Empty
  <1>3. DOMAIN done' = {} /\ ~run'.writing
    BY <1>1 DEF NoRun
  <1> QED
    BY <1>1, <1>2, <1>3 DEF SavedInv, HeldInv, CachedInv, FileInv, SavedIsOnDisk

\* Nothing is saved at the start.
LEMMA InitSaved ==
  ASSUME Init
  PROVE  SavedInv
  <1>1. \A c \in Entry : ~Held(c) /\ ~Cached(c)
    BY DEF Init, Held, Cached, Empty
  <1>2. DOMAIN done = {} /\ ~run.writing
    BY DEF Init, NoRun
  <1> QED
    BY <1>1, <1>2 DEF Init, SavedInv, HeldInv, CachedInv, FileInv, SavedIsOnDisk

\* Every step keeps the invariant of saved segments.
LEMMA NextSaved ==
  ASSUME ~ConcurrentLoad, IInv, IInv', SavedInv, [Next]_vars
  PROVE  SavedInv'
  <1>1. CASE Main
    <2>1. ASSUME NEW s \in Segment, Pin(s) \/ Unpin(s)
          PROVE  SavedInv'
      BY <2>1, QuietSaved DEF Pin, Unpin, poolVars, workVars, diskVars
    <2>2. ASSUME NEW s \in Segment, NEW md5 \in {"right", "wrong"}, Download(s, md5)
          PROVE  SavedInv'
      BY <2>2, DownloadSaved
    <2>3. CASE on_saved \/ on_not_saved
      BY <2>3, OnSaveSaved
    <2>4. CASE check_caches \/ save_status \/ set_meta
      BY <2>4, QuietSaved DEF check_caches, save_status, set_meta, poolVars, workVars, dataVars, diskVars
    <2> QED
      BY <1>1, <2>1, <2>2, <2>3, <2>4 DEF Main
  <1>2. CASE Worker
    BY <1>2, WorkerSaved
  <1>3. CASE Crash
    BY <1>3, CrashSaved
  <1>4. CASE load_cache
    BY <1>4, LoadCacheSaved
  <1>5. CASE UNCHANGED vars
    BY <1>5, QuietSaved DEF vars, poolVars, workVars, dataVars, diskVars
  <1> QED
    BY <1>1, <1>2, <1>3, <1>4, <1>5 DEF Next

\* When no segment is downloaded while its file is checked, every segment has one master
\* at a time: at most one job, entry or listed file (DiskCachePool.cpp:31, :76, :131).
THEOREM OneMaster ==
  ASSUME ~ConcurrentLoad
  PROVE  Spec => []SavedInv
  <1>1. Init => SavedInv
    BY InitSaved
  <1>2. IInv /\ IInv' /\ SavedInv /\ [Next]_vars => SavedInv'
    BY NextSaved
  <1> QED
    BY <1>1, <1>2, DiskCacheCorrect, PTL DEF Spec

\* Then a segment that is marked as saved has its file, complete and with the right md5,
\* through failed writes, evictions, crashes and restarts (ResourceCache.cpp:177).
THEOREM SavedFilesAreThere ==
  ASSUME ~ConcurrentLoad
  PROVE  Spec => []SavedIsOnDisk
  <1>1. SavedInv => SavedIsOnDisk
    BY DEF SavedInv, FileInv
  <1> QED
    BY <1>1, OneMaster, PTL

\* And exactly one entry of the pool is there to evict it (DiskCachePool.cpp:131).
THEOREM SavedFilesCanBeEvicted ==
  ASSUME ~ConcurrentLoad
  PROVE  Spec => []SavedHasOneEntry
  <1>1. ASSUME SavedInv
        PROVE  SavedHasOneEntry
    <2> SUFFICES ASSUME ~External, NEW s \in saved
                 PROVE  Cardinality({c \in Entry : ent[c].seg = s /\ ent[c].data = "this"}) = 1
      BY DEF SavedHasOneEntry
    <2>1. PICK c \in Entry : Cached(c) /\ ent[c].seg = s
      BY <1>1 DEF SavedInv, CachedInv
    <2>2. {d \in Entry : ent[d].seg = s /\ ent[d].data = "this"} = {c}
      BY <1>1, <2>1 DEF SavedInv, CachedInv, Cached
    <2> QED
      BY <2>2, FS_Singleton
  <1> QED
    BY <1>1, OneMaster, PTL
=============================================================================
