----------------------------- MODULE RangeLock -----------------------------
(***************************************************************************)
(* The range locks of core/ResourceData.cpp.  alloc_lock only inserts a    *)
(* lock; modify_lock and release_lock take the old range and walk the      *)
(* remaining locks in the order of their `from' (remove_lock), releasing   *)
(* the gaps.  The walk is modelled one iteration of the loop per step, so  *)
(* that its invariant can be stated and proved; in the program it runs to  *)
(* its end before anything else happens, so the other operations wait.     *)
(*                                                                         *)
(* The callers' contract is from <= to: Sink::seek_to, the window of       *)
(* CdnDownloader and the caches only build such ranges.                    *)
(***************************************************************************)
EXTENDS Naturals

CONSTANTS
  Lock,     \* lock handles
  MaxPos    \* positions are 0 .. MaxPos

ASSUME MaxPosAssumption == MaxPos \in Nat

VARIABLES
  held,     \* locks_: the locks in the ordered multiset
  range,    \* Lock::from, Lock::to
  stored,   \* positions whose piece is in memory
  walk      \* the state of remove_lock: its argument l and the locks not visited

lockVars == <<held, range, stored, walk>>

Pos   == 0 .. MaxPos
Ranges == {r \in [from : Pos, to : Pos] : r.from <= r.to}

Interval(f, t)   == {x \in Pos : f <= x /\ x < t}
CoveredBy(S, rg) == {x \in Pos : \E l \in S : rg[l].from <= x /\ x < rg[l].to}

NoRange == [from |-> 0, to |-> 0]

Walk == [on : BOOLEAN, from : Pos, to : Pos, todo : SUBSET Lock]
Idle == [on |-> FALSE, from |-> 0, to |-> 0, todo |-> {}]

LocksInit ==
  /\ held = {}
  /\ range = [l \in Lock |-> NoRange]
  /\ stored = {}
  /\ walk = Idle

\* Pieces are put into memory (set_piece one, map_block those of a block).
Store(r) ==
  /\ ~walk.on
  /\ stored' = stored \union Interval(r.from, r.to)
  /\ UNCHANGED <<held, range, walk>>

alloc_lock(l, r) ==
  /\ ~walk.on
  /\ l \notin held
  /\ held' = held \union {l}
  /\ range' = [range EXCEPT ![l] = r]
  /\ UNCHANGED <<stored, walk>>

\* The entry of remove_lock: an empty range returns at once, any other is
\* walked against the locks S that are in the multiset.
remove_lock(o, S) ==
  walk' = IF o.from = o.to THEN Idle
          ELSE [on |-> TRUE, from |-> o.from, to |-> o.to, todo |-> S]

\* Mutant of modify_lock: the old range is removed before the new one is inserted.
modify_lock_RemoveFirst(l, r) ==
  /\ ~walk.on
  /\ l \in held
  /\ range' = [range EXCEPT ![l] = r]
  /\ remove_lock(range[l], held \ {l})
  /\ UNCHANGED <<held, stored>>

\* The new range is inserted before the old one is removed.
modify_lock(l, r) ==
  /\ ~walk.on
  /\ l \in held
  /\ range' = [range EXCEPT ![l] = r]
  /\ remove_lock(range[l], held)
  /\ UNCHANGED <<held, stored>>

release_lock(l) ==
  /\ ~walk.on
  /\ l \in held
  /\ held' = held \ {l}
  /\ range' = [range EXCEPT ![l] = NoRange]
  /\ remove_lock(range[l], held \ {l})
  /\ UNCHANGED stored

release(f, t) == stored' = stored \ Interval(f, t)

\* l is the next lock in the order of `from'; locks with the same `from' are
\* in any order.
NextLock(l) ==
  /\ walk.on
  /\ l \in walk.todo
  /\ \A m \in walk.todo : range[l].from <= range[m].from

\* Mutant of Advance: the beginning of what is left does not move.
Advance_Stays(l, f) == walk' = [walk EXCEPT !.todo = @ \ {l}]

Advance(l, f) == walk' = [on |-> TRUE, from |-> f, to |-> walk.to, todo |-> walk.todo \ {l}]
Return        == walk' = Idle

\* The lock ends before the range that is left: continue.
SkipLock(l) ==
  /\ NextLock(l)
  /\ range[l].from <= walk.from
  /\ range[l].to <= walk.from
  /\ Advance(l, walk.from)
  /\ UNCHANGED <<held, range, stored>>

\* The lock covers the beginning, or all, of the range that is left.
CoverHead(l) ==
  /\ NextLock(l)
  /\ range[l].from <= walk.from
  /\ walk.from < range[l].to
  /\ IF range[l].to < walk.to THEN Advance(l, range[l].to) ELSE Return
  /\ UNCHANGED <<held, range, stored>>

\* There is a gap before the lock: release it.
ReleaseGap(l) ==
  /\ NextLock(l)
  /\ walk.from < range[l].from
  /\ range[l].from < walk.to
  /\ release(walk.from, range[l].from)
  /\ IF range[l].to < walk.to THEN Advance(l, range[l].to) ELSE Return
  /\ UNCHANGED <<held, range>>

\* Mutant of ReleaseRest: the end of the loop forgets the rest of the range.
ReleaseRest_Forgotten ==
  /\ walk.on
  /\ \/ walk.todo = {}
     \/ \E l \in Lock : NextLock(l) /\ walk.from < range[l].from /\ walk.to <= range[l].from
  /\ Return
  /\ UNCHANGED <<held, range, stored>>

\* No lock, or none that begins inside the range, is left.
ReleaseRest ==
  /\ walk.on
  /\ \/ walk.todo = {}
     \/ \E l \in Lock : /\ NextLock(l)
                        /\ walk.from < range[l].from
                        /\ walk.to <= range[l].from
  /\ release(walk.from, walk.to)
  /\ Return
  /\ UNCHANGED <<held, range>>

Loop == ReleaseRest \/ \E l \in Lock : SkipLock(l) \/ CoverHead(l) \/ ReleaseGap(l)

LocksNext ==
  \/ \E r \in Ranges : Store(r)
  \/ \E l \in Lock, r \in Ranges : alloc_lock(l, r) \/ modify_lock(l, r)
  \/ \E l \in Lock : release_lock(l)
  \/ Loop

LocksSpec == LocksInit /\ [][LocksNext]_lockVars

-----------------------------------------------------------------------------
(* Properties *)

LocksTypeOK ==
  /\ held \in SUBSET Lock
  /\ range \in [Lock -> Ranges]
  /\ stored \in SUBSET Pos
  /\ walk \in Walk

\* What the walk still has to release.
Pending ==
  IF walk.on THEN Interval(walk.from, walk.to) \ CoveredBy(held, range) ELSE {}

\* The state of the loop of remove_lock: something is left to do, only held
\* locks are visited, and the locks already passed cover nothing of the rest.
WalkInv ==
  walk.on => /\ walk.from < walk.to
             /\ walk.todo \subseteq held
             /\ \A l \in held \ walk.todo : range[l].to <= walk.from \/ walk.to <= range[l].from

\* The invariant of remove_lock (ResourceData.cpp:270) that its iterations keep.
LocksInv == LocksTypeOK /\ WalkInv

\* Data that a lock covers before and after a step stays in memory: neither the
\* move of another lock nor the end of one releases it (ResourceData::remove_lock).
LockedDataStays ==
  [][\A x \in stored : x \in CoveredBy(held, range) /\ x \in CoveredBy(held', range')
       => x \in stored']_lockVars

\* The walk as a whole releases exactly the part of the old range that no lock
\* covers: taking as stored what is stored and not pending, every operation of
\* ResourceData is the single step of the abstract store.
Abs == INSTANCE LockedStore WITH stored <- stored \ Pending
ImplementsLockedStore == Abs!AbsSpec
=============================================================================
