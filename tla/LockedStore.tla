---------------------------- MODULE LockedStore ----------------------------
(***************************************************************************)
(* What ResourceData promises about the data it keeps in memory: clients   *)
(* (sinks, the downloader, the caches) hold range locks over the positions *)
(* of a resource; when a lock is moved or dropped, the data of its old     *)
(* range that no lock covers any longer is released, and no other data is. *)
(***************************************************************************)
EXTENDS Naturals

CONSTANTS
  Lock,     \* lock handles (ResourceData::lock_t)
  MaxPos    \* positions are 0 .. MaxPos (DataId values, in order)

VARIABLES
  held,     \* the locks that are allocated
  range,    \* [from, to) of every lock; meaningful for the held ones
  stored    \* the positions whose data is in memory

absVars == <<held, range, stored>>

Pos   == 0 .. MaxPos
Range == {r \in [from : Pos, to : Pos] : r.from <= r.to}

NoRange == [from |-> 0, to |-> 0]

\* The positions of the half-open range [f, t).
Interval(f, t) == {x \in Pos : f <= x /\ x < t}

\* The positions covered by the locks of set S with ranges rg.
CoveredBy(S, rg) == {x \in Pos : \E l \in S : rg[l].from <= x /\ x < rg[l].to}

AbsInit ==
  /\ held = {}
  /\ range = [l \in Lock |-> NoRange]
  /\ stored = {}

AbsStore(r) ==
  /\ stored' = stored \union Interval(r.from, r.to)
  /\ UNCHANGED <<held, range>>

AbsAlloc(l, r) ==
  /\ l \notin held
  /\ held' = held \union {l}
  /\ range' = [range EXCEPT ![l] = r]
  /\ UNCHANGED stored

AbsModify(l, r) ==
  /\ l \in held
  /\ range' = [range EXCEPT ![l] = r]
  /\ stored' = stored \ (Interval(range[l].from, range[l].to)
                           \ CoveredBy(held, range'))
  /\ UNCHANGED held

AbsRelease(l) ==
  /\ l \in held
  /\ held' = held \ {l}
  /\ range' = [range EXCEPT ![l] = NoRange]
  /\ stored' = stored \ (Interval(range[l].from, range[l].to)
                           \ CoveredBy(held', range))

AbsNext ==
  \/ \E r \in Range : AbsStore(r)
  \/ \E l \in Lock, r \in Range : AbsAlloc(l, r) \/ AbsModify(l, r)
  \/ \E l \in Lock : AbsRelease(l)

AbsSpec == AbsInit /\ [][AbsNext]_absVars
=============================================================================
