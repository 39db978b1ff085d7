------------------------------ MODULE CachePool ------------------------------
(***************************************************************************)
(* The memory cache: the lists of cache/CachePool with the blocks of       *)
(* cache/MemoryCachePool, as CacheManager::on_event drives them.           *)
(*                                                                         *)
(* The lists are modelled as they are: an entry is its index in caches_, 0 *)
(* is NULL, and a Cache ** is the entry whose `next' it points at, or 0    *)
(* for &used_caches_; so next[0] is used_caches_.  A loop is modelled one  *)
(* iteration per step, and between its steps nothing else happens (`op').  *)
(*                                                                         *)
(* A block is in memory as long as a lock covers it: the one of its entry  *)
(* or one of another holder, a sink or the downloader (see RangeLock).     *)
(* BlockData::alloc calls the out-of-memory handler before every mapping   *)
(* it makes, so entries are reclaimed while alloc_cache is under way.  The *)
(* pools of Segment and Block have no limit and never call it.             *)
(***************************************************************************)
EXTENDS Naturals, FiniteSets

CONSTANTS
  Size,       \* the number of caches (caches_.size())
  Block,      \* the blocks of the saved segments
  Level,      \* the levels of alloc_cache: 5 times the degree of data_miss
  Limit,      \* the limit of reclaim_caches: 5 times 6 - the level of out_of_memory
  MaxLru      \* bound on the counters lru

ASSUME PoolAssumption ==
  /\ Size \in Nat \ {0}
  /\ Level \subseteq Nat
  /\ Limit \in Nat /\ \A v \in Level : v < Limit
  /\ MaxLru \in Nat

VARIABLES
  next,       \* Cache::next, and used_caches_ as next[0]
  tail,       \* used_caches_tail_
  free,       \* free_caches_
  used,       \* used_
  block,      \* Cache::block, {} when it is NULL
  lock,       \* whether Cache::lock is set
  level, lru, \* Cache::level, Cache::lru
  touched,    \* the blocks whose touched_ is set
  pinned,     \* the blocks other holders have locked
  op          \* the operation under way, with its local variables

listVars == <<next, tail, free, used>>
entryVars == <<block, lock, level, lru>>
vars == <<listVars, entryVars, touched, pinned, op>>

Entry == 1 .. Size
NULL  == 0
Slot  == 0 .. Size

\* name: the function that runs; p, c: its locals, a slot and an entry or the
\* stack of touched entries; b, v: the block to map and the level.
Op == [name : {"none", "take", "alloc", "reclaim", "check", "relink"},
       p : Slot, c : Slot, b : SUBSET Block, v : Level \union {0}]
None == [name |-> "none", p |-> 0, c |-> NULL, b |-> {}, v |-> 0]

\* The blocks that the locks of the entries or those of other holders cover.
InMemory(lk, pin) == {b \in Block : b \in pin \/ \E c \in Entry : lk[c] /\ block[c] = {b}}

Init ==
  /\ next = [s \in Slot |-> IF s = 0 \/ s = Size THEN NULL ELSE s + 1]
  /\ tail = 0
  /\ free = 1
  /\ used = 0
  /\ block = [c \in Entry |-> {}]
  /\ lock = [c \in Entry |-> FALSE]
  /\ level = [c \in Entry |-> 0]
  /\ lru = [c \in Entry |-> 0]
  /\ touched = {}
  /\ pinned = {}
  /\ op = None

-----------------------------------------------------------------------------
(* free_cache(Cache ** p) of an entry of the memory cache *)

free_cache(p) ==
  LET c == next[p]
  IN  /\ used' = used - 1
      /\ lock' = [lock EXCEPT ![c] = FALSE]
      /\ touched' = touched \ (block[c] \ InMemory(lock', pinned))
      /\ block' = [block EXCEPT ![c] = {}]
      /\ level' = [level EXCEPT ![c] = 0]
      /\ lru' = [lru EXCEPT ![c] = 0]
      /\ next' = [next EXCEPT ![p] = next[c], ![c] = free]
      /\ tail' = IF tail = c THEN p ELSE tail
      /\ free' = c

-----------------------------------------------------------------------------
(* alloc_cache: on data_miss of a block *)

alloc_cache(b, v) ==
  /\ op = None
  /\ op' = [None EXCEPT !.name = "take", !.b = {b}, !.v = v]
  /\ UNCHANGED <<listVars, entryVars, touched, pinned>>

\* No cache is free: the head of the list goes if it has been idle enough.
Evict ==
  /\ op.name = "take"
  /\ free = NULL
  /\ next[0] # NULL
  /\ lru[next[0]] >= op.v
  /\ free_cache(0)
  /\ UNCHANGED <<pinned, op>>

NoCache ==
  /\ op.name = "take"
  /\ free = NULL
  /\ next[0] = NULL \/ lru[next[0]] < op.v
  /\ op' = None
  /\ UNCHANGED <<listVars, entryVars, touched, pinned>>

\* A free cache is appended to the list; MemoryCachePool::alloc comes next.
Take ==
  LET c == free
  IN  /\ op.name = "take"
      /\ c # NULL
      /\ free' = next[c]
      /\ level' = [level EXCEPT ![c] = op.v]
      /\ lru' = [lru EXCEPT ![c] = op.v]
      /\ next' = [next EXCEPT ![c] = NULL, ![tail] = c]
      /\ tail' = c
      /\ used' = used + 1
      /\ op' = [op EXCEPT !.name = "alloc", !.p = tail, !.c = c]
      /\ UNCHANGED <<block, lock, touched, pinned>>

\* MemoryCachePool::alloc: the file of the segment cannot be opened or mapped.
MapFails ==
  /\ op.name = "alloc"
  /\ free_cache(op.p)
  /\ op' = None
  /\ UNCHANGED pinned

\* The file is mapped: BlockData::alloc calls the out-of-memory handler.
Map ==
  /\ op.name = "alloc"
  /\ op' = [op EXCEPT !.name = "reclaim"]
  /\ UNCHANGED <<listVars, entryVars, touched, pinned>>

\* reclaim_caches(Limit): an iteration of its loop.
Reclaim ==
  /\ op.name = "reclaim"
  /\ next[0] # NULL
  /\ lru[next[0]] >= Limit
  /\ free_cache(0)
  /\ UNCHANGED <<pinned, op>>

\* Mutant of Mapped: no lock is allocated for the block.
Mapped_NoLock ==
  /\ op.name = "reclaim"
  /\ next[0] = NULL \/ lru[next[0]] < Limit
  /\ block' = [block EXCEPT ![op.c] = op.b]
  /\ op' = None
  /\ UNCHANGED <<listVars, lock, level, lru, touched, pinned>>

\* The loop ends, and alloc_cache with it: the entry gets its block and a lock.
Mapped ==
  /\ op.name = "reclaim"
  /\ next[0] = NULL \/ lru[next[0]] < Limit
  /\ block' = [block EXCEPT ![op.c] = op.b]
  /\ lock' = [lock EXCEPT ![op.c] = TRUE]
  /\ op' = None
  /\ UNCHANGED <<listVars, level, lru, touched, pinned>>

-----------------------------------------------------------------------------
(* check_caches: every second *)

\* Bounds the model: the counters of idle entries grow for ever.
CountersSmall == \A c \in Entry : lru[c] < MaxLru

check_caches ==
  /\ op = None
  /\ CountersSmall
  /\ op' = [None EXCEPT !.name = "check"]
  /\ UNCHANGED <<listVars, entryVars, touched, pinned>>

\* Mutant of Touched: the entry keeps its place in the list.
Touched_InPlace ==
  LET c == next[op.p]
  IN  /\ op.name = "check"
      /\ c # NULL
      /\ block[c] \subseteq touched
      /\ touched' = touched \ block[c]
      /\ lru' = [lru EXCEPT ![c] = level[c]]
      /\ op' = [op EXCEPT !.p = c]
      /\ UNCHANGED <<listVars, block, lock, level, pinned>>

\* The block was read since the last check: the entry goes to the stack.
\* Block::touched clears the flag it returns.
Touched ==
  LET c == next[op.p]
  IN  /\ op.name = "check"
      /\ c # NULL
      /\ block[c] \subseteq touched
      /\ touched' = touched \ block[c]
      /\ lru' = [lru EXCEPT ![c] = level[c]]
      /\ next' = [next EXCEPT ![op.p] = next[c], ![c] = op.c]
      /\ op' = [op EXCEPT !.c = c]
      /\ UNCHANGED <<tail, free, used, block, lock, level, pinned>>

Untouched ==
  LET c == next[op.p]
  IN  /\ op.name = "check"
      /\ c # NULL
      /\ ~(block[c] \subseteq touched)
      /\ lru' = [lru EXCEPT ![c] = @ + 1]
      /\ op' = [op EXCEPT !.p = c]
      /\ UNCHANGED <<listVars, block, lock, level, touched, pinned>>

EndOfList ==
  /\ op.name = "check"
  /\ next[op.p] = NULL
  /\ op' = [op EXCEPT !.name = "relink"]
  /\ UNCHANGED <<listVars, entryVars, touched, pinned>>

\* The entries of the stack are appended, the last one first.
Relink ==
  /\ op.name = "relink"
  /\ op.c # NULL
  /\ next' = [next EXCEPT ![op.p] = op.c]
  /\ op' = [op EXCEPT !.p = op.c, !.c = next[op.c]]
  /\ UNCHANGED <<tail, free, used, entryVars, touched, pinned>>

Relinked ==
  /\ op.name = "relink"
  /\ op.c = NULL
  /\ tail' = op.p
  /\ op' = None
  /\ UNCHANGED <<next, free, used, entryVars, touched, pinned>>

-----------------------------------------------------------------------------
(* The users of the blocks *)

\* A piece of the block is read (Block::get_piece).
Read(b) ==
  /\ op = None
  /\ b \in InMemory(lock, pinned)
  /\ touched' = touched \union {b}
  /\ UNCHANGED <<listVars, entryVars, pinned, op>>

\* Another holder locks the block, or drops the lock.
Pin(b) ==
  /\ op = None
  /\ b \notin pinned
  /\ pinned' = pinned \union {b}
  /\ UNCHANGED <<listVars, entryVars, touched, op>>

Unpin(b) ==
  /\ op = None
  /\ b \in pinned
  /\ pinned' = pinned \ {b}
  /\ touched' = touched \ ({b} \ InMemory(lock, pinned'))
  /\ UNCHANGED <<listVars, entryVars, op>>

Next ==
  \/ \E b \in Block, v \in Level : alloc_cache(b, v)
  \/ Evict \/ NoCache \/ Take \/ MapFails \/ Map \/ Reclaim \/ Mapped
  \/ check_caches \/ Touched \/ Untouched \/ EndOfList \/ Relink \/ Relinked
  \/ \E b \in Block : Read(b) \/ Pin(b) \/ Unpin(b)

Spec == Init /\ [][Next]_vars

-----------------------------------------------------------------------------
(* Properties *)

TypeOK ==
  /\ next \in [Slot -> Slot] /\ tail \in Slot /\ free \in Slot /\ used \in 0 .. Size
  /\ block \in [Entry -> SUBSET Block] /\ lock \in [Entry -> BOOLEAN]
  /\ level \in [Entry -> Nat] /\ lru \in [Entry -> Nat]
  /\ touched \subseteq Block /\ pinned \subseteq Block
  /\ op \in Op

\* The list that begins with c: its n-th entry, NULL past the end.
Walk(c) ==
  LET w[n \in 0 .. Size] == IF n = 0 THEN c ELSE IF w[n - 1] = NULL THEN NULL ELSE next[w[n - 1]]
  IN  w
List(c) == {Walk(c)[n] : n \in 0 .. Size} \ {NULL}
Ends(c) == Walk(c)[Size] = NULL

Checking == op.name \in {"check", "relink"}
Stack    == IF Checking THEN List(op.c) ELSE {}
InUse    == List(next[0]) \union Stack

\* Every entry is in exactly one of the lists, none of them has a cycle, and
\* used_ and used_caches_tail_ describe the used one, whatever was evicted,
\* reclaimed within an allocation, given back or moved by a check.
ListsPartition ==
  /\ Ends(next[0]) /\ Ends(free) /\ (Checking => Ends(op.c))
  /\ List(next[0]) \intersect List(free) = {}
  /\ Stack \intersect List(free) = {}
  /\ op.name = "check" => Stack \intersect List(next[0]) = {}
  /\ InUse \union List(free) = Entry
  /\ used = Cardinality(InUse)
  /\ ~Checking => next[tail] = NULL /\ tail \in {0} \union List(next[0])

\* MemoryCachePool::check asserts that the block of an entry is still the one of
\* the segment: every entry in use has a block, and a lock that keeps it there.
CachedBlocksStay ==
  op = None => \A c \in InUse : lock[c] /\ block[c] # {} /\ block[c] \subseteq InMemory(lock, pinned)

\* The pool as a whole: its lists, and what their entries keep.
PoolInv == TypeOK /\ ListsPartition /\ CachedBlocksStay

\* How long an entry has been idle.  While a check is under way, the entries it
\* has not come to are taken as it will leave them: Block::touched clears the
\* flag, so of the entries of one block only the first is found touched.
Idle(c) == lru[c] - level[c]
Ahead   == IF op.name = "check" THEN List(next[op.p]) ELSE {}
WillBeTouched(c) ==
  /\ block[c] \subseteq touched
  /\ \A d \in Ahead : block[d] = block[c] => d \in List(c)
Aged(c) == IF c \notin Ahead THEN Idle(c) ELSE IF WillBeTouched(c) THEN 0 ELSE Idle(c) + 1

\* The list is kept in the order in which its entries went idle: what is evicted
\* or reclaimed is never younger than what stays.
Lru == INSTANCE LruCache WITH idle <- [c \in InUse |-> Aged(c)]
ImplementsLruCache == Lru!LruSpec

\* After a reclaim no block is left that was not read for Limit checks ("delete
\* blocks not visited in current 30 seconds", CacheManager::on_event), although
\* the loop stops at the first entry of the list that is below the limit.
ReclaimLeavesNoIdle ==
  [][Mapped => \A c \in InUse : Idle(c) < Limit]_vars
=============================================================================
