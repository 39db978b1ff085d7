---------------------------- MODULE ResourceData ----------------------------
(***************************************************************************)
(* The piece store of one resource: core/ResourceData, core/Segment and    *)
(* core/Block.  Sizes are counted in pieces (the bytes of the last piece   *)
(* do not matter to any operation), a DataId is the number of its position *)
(* and a NULL pointer is the record whose count is 0.                      *)
(*                                                                         *)
(* The counters left_ are kept beside the pieces they count, as in the     *)
(* code: full() only looks at the counters.  The locks are those of        *)
(* RangeLock, whose walk calls release() here.                             *)
(***************************************************************************)
EXTENDS Integers, FiniteSets

CONSTANTS
  SegCount,   \* the number of segments of the resource
  BPS,        \* BLOCK_PER_SEGMENT
  PPB,        \* PIECE_PER_BLOCK
  Lock,       \* lock handles
  LockRange,  \* the ranges the holders of locks use
  Segments,   \* the lists of segment sizes set_segments may get; 0 is unknown
  LateSizes,  \* the sizes a source may report for a segment
  DiskCache,  \* whether segments get saved and mapped back (capacity # 0)
  MaxLeft     \* bound on the counters, see CountersSmall

VARIABLES
  end,        \* end_
  meta,       \* Segment2::meta->bytesize, 0 when meta is NULL
  saved,      \* Segment2::saved
  seg,        \* Segment2::seg
  ready,      \* data_ready.id
  meta_ready, \* meta_ready_
  behind,     \* kept for the properties: whether set_segment_meta has left data_ready.id
              \* where it stands, on a piece that was there
  held, range, walk   \* locks_ and the walk of remove_lock, see RangeLock

storeVars == <<end, meta, saved, seg, ready, meta_ready, behind>>
lockVars  == <<held, range, walk>>
vars      == <<storeVars, lockVars>>

SegPos == BPS * PPB
Max    == SegCount * SegPos         \* DataId(MAX_SEGMENT, 0, 0)
Segs   == 0 .. SegCount - 1
Blocks == 0 .. BPS - 1
Ids    == 0 .. Max - 1

ASSUME SizeAssumption ==
  /\ SegCount \in Nat \ {0} /\ BPS \in Nat \ {0, 1} /\ PPB \in Nat \ {0}
  /\ MaxLeft \in Nat
  /\ Segments \subseteq [Segs -> 0 .. SegPos]
  /\ LateSizes \subseteq 1 .. SegPos
  /\ LockRange \subseteq {r \in [from : 0 .. Max, to : 0 .. Max] : r.from <= r.to}

SegOf(id) == id \div SegPos         \* DataId::top_segment
OffOf(id) == id % SegPos            \* DataId::block_piece
BlkOf(o)  == o \div PPB             \* DataId::block of a block_piece
PieOf(o)  == o % PPB                \* DataId::piece of a block_piece

Values == 65536                     \* of a counter of sixteen bits
U16(x) == x % Values
Least(S) == CHOOSE x \in S : \A y \in S : x <= y

-----------------------------------------------------------------------------
(* Block *)

NoBlock == [n |-> 0, left |-> 0, has |-> {}]

Block_set_size(b, n) == [b EXCEPT !.n = n, !.left = Cardinality((0 .. n - 1) \ b.has)]
NewBlock(n) == Block_set_size(NoBlock, n)
Block_full(b) == b.left = 0

\* The first missing piece at or after p, n when there is none.
Block_seek(b, p) == Least({i \in p .. (IF p > b.n THEN p ELSE b.n) : i >= b.n \/ i \notin b.has})

\* Mutant of Block_release: the counter is not given back.
Block_release_KeepLeft(b, f, t) == [b EXCEPT !.has = @ \ (f .. t - 1)]

\* Mutant of Block_release: one piece too many.
Block_release_OneMore(b, f, t) ==
  IF f >= t THEN b ELSE [b EXCEPT !.has = @ \ (f .. t), !.left = U16(@ + (t - f))]

\* Block::release counts every piece of the range as lost, present or not.
Block_release(b, f, t) ==
  IF f >= t THEN b
  ELSE [b EXCEPT !.has = @ \ (f .. t - 1), !.left = U16(@ + (t - f))]

\* Block::set_data fills every piece and leaves left_ alone.
Block_set_data(b) == [b EXCEPT !.has = @ \union (0 .. b.n - 1)]

-----------------------------------------------------------------------------
(* Segment *)

NoSeg == [cnt |-> 0, last |-> 0, left |-> 0, blk |-> [b \in Blocks |-> NoBlock]]
Segment_full(g) == g.left = 0
\* Mutant of FullBlock: a block that was never made counts as full.
FullBlock_NullIsFull(g, b) == Block_full(g.blk[b])

FullBlock(g, b) == g.blk[b].n # 0 /\ Block_full(g.blk[b])

\* left_ is recounted before the last block gets its new size.
Segment_set_size(g, size) ==
  LET cnt  == (size + PPB - 1) \div PPB
      last == size - (cnt - 1) * PPB
  IN  [cnt  |-> cnt,
       last |-> last,
       left |-> Cardinality({b \in 0 .. cnt - 1 : ~FullBlock(g, b)}),
       blk  |-> IF g.blk[cnt - 1].n = 0 THEN g.blk
                ELSE [g.blk EXCEPT ![cnt - 1] = Block_set_size(@, last)]]

NewSegment(size) == Segment_set_size(NoSeg, size)

modify_block(g, b) ==
  IF g.blk[b].n # 0 THEN g
  ELSE [g EXCEPT !.blk[b] = NewBlock(IF b < g.cnt - 1 THEN PPB ELSE g.last)]

Segment_set_piece(g, o) ==
  LET h == modify_block(g, BlkOf(o))
      b == [h.blk[BlkOf(o)] EXCEPT !.has = @ \union {PieOf(o)}, !.left = U16(@ - 1)]
  IN  [h EXCEPT !.blk[BlkOf(o)] = b,
                !.left = IF Block_full(b) THEN U16(@ - 1) ELSE @]

\* Every successful mapping of a block counts it as one more full block.
Segment_map_block(g, b) ==
  LET h == modify_block(g, b)
  IN  [h EXCEPT !.blk[b] = Block_set_data(@), !.left = U16(@ - 1)]

\* Segment::seek from offset o: whether it reached the end, and where it stopped.
Segment_seek(g, o) ==
  LET b    == BlkOf(o)
      p    == Block_seek(g.blk[b], PieOf(o))
      next == Least({k \in 0 .. g.cnt : /\ k > b \/ b >= g.cnt
                                        /\ k >= g.cnt \/ ~FullBlock(g, k)})
      q    == Block_seek(g.blk[next], 0)
  IN  IF b < g.cnt /\ g.blk[b].n = 0 THEN [done |-> FALSE, at |-> o]
      ELSE IF b < g.cnt /\ p < g.blk[b].n THEN [done |-> FALSE, at |-> b * PPB + p]
      ELSE IF next >= g.cnt THEN [done |-> TRUE, at |-> 0]
      ELSE [done |-> FALSE,
            at   |-> next * PPB + (IF q < g.blk[next].n THEN q ELSE 0)]

\* Segment::release of the offsets f .. t - 1; t = 0 is the end of the segment.
Segment_release(g, f, t) ==
  LET bf == BlkOf(f)
      bt == IF t = 0 THEN g.cnt ELSE BlkOf(t)
      Head(b) == b = bf /\ bf < bt /\ PieOf(f) # 0
      Mid(b)  == bf <= b /\ b < bt /\ ~Head(b)
      Tail(b) == b = bt /\ PieOf(t) # 0
      blk == [b \in Blocks |->
                IF g.blk[b].n = 0 THEN NoBlock
                ELSE IF Mid(b) THEN NoBlock
                ELSE IF Head(b) THEN Block_release(g.blk[b], PieOf(f), g.blk[b].n)
                ELSE IF Tail(b) THEN Block_release(g.blk[b], IF bf = bt THEN PieOf(f) ELSE 0, PieOf(t))
                ELSE g.blk[b]]
      lost == {b \in Blocks : (Head(b) \/ Mid(b) \/ Tail(b)) /\ FullBlock(g, b)}
      kept == {b \in Blocks : Head(b) /\ blk[b].n # 0 /\ Block_full(blk[b])}
  IN  [g EXCEPT !.blk = blk, !.left = U16(@ + Cardinality(lost) - Cardinality(kept))]

-----------------------------------------------------------------------------
(* ResourceData *)

\* modify_segment: a segment whose size is not known is made of two blocks.
modify_segment(s) ==
  IF seg[s].cnt # 0 THEN seg[s] ELSE NewSegment(IF meta[s] # 0 THEN meta[s] ELSE 2 * PPB)

\* The piece of id exists in the segment as it is allocated now (the assertions
\* on block_count_ and piece_count_).
HasPlace(id) ==
  /\ SegOf(id) < end
  /\ LET g == modify_segment(SegOf(id))
         b == BlkOf(OffOf(id))
     IN  b < g.cnt /\ PieOf(OffOf(id)) < modify_block(g, b).blk[b].n

\* priv_seek on the store <<sg, mt>>: skip what is saved or complete.
priv_seek(id, sg, mt) ==
  LET o(s)      == IF s = SegOf(id) THEN OffOf(id) ELSE 0
      Passed(s) == /\ s < end
                   /\ mt[s] # 0
                   /\ \/ saved[s]
                      \/ sg[s].cnt # 0 /\ (Segment_full(sg[s]) \/ Segment_seek(sg[s], o(s)).done)
      next == Least({s \in SegOf(id) .. SegCount : s >= end \/ ~Passed(s)})
  IN  IF next >= end THEN Max
      ELSE next * SegPos + (IF mt[next] # 0 /\ sg[next].cnt # 0
                            THEN Segment_seek(sg[next], o(next)).at ELSE o(next))

\* Mutant of release: the segment the range begins in goes as a whole.
release_WholeHead(sg, f, t) ==
  LET sf == SegOf(f)
      st == SegOf(t)
  IN  [s \in Segs |->
         IF sg[s].cnt = 0 \/ (sf <= s /\ s < st) THEN NoSeg
         ELSE IF s = st /\ OffOf(t) # 0
              THEN Segment_release(sg[s], IF sf = st THEN OffOf(f) ELSE 0, OffOf(t))
         ELSE sg[s]]

release(sg, f, t) ==
  LET sf == SegOf(f)
      st == SegOf(t)
  IN  [s \in Segs |->
         IF sg[s].cnt = 0 THEN NoSeg
         ELSE IF s = sf /\ sf < st /\ OffOf(f) # 0 THEN Segment_release(sg[s], OffOf(f), 0)
         ELSE IF sf <= s /\ s < st THEN NoSeg
         ELSE IF s = st /\ OffOf(t) # 0
              THEN Segment_release(sg[s], IF sf = st THEN OffOf(f) ELSE 0, OffOf(t))
         ELSE sg[s]]

\* The positions whose piece is in memory.
InMemory == {x \in Ids : /\ seg[SegOf(x)].cnt # 0
                         /\ PieOf(OffOf(x)) \in seg[SegOf(x)].blk[BlkOf(OffOf(x))].has}

Locks == INSTANCE RangeLock WITH MaxPos <- Max, stored <- InMemory

Init ==
  /\ end = 0
  /\ meta = [s \in Segs |-> 0]
  /\ saved = [s \in Segs |-> FALSE]
  /\ seg = [s \in Segs |-> NoSeg]
  /\ ready = 0
  /\ meta_ready = 0 /\ behind = FALSE
  /\ held = {}
  /\ range = [l \in Lock |-> Locks!NoRange]
  /\ walk = Locks!Idle

\* What is fetched about the resource: the sizes of its segments (set_segments,
\* which does nothing when the number of segments is known) and their number
\* (set_meta).  No segment list is a list of unknown sizes.  A later fetch may
\* report another number of segments.
set_segments(sizes) ==
  /\ ~walk.on
  /\ end = 0
  /\ end' = SegCount
  /\ meta' = sizes
  /\ meta_ready' = Cardinality({s \in Segs : sizes[s] # 0})
  /\ UNCHANGED <<saved, seg, ready, behind, lockVars>>

set_meta(n) ==
  /\ ~walk.on
  /\ end # 0
  /\ end' = n
  /\ UNCHANGED <<meta, saved, seg, ready, meta_ready, behind, lockVars>>

\* A source reports the size of the segment of id.
set_segment_meta(id, size) ==
  LET s  == SegOf(id)
      sg == IF seg[s].cnt = 0 THEN seg ELSE [seg EXCEPT ![s] = Segment_set_size(@, size)]
      mt == [meta EXCEPT ![s] = size]
      at == priv_seek(id, sg, mt)
      moves == id = ready /\ at # Max /\ OffOf(at) # 0
  IN  /\ ~walk.on
      /\ s < end
      /\ meta[s] = 0
      /\ meta' = mt
      /\ seg' = sg
      /\ ready' = IF moves THEN at ELSE ready
      /\ behind' = IF SegOf(ready) = s THEN ~moves /\ ready \in InMemory ELSE behind
      /\ meta_ready' = meta_ready + 1
      /\ UNCHANGED <<end, saved, lockVars>>

set_segment_status(s, v) ==
  /\ ~walk.on
  /\ DiskCache
  /\ s < end
  /\ meta[s] # 0
  /\ saved' = [saved EXCEPT ![s] = v]
  /\ UNCHANGED <<end, meta, seg, ready, meta_ready, behind, lockVars>>

seek(id) ==
  /\ ~walk.on
  /\ SegOf(id) < end
  /\ ready' = priv_seek(id, seg, meta)
  /\ behind' = FALSE
  /\ UNCHANGED <<end, meta, saved, seg, meta_ready, lockVars>>

\* Mutant of set_piece: data_ready.id follows the pieces of its own segment only.
set_piece_NoSeek(id) ==
  LET s  == SegOf(id)
      sg == [seg EXCEPT ![s] = Segment_set_piece(modify_segment(s), OffOf(id))]
  IN  /\ ~walk.on
      /\ HasPlace(id)
      /\ id \notin InMemory
      /\ seg' = sg
      /\ ready' = IF id = ready /\ meta[s] # 0 THEN id + 1 ELSE ready
      /\ behind' = (behind /\ ready' = ready)
      /\ UNCHANGED <<end, meta, saved, meta_ready, lockVars>>

\* set_piece where the place of the piece is free: at data_ready.id the position
\* advances over everything that is there, and data_ready is raised.
set_piece(id) ==
  LET s  == SegOf(id)
      sg == [seg EXCEPT ![s] = Segment_set_piece(modify_segment(s), OffOf(id))]
      k  == Segment_seek(sg[s], OffOf(id))
      at == IF k.done THEN (s + 1) * SegPos ELSE s * SegPos + k.at
  IN  /\ ~walk.on
      /\ HasPlace(id)
      /\ id \notin InMemory
      /\ seg' = sg
      /\ ready' = IF id = ready /\ meta[s] # 0 THEN priv_seek(at, sg, meta) ELSE ready
      /\ behind' = (behind /\ ready' = ready)
      /\ UNCHANGED <<end, meta, saved, meta_ready, lockVars>>

\* Bounds the model: release() may drive the counter of a block up for ever, and
\* map_block that of a segment down, below 0 as well.
CountersSmall ==
  \A s \in Segs : /\ \A b \in Blocks : seg[s].blk[b].left <= MaxLeft
                  /\ seg[s].left \in (0 .. MaxLeft) \union (Values - MaxLeft .. Values - 1)

\* iterator_at and increment make the block of id; if its segment is saved they
\* raise data_miss, and the memory cache maps the block or has no room for it.
iterator_at(id) ==
  LET s == SegOf(id)
      b == BlkOf(OffOf(id))
      g == modify_block(modify_segment(s), b)
  IN  /\ ~walk.on
      /\ HasPlace(id) /\ CountersSmall
      /\ \/ seg' = [seg EXCEPT ![s] = g]
         \/ saved[s] /\ seg' = [seg EXCEPT ![s] = Segment_map_block(g, b)]
      /\ UNCHANGED <<end, meta, saved, ready, meta_ready, behind, lockVars>>

\* get_piece raises data_miss only for a saved piece that is not in memory; the
\* block is then mapped.
get_piece(id) ==
  LET s == SegOf(id)
  IN  /\ ~walk.on
      /\ HasPlace(id) /\ CountersSmall
      /\ meta[s] # 0 /\ saved[s]
      /\ id \notin InMemory
      /\ seg' = [seg EXCEPT ![s] = Segment_map_block(modify_segment(s), BlkOf(OffOf(id)))]
      /\ UNCHANGED <<end, meta, saved, ready, meta_ready, behind, lockVars>>

prepare_segment(s) ==
  /\ ~walk.on
  /\ s < end
  /\ seg' = [seg EXCEPT ![s] = modify_segment(s)]
  /\ UNCHANGED <<end, meta, saved, ready, meta_ready, behind, lockVars>>

-----------------------------------------------------------------------------
(* Locks: those of RangeLock, with release() applied to the segments *)

alloc_lock(l, r)  == UNCHANGED storeVars /\ Locks!alloc_lock(l, r)
modify_lock(l, r) == CountersSmall /\ UNCHANGED storeVars /\ Locks!modify_lock(l, r)
release_lock(l)   == CountersSmall /\ UNCHANGED storeVars /\ Locks!release_lock(l)
SkipLock(l)       == UNCHANGED storeVars /\ Locks!SkipLock(l)
CoverHead(l)      == UNCHANGED storeVars /\ Locks!CoverHead(l)

ReleaseGap(l) ==
  /\ Locks!NextLock(l)
  /\ walk.from < range[l].from
  /\ range[l].from < walk.to
  /\ seg' = release(seg, walk.from, range[l].from)
  /\ IF range[l].to < walk.to THEN Locks!Advance(l, range[l].to) ELSE Locks!Return
  /\ UNCHANGED <<end, meta, saved, ready, meta_ready, behind, held, range>>

ReleaseRest ==
  /\ walk.on
  /\ \/ walk.todo = {}
     \/ \E l \in Lock : Locks!NextLock(l) /\ walk.from < range[l].from /\ walk.to <= range[l].from
  /\ seg' = release(seg, walk.from, walk.to)
  /\ Locks!Return
  /\ UNCHANGED <<end, meta, saved, ready, meta_ready, behind, held, range>>

Next ==
  \/ \E sizes \in Segments : set_segments(sizes)
  \/ \E n \in 1 .. SegCount : set_meta(n)
  \/ \E id \in Ids : \/ \E size \in LateSizes : set_segment_meta(id, size)
                     \/ seek(id) \/ set_piece(id) \/ iterator_at(id) \/ get_piece(id)
  \/ \E s \in Segs : prepare_segment(s) \/ \E v \in BOOLEAN : set_segment_status(s, v)
  \/ \E l \in Lock, r \in LockRange : alloc_lock(l, r) \/ modify_lock(l, r)
  \/ \E l \in Lock : release_lock(l) \/ SkipLock(l) \/ CoverHead(l) \/ ReleaseGap(l)
  \/ ReleaseRest

Spec == Init /\ [][Next]_vars

-----------------------------------------------------------------------------
(* Properties *)

Counter == 0 .. Values - 1
BlockType == [n : 0 .. PPB, left : Counter, has : SUBSET (0 .. PPB - 1)]
SegmentType == [cnt : 0 .. BPS, last : 0 .. PPB, left : Counter, blk : [Blocks -> BlockType]]

TypeOK ==
  /\ end \in 0 .. SegCount
  /\ meta \in [Segs -> 0 .. SegPos]
  /\ saved \in [Segs -> BOOLEAN]
  /\ seg \in [Segs -> SegmentType]
  /\ ready \in 0 .. Max /\ behind \in BOOLEAN
  /\ meta_ready \in 0 .. SegCount
  /\ held \subseteq Lock /\ range \in [Lock -> Locks!Ranges] /\ walk \in Locks!Walk

\* Block::full() never claims a block that has a missing piece, whatever was
\* released, mapped or resized.
FullBlockIsComplete ==
  \A s \in Segs, b \in Blocks :
    FullBlock(seg[s], b) => 0 .. seg[s].blk[b].n - 1 \subseteq seg[s].blk[b].has

\* Segment::full() never claims a segment that lacks a piece: what segment_full
\* hands to the disk cache can be summed and written without a NULL piece.
FullSegmentIsComplete ==
  \A s \in Segs : seg[s].cnt # 0 /\ Segment_full(seg[s]) =>
    \A x \in Ids : SegOf(x) = s /\ HasPlace(x) => x \in InMemory

\* When pieces move data_ready.id forward, nothing it passes is missing: every
\* piece between the old and the new position is in memory or on disk.
ReadySkipsNoHole ==
  [][\A id \in Ids : set_piece(id) =>
       \A x \in Ids : ready <= x /\ x < ready' /\ HasPlace(x)
         => x \in InMemory' \/ saved[SegOf(x)]]_vars

\* data_ready.id is a place where a piece is still missing, so that the arrival
\* of that piece is noticed and the waiting sinks are woken: a position whose
\* piece is already there would never be left again.  The one position excused is
\* where set_segment_meta, with the size of the segment, left it without a move.
ReadyIsAHole ==
  ready < Max /\ ~behind /\ meta[SegOf(ready)] # 0 /\ ~saved[SegOf(ready)]
    => ready \notin InMemory

\* The pieces as a whole, whatever was resized, released or arrived too late: counters
\* stay in their sixteen bits, full() can be relied on, and so can data_ready.
PiecesInv == TypeOK /\ FullSegmentIsComplete /\ ReadyIsAHole

\* The releases of segments, blocks and pieces take out of memory exactly the
\* interval they are called with: the store is the one RangeLock is proved for.
ImplementsRangeLock == Locks!LocksSpec
=============================================================================
