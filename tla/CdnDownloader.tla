--------------------------- MODULE CdnDownloader ---------------------------
(***************************************************************************)
(* The download of one resource: Downloader and CdnDownloader (download/), *)
(* which keep a window of segments ahead of the sink and hand its pieces   *)
(* out to sources, with the sources they drive: CdnSource, which reads one *)
(* request at a time over HTTP, and P2pSource, which asks a peer over UDP  *)
(* and times out.  Everything runs on one thread; an action is one         *)
(* callback of it, with everything it calls.                               *)
(*                                                                         *)
(* A DataId is the number of its position.  The SegmentInfo objects are    *)
(* told apart by their segment, which is what a pointer to one stands for. *)
(* Pieces outside the window of the downloader and the range of the sink   *)
(* are released (RangeLock).                                               *)
(***************************************************************************)
EXTENDS Integers, FiniteSets, SequencesExt, FiniteSetsExt

CONSTANTS
  SegCount,   \* the number of segments of the resource
  PPB,        \* PIECE_PER_BLOCK, the pieces a CDN source takes at once
  SegLen,     \* the number of pieces of each segment
  Window,     \* window_size_
  Http,       \* the CDN sources
  Playlist,   \* the CDN sources that must read an m3u8 file first
  Peers,      \* the P2P sources
  PeerSegs,   \* the segments each peer has
  PeerWindow, \* P2pSource::window_size
  KnownMeta,  \* the segments whose size is known from the tracker
  SeekTo,     \* where the sink may be moved to
  DiskCache   \* whether complete segments get saved

VARIABLES
  dl,         \* win_beg_, win_end_, segments_, timeout_seg_ of the downloader
  src,        \* what each source keeps
  order,      \* sources_, in the order they were found
  has,        \* the positions whose piece is in memory
  saved,      \* the segments with Segment2::saved
  meta,       \* the segments whose meta is known
  sink,       \* whether the sink is attached, its position and its locked range
  play, download   \* play_point_ and download_point_

vars == <<dl, src, order, has, saved, meta, sink, play, download>>

SegPos  == 2 * PPB          \* a segment of unknown size is made of two blocks
Segs    == 0 .. SegCount - 1
End     == SegCount * SegPos  \* DataId(MAX_SEGMENT, 0, 0)
Ids     == 0 .. End - 1
Sources == Http \union Peers
NULL    == -1
FULL    == -2               \* full_seg_, the context of a cancelled source
FREED   == -3               \* timeout_seg_ after its segment was deleted

ASSUME DownloadAssumption ==
  /\ SegCount \in Nat \ {0} /\ PPB \in Nat \ {0} /\ Window \in Nat \ {0}
  /\ SegLen \in [Segs -> 1 .. SegPos]
  /\ IsFiniteSet(Http) /\ IsFiniteSet(Peers)
  /\ Http \intersect Peers = {} /\ Playlist \subseteq Http
  /\ PeerSegs \in [Peers -> SUBSET Segs] /\ PeerWindow \in Nat
  /\ KnownMeta \subseteq Segs /\ SeekTo \subseteq Ids /\ DiskCache \in BOOLEAN

SegOf(id) == id \div SegPos
OffOf(id) == id % SegPos
Exists(id) == id \in Ids /\ OffOf(id) < SegLen[SegOf(id)]

piece_count(s, known) == IF s \in known THEN SegLen[s] ELSE SegPos
Missing(s, known, m) == {o \in 0 .. piece_count(s, known) - 1 : s * SegPos + o \notin m}
full(s, known, m) == Missing(s, known, m) = {}

\* Segment::seek: the first missing piece from o on, the start when there is none.
seek(s, o, known, m) ==
  LET hole == {x \in Missing(s, known, m) : x >= o} IN IF hole = {} THEN 0 ELSE Min(hole)

-----------------------------------------------------------------------------
(* The sources.  st of a CDN source: "m3u8" while the playlist is read,      *)
(* "idle" without piece_, "open" and "read" while the HTTP request is opened *)
(* or a piece is read; zero marks a piece_ of size 0.  st of a peer: whether *)
(* it has answered the bind.  queue: the pieces requested, in order.         *)

NewSource(s) == [ctx   |-> NULL,
                 queue |-> <<>>,
                 st    |-> IF s \in Peers THEN "down" ELSE IF s \in Playlist THEN "m3u8" ELSE "idle",
                 zero  |-> FALSE,
                 map   |-> s \in Http]

has_segment(S, s, seg) == S[s].map /\ (s \in Peers => seg \in PeerSegs[s])

window_left(S, s) ==
  IF s \in Peers THEN PeerWindow - Len(S[s].queue)
  ELSE IF S[s].st = "idle" THEN PPB ELSE 0

\* Source::request: nothing when there is nothing to ask for.
request(S, s, pieces) ==
  IF pieces = <<>> THEN S
  ELSE IF s \in Peers THEN [S EXCEPT ![s].queue = @ \o pieces]
  ELSE [S EXCEPT ![s].queue = pieces, ![s].st = "open", ![s].zero = FALSE]

\* Mutant of cancel: only the piece under way is dropped.
cancel_KeepRanges(S, s) == [S EXCEPT ![s].zero = S[s].st \in {"open", "read"}]

\* Source::cancel: a CDN request under way is stopped when it next returns.
cancel(S, s) ==
  [S EXCEPT ![s].queue = <<>>, ![s].zero = S[s].st \in {"open", "read"}]

-----------------------------------------------------------------------------
(* CdnDownloader::get_task.  D is a record of dl and src.                    *)

Empty(i) == i.ready /\ i.late = {} /\ i.pos >= i.end
At(D, seg) == seg - D.dl.beg + 1
Info(D, seg) == D.dl.segs[At(D, seg)]
Live(D, seg) == At(D, seg) \in DOMAIN D.dl.segs

\* Mutant of Finish: the segment still counts the source.
Finish_StillCounted(D, s) ==
  LET c == D.src[s].ctx
  IN  IF c = NULL \/ (Live(D, c) /\ ~Empty(Info(D, c))) THEN D ELSE [D EXCEPT !.src[s].ctx = NULL]

\* The source has finished the segment it works for.
Finish(D, s) ==
  LET c == D.src[s].ctx
      E == [D EXCEPT !.src[s].ctx = NULL]
  IN  IF c = NULL \/ (Live(D, c) /\ ~Empty(Info(D, c))) THEN D
      ELSE IF Live(D, c) THEN [E EXCEPT !.dl.segs[At(D, c)].nsource = @ - 1]
      ELSE E

\* timeout_seg_ when its pieces have been handed out: the first segment with
\* late pieces and no source.  Of a deleted one the model takes the outcome
\* that its memory reads as empty.
NextLate(D) ==
  IF D.dl.tseg = NULL \/ (Live(D, D.dl.tseg) /\ ~Empty(Info(D, D.dl.tseg))) THEN D
  ELSE LET late == {i \in DOMAIN D.dl.segs : D.dl.segs[i].nsource = 0 /\ D.dl.segs[i].late # {}}
       IN  [D EXCEPT !.dl.tseg = IF late = {} THEN NULL ELSE D.dl.segs[Min(late)].seg]

\* The priority of the i-th segment of the window, a size_t: the counters may
\* be negative, and -1 is the greatest value, which no segment is chosen with.
SizeMax == 999999
prio(D, i) == ((i - 1) * 3 + D.dl.segs[i].np2p + D.dl.segs[i].nsource) % (SizeMax + 1)

\* Mutant of Candidates: segments whose pieces have all been handed out as well.
Candidates_Empty(D, s) ==
  {i \in DOMAIN D.dl.segs : has_segment(D.src, s, D.dl.segs[i].seg) /\ prio(D, i) < SizeMax}

Candidates(D, s) ==
  {i \in DOMAIN D.dl.segs : /\ ~Empty(D.dl.segs[i])
                            /\ has_segment(D.src, s, D.dl.segs[i].seg)
                            /\ prio(D, i) < SizeMax}
Best(D, s) == Min({i \in Candidates(D, s) : \A j \in Candidates(D, s) : prio(D, i) <= prio(D, j)})

\* The segment the source works for next: its own, the one with late pieces, or
\* the one with the best priority.  seg is NULL if there is none.
Choose(D, s) ==
  LET c == D.src[s].ctx
  IN  IF D.dl.tseg # NULL /\ has_segment(D.src, s, D.dl.tseg)
      THEN [d |-> IF c = NULL THEN [D EXCEPT !.src[s].ctx = D.dl.tseg] ELSE D, seg |-> D.dl.tseg]
      ELSE IF c # NULL THEN [d |-> D, seg |-> c]
      ELSE IF Candidates(D, s) = {} THEN [d |-> D, seg |-> NULL]
      ELSE LET i == Best(D, s)
           IN  [d |-> [D EXCEPT !.src[s].ctx = D.dl.segs[i].seg, !.dl.segs[i].nsource = @ + 1],
                seg |-> D.dl.segs[i].seg]

\* The members of a set of positions in their order.
InOrder(S) == CHOOSE q \in [1 .. Cardinality(S) -> S] : \A j, k \in DOMAIN q : j < k => q[j] < q[k]

\* Late pieces first, then the next ones.
Take(D, seg, need) ==
  LET i    == Info(D, seg)
      late == InOrder(i.late)
      k    == Min({need, Len(late)})
      n    == Min({need - k, Max({0, i.end - i.pos})})
  IN  [seg |-> seg,
       d |-> [D EXCEPT !.dl.segs[At(D, seg)] =
                [i EXCEPT !.late = @ \ ToSet(SubSeq(late, 1, k)), !.pos = @ + n]],
       pieces |-> [x \in 1 .. k + n |->
                     IF x <= k THEN late[x] ELSE seg * SegPos + i.pos + (x - k - 1)]]

get_task(D, s) ==
  LET need == window_left(D.src, s)
      c    == Choose(NextLate(Finish(D, s)), s)
  IN  IF need = 0 THEN [d |-> D, seg |-> NULL, pieces |-> <<>>]
      ELSE IF c.seg = NULL THEN [d |-> c.d, seg |-> NULL, pieces |-> <<>>]
      ELSE Take(c.d, c.seg, need)

\* Source::on_ready: ask for a task and request it.
on_ready(D, s) ==
  LET g == get_task(D, s) IN [g.d EXCEPT !.src = request(@, s, g.pieces)]

\* The sources whose segment is c are served, in the order of the list.
Serve(D, c, s) == IF D.src[s].ctx = c THEN on_ready(D, s) ELSE D

ServeAll(D, c) ==
  LET served[n \in 0 .. Len(order)] == IF n = 0 THEN D ELSE Serve(served[n - 1], c, order[n])
  IN  served[Len(order)]

\* CdnDownloader::on_timeout.  A piece at win_end_ passes the test of the window;
\* there is no segment for it.
on_timeout(D, id) ==
  LET g == SegOf(id)
      i == Info(D, g)
  IN  IF ~Live(D, g) THEN D
      ELSE [D EXCEPT !.dl.segs[At(D, g)].late = @ \union {id},
                     !.dl.tseg = IF i.nsource = 0 /\ @ = NULL THEN g ELSE @]

\* CdnDownloader::update_segment: the size of a segment of the window is known.
update_segment(D, g) ==
  IF ~Live(D, g) THEN D
  ELSE ServeAll([D EXCEPT !.dl.segs[At(D, g)].ready = TRUE, !.dl.segs[At(D, g)].end = SegLen[g]], g)

-----------------------------------------------------------------------------
(* CdnDownloader::prepare_taskwindow                                         *)

None == [seg |-> NULL]              \* a NULL in segments_

\* The n elements of a deque that follow the first k.
Slice(q, k, n) == [i \in 1 .. n |-> q[k + i]]

\* The window is cut to what it shares with play_beg .. play_end.
Cut(d, b, e) ==
  IF d.beg >= e \/ d.end <= b THEN [d EXCEPT !.beg = b, !.end = b, !.segs = <<>>]
  ELSE IF d.beg < b THEN [d EXCEPT !.beg = b, !.segs = Slice(@, b - d.beg, d.end - b)]
  ELSE IF e < d.end THEN [d EXCEPT !.end = e, !.segs = Slice(@, 0, e - d.beg)]
  ELSE d

\* It is then widened with NULLs.
Widen(d, b, e) ==
  LET front == IF b < d.beg THEN d.beg - b ELSE 0
      back  == IF d.end < e THEN e - d.end ELSE 0
  IN  [d EXCEPT !.beg = d.beg - front, !.end = d.end + back,
                !.segs = [i \in 1 .. front + Len(d.segs) + back |->
                            IF i - front \in DOMAIN d.segs THEN d.segs[i - front] ELSE None]]

\* Every NULL becomes a SegmentInfo; the window ends with the resource.  disk is no
\* field of the code: it remembers that the segment was on disk when it came into
\* the window, or that the sink had read its beginning, which may have been there.
NewInfo(S, s, o, known, m) ==
  LET n == piece_count(s, known)
  IN  [seg |-> s, ready |-> s \in known, end |-> n, late |-> {}, nsource |-> 0,
       disk |-> s \in saved \/ (DiskCache /\ o # 0),
       pos |-> IF s \in saved \/ full(s, known, m) THEN n ELSE seek(s, o, known, m),
       np2p |-> Cardinality({p \in Peers : p \in ToSet(order) /\ has_segment(S, p, s)})]

Fill(S, d, p, count, known, m) ==
  LET b == SegOf(p)
      n == Cardinality({s \in b .. b + count - 1 : s < SegCount})
      o(i) == IF i = 1 THEN OffOf(p) ELSE 0
  IN  [d EXCEPT !.end = IF n < count THEN b + n ELSE @,
                !.segs = [i \in 1 .. n |->
                            IF d.segs[i].seg = NULL THEN NewInfo(S, b + i - 1, o(i), known, m)
                            ELSE [d.segs[i] EXCEPT !.pos = Max({@, o(i)})]]]

\* What the locks of the window and of the sink keep of the pieces m, of which
\* the window held those of the segments old.
Kept(m, old, d, from, to) ==
  {x \in m : \/ SegOf(x) \notin old
             \/ SegOf(x) \in d.beg .. d.end - 1
             \/ from <= x /\ x < to}

\* The result: the downloader, its sources and the pieces left in memory.
prepare_taskwindow(D, p, count, m, from, to) ==
  LET b    == SegOf(p)
      cut  == Cut(D.dl, b, b + count)
      gone == {i.seg : i \in ToSet(D.dl.segs)} \ {i.seg : i \in ToSet(cut.segs)}
      left == [s \in Sources |-> IF D.src[s].ctx \in gone THEN [cancel(D.src, s)[s] EXCEPT !.ctx = FULL]
                                 ELSE D.src[s]]
      wide == Widen([cut EXCEPT !.tseg = IF @ \in gone THEN FREED ELSE @], b, b + count)
      kept == Kept(m, D.dl.beg .. D.dl.end - 1, wide, from, to)
      filled == [dl |-> Fill(left, wide, p, count, meta, kept), src |-> left]
  IN  [d |-> ServeAll(filled, NULL), has |-> kept]

-----------------------------------------------------------------------------
(* Actions *)

Cur == [dl |-> dl, src |-> src]
Becomes(D) == dl' = D.dl /\ src' = D.src

Init ==
  /\ dl = [beg |-> 0, end |-> 0, segs |-> <<>>, tseg |-> NULL]
  /\ src = [s \in Sources |-> NewSource(s)]
  /\ order = <<>>
  /\ has = {} /\ saved = {} /\ meta = KnownMeta
  /\ sink = [on |-> FALSE, pos |-> 0, from |-> 0, to |-> 0]
  /\ play = 0 /\ download = 0

Found(s) == s \in ToSet(order)

\* A finder reports a source (Downloader::on_sources); a CDN source that needs no
\* playlist asks for a task at once.
on_sources(s) ==
  /\ ~Found(s)
  /\ order' = Append(order, s)
  /\ Becomes(IF src[s].st = "idle" THEN on_ready(Cur, s) ELSE Cur)
  /\ UNCHANGED <<has, saved, meta, sink, play, download>>

\* CdnSource::handle_m3u8_open: the playlist is there.
handle_m3u8_open(s) ==
  /\ Found(s) /\ src[s].st = "m3u8"
  /\ Becomes(on_ready([Cur EXCEPT !.src[s].st = "idle"], s))
  /\ UNCHANGED <<order, has, saved, meta, sink, play, download>>

\* The HTTP request is over: piece_ is dropped and the next task is asked for.
Done(D, s) == on_ready([D EXCEPT !.src[s].st = "idle", !.src[s].zero = FALSE], s)

\* Mutant of handle_open_canceled: no task is asked for.
handle_open_canceled_Idle(s) ==
  /\ src[s].st = "open" /\ src[s].queue = <<>>
  /\ src' = [src EXCEPT ![s].st = "idle", ![s].zero = FALSE]
  /\ UNCHANGED <<dl, order, has, saved, meta, sink, play, download>>

\* CdnSource::handle_open of a request that was cancelled meanwhile.
handle_open_canceled(s) ==
  /\ src[s].st = "open" /\ src[s].queue = <<>>
  /\ Becomes(Done(Cur, s))
  /\ UNCHANGED <<order, has, saved, meta, sink, play, download>>

\* CdnSource::handle_open with an error: opened again with a new piece_.
handle_open_error(s) ==
  /\ src[s].st = "open" /\ src[s].queue # <<>>
  /\ src' = [src EXCEPT ![s].zero = FALSE]
  /\ UNCHANGED <<dl, order, has, saved, meta, sink, play, download>>

\* CdnSource::handle_open of a range that exists: the response tells the size of
\* the segment, which may give other sources more to do.
handle_open(s) ==
  LET g == SegOf(Head(src[s].queue))
      D == [Cur EXCEPT !.src[s].st = "read"]
  IN  /\ src[s].st = "open" /\ src[s].queue # <<>> /\ Exists(Head(src[s].queue))
      /\ meta' = meta \union {g}
      /\ Becomes(IF g \in meta THEN D ELSE update_segment(D, g))
      /\ UNCHANGED <<order, has, saved, sink, play, download>>

\* Mutant of handle_read_canceled: a new task is asked for instead of the rest.
handle_read_canceled_NewTask(s) ==
  /\ src[s].st = "read"
  /\ Becomes(Done([Cur EXCEPT !.src[s].queue = <<>>], s))
  /\ UNCHANGED <<order, has, saved, meta, sink, play, download>>

\* CdnSource::handle_read of a cancelled piece, or with nothing read: what is left
\* of the ranges is opened again.
handle_read_canceled(s) ==
  /\ src[s].st = "read"
  /\ Becomes(IF src[s].queue = <<>> THEN Done(Cur, s)
             ELSE [Cur EXCEPT !.src[s].st = "open", !.src[s].zero = FALSE])
  /\ UNCHANGED <<order, has, saved, meta, sink, play, download>>

\* CdnSource::handle_read of a piece.  After the last piece of a range the next
\* range is opened, after the last range the next task is asked for.
handle_read(s) ==
  LET q == src[s].queue
  IN  /\ src[s].st = "read" /\ q # <<>> /\ ~src[s].zero /\ Exists(Head(q))
      /\ has' = has \union {Head(q)}
      /\ Becomes(LET D == [Cur EXCEPT !.src[s].queue = Tail(q)]
                 IN  IF Len(q) = 1 THEN Done(D, s)
                     ELSE IF q[2] # q[1] + 1 THEN [D EXCEPT !.src[s].st = "open"]
                     ELSE D)
      /\ UNCHANGED <<order, saved, meta, sink, play, download>>

\* CdnSource::on_timer: nothing was received for 1.5 seconds.
on_timer_stalled(s) ==
  /\ src[s].st \in {"open", "read"} /\ src[s].queue # <<>>
  /\ src' = [src EXCEPT ![s].zero = TRUE]
  /\ UNCHANGED <<dl, order, has, saved, meta, sink, play, download>>

\* A peer answers the bind; with a map at hand nothing is asked of it yet.
on_bind(s) ==
  /\ s \in Peers /\ Found(s) /\ src[s].st = "down"
  /\ src' = [src EXCEPT ![s].st = "up"]
  /\ UNCHANGED <<dl, order, has, saved, meta, sink, play, download>>

\* P2pSource::on_map: the first map, or another one, which is asked for when
\* data_ready has left the first half of the range.
on_map(s) ==
  LET D == [Cur EXCEPT !.src[s].map = TRUE]
  IN  /\ s \in Peers /\ src[s].st = "up"
      /\ Becomes(IF src[s].queue = <<>> THEN on_ready(D, s) ELSE D)
      /\ UNCHANGED <<order, has, saved, meta, sink, play, download>>

\* P2pSource::on_data of a piece that is waited for; others are dropped.
on_data(s, k) ==
  /\ s \in Peers /\ src[s].st = "up" /\ k \in DOMAIN src[s].queue
  /\ Exists(src[s].queue[k])
  /\ has' = has \union {src[s].queue[k]}
  /\ Becomes(on_ready([Cur EXCEPT !.src[s].queue = RemoveAt(@, k)], s))
  /\ UNCHANGED <<order, saved, meta, sink, play, download>>

\* The late pieces are reported one by one, oldest first.
GiveUp(D, s, k) ==
  LET given[n \in 0 .. k] == IF n = 0 THEN D ELSE on_timeout(given[n - 1], D.src[s].queue[n])
  IN  [given[k] EXCEPT !.src[s].queue = SubSeq(@, k + 1, Len(@))]

\* P2pSource::on_timer: the k oldest requests are late.
on_timer_late(s, k) ==
  /\ s \in Peers /\ k \in 1 .. Len(src[s].queue)
  /\ Becomes(on_ready(GiveUp(Cur, s, k), s))
  /\ UNCHANGED <<order, has, saved, meta, sink, play, download>>

\* Mutant of on_tunnel_disconnect: the requests are not reported as late.
on_tunnel_disconnect_Silent(s) ==
  /\ s \in Peers /\ src[s].st = "up"
  /\ src' = [src EXCEPT ![s].st = "down", ![s].queue = <<>>]
  /\ UNCHANGED <<dl, order, has, saved, meta, sink, play, download>>

\* P2pSource::on_tunnel_disconnect: no further task is asked for.
on_tunnel_disconnect(s) ==
  /\ s \in Peers /\ src[s].st = "up"
  /\ Becomes([GiveUp(Cur, s, Len(src[s].queue)) EXCEPT !.src[s].st = "down"])
  /\ UNCHANGED <<order, has, saved, meta, sink, play, download>>

-----------------------------------------------------------------------------
(* The sink *)

reset(p, count, m, from, to) ==
  LET r == prepare_taskwindow(Cur, p, count, m, from, to)
  IN  Becomes(r.d) /\ has' = r.has

\* Downloader::add_sink of a new sink, which stands at the beginning.
add_sink ==
  /\ ~sink.on
  /\ sink' = [on |-> TRUE, pos |-> 0, from |-> 0, to |-> 0]
  /\ play' = 0 /\ download' = 0
  /\ reset(0, Window, has, 0, 0)
  /\ UNCHANGED <<order, saved, meta>>

\* Downloader::del_sink: its lock goes, then the window closes.
del_sink ==
  LET kept == {x \in has : SegOf(x) \in dl.beg .. dl.end - 1 \/ ~(sink.from <= x /\ x < sink.to)}
  IN  /\ sink.on
      /\ sink' = [sink EXCEPT !.on = FALSE, !.from = 0, !.to = 0]
      /\ reset(0, 0, kept, 0, 0)
      /\ UNCHANGED <<order, saved, meta, play, download>>

\* Sink::seek_to: update_sink moves the window, then the sink moves its own lock
\* over the rest of the segment.
seek_to(p) ==
  LET to == (SegOf(p) + 1) * SegPos
      moves == sink.pos # p /\ (play # p \/ download # p)
      r == prepare_taskwindow(Cur, p, Window, has, sink.from, sink.to)
      d == IF moves THEN r.d ELSE Cur
      m == IF moves THEN r.has ELSE has
  IN  /\ sink.on
      /\ sink' = [sink EXCEPT !.pos = p, !.from = p, !.to = to]
      /\ IF moves THEN play' = p /\ download' = p ELSE UNCHANGED <<play, download>>
      /\ Becomes(d)
      /\ has' = {x \in m : \/ SegOf(x) \in d.dl.beg .. d.dl.end - 1
                           \/ p <= x /\ x < to
                           \/ ~(sink.from <= x /\ x < sink.to)}
      /\ UNCHANGED <<order, saved, meta>>

\* Sink::read of a piece that is in memory or on disk; after the last piece of the
\* segment the sink stands at the next one.
read ==
  /\ sink.on /\ sink.pos < sink.to /\ SegOf(sink.pos) \in meta
  /\ sink.pos \in has \/ SegOf(sink.pos) \in saved
  /\ sink' = [sink EXCEPT !.pos = IF Exists(@ + 1) THEN @ + 1
                                  ELSE (SegOf(@) + 1) * SegPos]
  /\ UNCHANGED <<dl, src, order, has, saved, meta, play, download>>

\* Downloader::on_timer, every 100 ms, when the sink has reached another segment.
Behind == sink.on /\ SegOf(sink.pos) # SegOf(play) /\ sink.pos < End
on_timer ==
  /\ Behind
  /\ play' = sink.pos
  /\ reset(sink.pos, Window, has, sink.from, sink.to)
  /\ UNCHANGED <<order, saved, meta, sink, download>>

\* The disk cache has written a complete segment (DiskCache).
Save(g) ==
  /\ DiskCache /\ g \notin saved /\ g \in meta /\ full(g, meta, has)
  /\ saved' = saved \union {g}
  /\ UNCHANGED <<dl, src, order, has, meta, sink, play, download>>

\* DiskCachePool::free: the disk cache, which all resources share, needs the room of
\* a segment.  The downloader is not told, whether the segment is in its window or
\* not.  What is mapped of the file is taken to be unmapped at once.
Evict(g) ==
  /\ g \in saved
  /\ saved' = saved \ {g}
  /\ UNCHANGED <<dl, src, order, has, meta, sink, play, download>>

Next ==
  \/ \E s \in Sources :
       \/ on_sources(s) \/ handle_m3u8_open(s)
       \/ handle_open_canceled(s) \/ handle_open_error(s) \/ handle_open(s)
       \/ handle_read_canceled(s) \/ handle_read(s) \/ on_timer_stalled(s)
       \/ on_bind(s) \/ on_map(s) \/ on_tunnel_disconnect(s)
       \/ \E k \in 1 .. PeerWindow : on_data(s, k) \/ on_timer_late(s, k)
  \/ add_sink \/ del_sink \/ read \/ on_timer
  \/ \E p \in SeekTo : seek_to(p)
  \/ \E g \in Segs : Save(g) \/ Evict(g)

\* What was asked of a web server returns: the timers of CdnSource close a request
\* that stalls, and one that fails is opened again.
Returns(s) ==
  \/ on_sources(s) \/ handle_m3u8_open(s) \/ handle_open_canceled(s)
  \/ handle_open(s) \/ handle_read_canceled(s)
CanReturn(s) ==
  /\ Found(s) => src[s].st # "idle"
  /\ src[s].st = "open" /\ src[s].queue # <<>> => Exists(Head(src[s].queue))
Ready(s, st) ==
  /\ src[s].st = st /\ ~src[s].zero
  /\ src[s].queue # <<>> /\ Exists(Head(src[s].queue))
OpensInTime(s) == handle_open(s) /\ ~src[s].zero

\* Now and then a server answers in time and sends a piece in time, and timers run.
\* A peer may fall silent for ever.  WF and SF are written out with the guards of
\* the actions, which TLC evaluates faster than ENABLED.
Fairness ==
  /\ \A s \in Http : /\ []<>~CanReturn(s) \/ []<><<Returns(s)>>_vars
                     /\ <>[]~Ready(s, "open") \/ []<><<OpensInTime(s)>>_vars
                     /\ <>[]~Ready(s, "read") \/ []<><<handle_read(s)>>_vars
  /\ []<>~Behind \/ []<><<on_timer>>_vars

Spec == Init /\ [][Next]_vars
FairSpec == Spec /\ Fairness

-----------------------------------------------------------------------------
(* Properties *)

InfoType == [seg : Segs, ready : BOOLEAN, pos : 0 .. SegPos, end : 0 .. SegPos,
             late : SUBSET Ids, disk : BOOLEAN, np2p : 0 .. Cardinality(Peers), nsource : Int]
SourceType == [ctx : {NULL, FULL} \union Segs, queue : Seq(Ids),
               st : {"m3u8", "idle", "open", "read", "down", "up"}, zero : BOOLEAN, map : BOOLEAN]

TypeOK ==
  /\ dl.beg \in 0 .. SegCount /\ dl.end \in 0 .. SegCount
  /\ dl.segs \in Seq(InfoType) /\ dl.tseg \in {NULL, FREED} \union Segs
  /\ src \in [Sources -> SourceType]
  /\ order \in Seq(Sources)
  /\ has \subseteq Ids /\ saved \subseteq Segs /\ meta \subseteq Segs
  /\ sink \in [on : BOOLEAN, pos : 0 .. End, from : 0 .. End, to : 0 .. End]
  /\ play \in 0 .. End /\ download \in 0 .. End

\* segments_ is the window, without gaps: segments_[i] describes segment
\* win_beg_ + i, and nothing points to a segment outside.
WindowMatches ==
  /\ Len(dl.segs) = dl.end - dl.beg
  /\ \A i \in DOMAIN dl.segs : dl.segs[i].seg = dl.beg + i - 1
  /\ \A s \in Sources : src[s].ctx >= 0 => Live(Cur, src[s].ctx)

Asked(s) == ToSet(src[s].queue)

\* A piece is asked of one source at a time, and of none when it is there.
NoPieceTwice ==
  \A s \in Sources :
    /\ Asked(s) \intersect has = {}
    /\ \A t \in Sources \ {s} : Asked(s) \intersect Asked(t) = {}

\* nsource of a segment is the number of sources that work for it.
NsourceIsExact ==
  \A i \in DOMAIN dl.segs :
    dl.segs[i].nsource = Cardinality({s \in Sources : src[s].ctx = dl.segs[i].seg})

\* The window as a whole: its segments and who works for them.
WindowInv == TypeOK /\ WindowMatches /\ NsourceIsExact

\* Every piece the position of a segment has passed is in memory, or asked of a
\* source, or known to be late: no hole is left behind, whatever is saved and
\* evicted meanwhile.  A segment that was on disk when it came into the window is
\* left out: nobody asks for its pieces, not even after its file has gone.
NothingIsForgotten ==
  \A i \in DOMAIN dl.segs : \A o \in 0 .. dl.segs[i].pos - 1 :
    LET id == dl.segs[i].seg * SegPos + o
    IN  Exists(id) /\ ~dl.segs[i].disk
          => id \in has \/ id \in dl.segs[i].late \/ \E s \in Sources : id \in Asked(s)

\* The assertion at the end of get_task: a source that gets a segment gets pieces
\* of it, unless its size is not known.
TaskHasPieces ==
  \A s \in Sources :
    LET g == get_task(Cur, s)
    IN  g.seg # NULL => g.pieces # <<>> \/ ~Info(g.d, g.seg).ready

Starving == /\ sink.on /\ sink.pos < sink.to /\ Exists(sink.pos)
            /\ sink.pos \notin has /\ SegOf(sink.pos) \notin saved

\* A sink that goes on waiting at one place gets its piece: nothing starves it but
\* its own moves.
WaitingSinkIsServed == []<>~Starving \/ []<><<sink' # sink>>_sink
=============================================================================
