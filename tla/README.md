# Verification of the trip client

TLA+ models of *trip*, a C++ client that streams a resource (a video cut into
segments) from CDN servers and from peers, keeps it in memory and on disk and
serves it to players over HTTP. The models are written from the source; line
numbers are those of this repository, `PROJECT.json` has the full map.

Contents: 1 inventory, 2 plan, 3 modules and code, 4 runs, 5 proofs,
6 what breaks and where the checked properties stop, 7 what is not modelled.

## 1. Inventory

One thread runs everything (an io_service); a second one, the worker of
`WorkQueue`, reads and writes the files of the disk cache and posts its results
back. `raise(event)` calls the handlers before it returns, so most "messages"
inside the program are nested calls, and the order of statements around a `raise`
matters. There are no tests in the repository.

| component | state | operations | correct when |
|---|---|---|---|
| Piece store (`core/ResourceData`, `Segment`, `Block`) | a sparse tree resource > segment > block > piece of 1 KB; `left_` counters; `data_ready.id`, the first missing piece after the place of the last seek; the ordered multiset of range locks | `set_piece`, `seek`, `set_segments`, `set_segment_meta`, `map_block`, `alloc_lock`, `modify_lock`, `release_lock` | a piece is kept as long as a lock covers it and goes when none does; `full()` does not lie; `data_ready` skips no hole |
| Out-of-memory loop (`core/Memory.h`, `Pool`) | the level handed to the handler | `oom_alloc`, `BlockData::alloc` | an allocation reclaims what is idle and fails only then |
| Memory cache (`CachePool`, `MemoryCachePool`) | fixed array of entries on two pointer lists, one lock each | `alloc_cache`, `free_cache`, `check_caches`, `reclaim_caches` | every entry is on one list, entries on the used list have their block locked, the least recently used goes first |
| Disk cache (`DiskCachePool`, `ResourceCache`, `WorkQueue`) | entries, blocks used, the job queue, files and meta.xml, `Segment2::saved` | save, load, evict, grow, restart | the worker never reads released data; a segment marked as saved has a good file; files and blocks are accounted for once |
| Downloader (`Downloader`, `CdnDownloader`) | a window of `SegmentInfo`, play and download points, the sources, late pieces | `add_sink`, `update_sink`, `del_sink`, `on_sources`, `get_task`, `on_timeout`, `update_segment` | nothing is asked for twice or forgotten; a waiting sink gets its piece |
| CDN source (`CdnSource`) | ranges still to be read, the piece being read | `request`, `cancel`, `handle_open`, `handle_read`, the stall timer | every request ends in data, a new try or a new task |
| P2P source (`P2pSource`) | outstanding requests with their times, the map of the peer, rtt | `request`, `on_data`, `on_map`, `on_timer`, bind, disconnect | what is not answered is reported late once |
| P2P sink, UDP tunnels, sessions and listeners | session ids of both sides, request queues of the peers served | bind, unbind, map, data, time-outs | a message reaches the session it is meant for, or none |
| Transmission queues (`net`, `ssp`) | slots of a bus, priorities, bounded FIFOs | push, pop, signal, detach | no message overtakes one of the same queue, a limit is kept |
| Resource and sink managers | resources by id, one fetch at a time, sinks that wait | `async_get`, `handle_fetch`, `add_sink`, `del_sink` | every waiting sink is answered once |
| HTTP front end (`HttpServer`, `HttpSession`, `HttpManager`) | open and fetch queues of a session, sessions by id | `async_open`, `async_fetch`, `close_request`, time-outs | requests are answered in order, once |
| Finders (`CdnFinder`, `P2pUdpFinder`, `P2pHttpFinder`), `DownloadManager`, `Bootstrap` | one pending query per resource, the list of trackers and the one in use | `find`, answers, login, moving to another tracker | a downloader gets the sources it asked for, each once; a tracker is left when it fails |
| Playlists (`M3u8Media`, `M3u8Protocol`) | the segments of the list from the one asked for last, the number of the first | `read_list`, `segment_url`, `append_body` | segment k stays the same segment; lengths add up to the times |
| Timers (`TimerManager`) | tick counters | `handle_tick` | each event at its rate |
| `MemoryManager`, reports, graphs, bootstrap, export, proto, utils | configuration, counters, byte layouts | | |

How they interact: a sink locks a range and reads it; missing pieces make it wait
for `data_ready`. The downloader follows the position of the sink, locks its
window and gives the sources their tasks. A source delivers pieces to the store;
the last piece of a segment raises `segment_full`, at which the disk cache locks
the segment and hands it to the worker. Iterators that meet a missing block of a
saved segment raise `data_miss`, at which the memory cache maps the block, if
need be after evicting another one. A request of a player goes through its
`HttpSession`, a sink, to `SinkManager`, `ResourceManager` and `DownloadManager`;
the downloader asks both finders, which give it the sources that `CdnManager` and
`P2pManager` keep. A `P2pSource` is a session of the tunnel to its host, the tunnel
a slot of the socket's bus; a `CdnSource` may have a playlist that tells its urls.

What is hard: locks that overlap and are moved while others cover the same data;
pieces that arrive out of order, late or for a window that has moved on; sizes
that are learned after the data; memory reclaimed in the middle of an allocation;
the worker beside the main thread; a crash between the write of a file and that
of its meta.xml; packets lost, repeated and reordered while ids of tunnels and
sessions are used again; silence of one side only; a timer that runs late; a list
that moves on while nobody reads it; two connections of one player, and players
that leave. `PROJECT.json` lists these hazards at their lines.

## 2. Plan

Done, in this order: `RangeLock` (with its abstraction `LockedStore` and the
proofs), `ResourceData` (implements `RangeLock`), `CachePool` (implements
`LruCache`), `DiskCache` (with its proofs), `CdnDownloader`, `HttpFront`, `Tunnel`, `Bus`, `Finder`,
`Playlist`. Every one is checked by itself; where one needs another it takes what
that one shows: `DiskCache` has a sequence for the list of `CachePool`, `Tunnel`
ids that are not used again for the slots of `Bus`, `CdnDownloader` a peer that
answers or does not for `Tunnel`.

Left to model: the window a `P2pSource` adapts to the times of the answers;
several resources in one disk cache; the `block_` an iterator keeps over
`data_miss` (with `CachePool`); unbind, disconnect and stateless tunnels; the
queue of `ReportManager`.

Proved (section 5): `RangeLock`, `ResourceData`, `CachePool`, `DiskCache`, `Bus`,
`Finder`, `CdnDownloader` (its window and its pieces without peers), `Tunnel`, `Playlist`.

Left to prove, in this order: the session invariants of `HttpFront` (its folds over
sessions can be opened as `Tunnel_proof` opens those of a packet), and
`NoPieceTwice` and `NothingIsForgotten` of `CdnDownloader` with a disk cache, and with
peers of one segment each.

## 3. Modules and code

**LockedStore** - what the range locks promise: positions are stored while some
lock covers them; moving or dropping a lock releases exactly what no other lock
covers of its old range, in one step.

**RangeLock** - `alloc_lock`, `modify_lock`, `release_lock` and `remove_lock` of
`core/ResourceData.cpp`. The loop of `remove_lock` is one action per iteration
(`SkipLock`, `CoverHead`, `ReleaseGap`, `ReleaseRest`); all others wait for it,
as they do in the program. `range`, `held` are the locks, `walk` the arguments and
the iterator of the loop, `stored` the pieces present.

**ResourceData** - the tree of pieces with the counters `left_` of blocks and
segments, `data_ready.id` and `end_`, lists of sizes (`set_segments`), sizes that
a source reports later, pieces, seeks, locks and the mapping of saved blocks. `behind`
is kept for the properties only: whether `set_segment_meta` has left `data_ready.id`
where it is, on a piece that was there. The whole walk of `remove_lock` is one step, with `release` going from the segment to the
blocks as the code does; `ImplementsRangeLock` checks that what it removes is the
interval that was asked for.

**LruCache** and **CachePool** - a list in order of use, and the pointers that make
it: `next`, `tail`, both list heads. `alloc_cache` is split where `BlockData::alloc`
may call the out-of-memory handler, which reclaims from the very lists; the walk of
`check_caches` is one action per entry.

**DiskCache** - main thread and worker of the disk cache. Each of `do_save`,
opening and closing the file, the posted result and its handling is an action.
`Crash` drops the memory, leaves any half-written file in one of the states a file
system may leave and keeps or loses a dirty meta.xml; then `load_cache` goes through
the listed files (`Startup`, `load_status`, `Listed`). The list is a sequence, which `CachePool` justifies.

**CdnDownloader** - `Downloader` and `CdnDownloader` with the sources they drive
and one sink. An action is one callback with everything it calls: a piece read by
`handle_read` stores it, asks for a task (`get_task`) and requests it. The helper
operators carry a record of the downloader and the sources through such a call, in
the order of the code: `Finish`, `NextLate`, `Choose`, `Take` are the four parts of
`get_task`, `Cut`, `Widen`, `Fill`, `ServeAll` those of `prepare_taskwindow`. A
`SegmentInfo` pointer is the number of its segment; `FREED` is a pointer to a
deleted one. The HTTP client is external: an open may succeed, fail or be
cancelled, a read may return data or nothing. A peer answers any outstanding piece, or
none. `saved` are the segments on disk: `Save` puts one there, `Evict`, which other
resources may cause at any time, takes one away. `disk` is kept for the properties
only: whether a segment was there when it came into the window.

**HttpFront** - connections (`HttpServer`), the sessions they share (`HttpSession`)
and the managers behind them. `conn` is what a connection keeps, `ses` the sessions
with their queues of opened requests and of segments being sent, `res` the resources
with the sinks of their downloaders, `mgr` the maps and queues of the managers.
`bad` collects the asserts, empty callbacks and deleted objects the code runs into,
and what happened before, so that each fault can be held against its cause. The
util library's HTTP server is external: it calls `local_process`,
`transfer_response_data`, `on_finish` and `on_error`.

**Tunnel** - two hosts with one tunnel each, the P2P sources and sinks in it, and UDP
between them. `tun[h].cells` are the sessions of a host by slot, slot 0 is the
listener; a packet holds the messages that one handler has queued, under the ids
known when it ends. `Receive` is `handle_recv` with the answers it sends, `Timer`
the `on_timer` of all sessions; `Silence`, `Hasty`, `Lose`, `ReceiveAgain` and
`Restart` are what may go wrong, each at the price of one of `MaxTrouble`.

**Bus** - the slots of the UDP socket, the line of tunnels with something to send,
the slots that rest for ten minutes, and the ticks. Times are relative to the last
tick; `age`, how long a slot has rested, is kept for the properties only.

**Finder** - `DownloadManager`, both finders, `CdnManager`, `P2pManager` and
`Bootstrap`, with trackers that stop, start again and lose messages. `req` are the
pending queries, `posted` the answers that `CdnFinder` posts to itself, `fin` the
state of `P2pUdpFinder`, `trk` that of the trackers (external, after the handlers of
their answers).

**Playlist** - `M3u8Media` and the `CdnSource` behind it, against an origin whose list
grows, drops segments and ends, or names another list; and the list that
`M3u8Protocol` writes, whose numbers are unsigned (`Wrap`).

## 4. Runs

| run | shows |
|---|---|
| `range_lock` | loop invariant, no locked data released, refinement of `LockedStore`: three locks, positions 0..3 |
| `pieces` | a segment of known size and one whose size comes late: counters, `data_ready` skips no hole and rests on one (but where the late size has left it), releases are exact |
| `pieces_mapped` | `full()` of a block and exact releases when blocks are mapped from disk |
| `memory_cache` | lists, locks, refinement of `LruCache`, reclaim by age: three entries, two blocks |
| `disk_cache` | growth, evictions, failed saves and crashes: the worker's data, entries and blocks used; saved segments have good files and one entry |
| `download_cdn` | two CDN sources: window, no double request, no forgotten piece, exact `nsource`, and no starving sink |
| `download_p2p` | a CDN source and a peer with losses, time-outs and disconnects, a disk cache that saves and evicts: no forgotten piece, no segment without pieces handed out |
| `http_front` | no callback, session or pending sink is lost, bodies are those asked for, every request is finished |
| `tunnel` | both ends come to agree on the tunnel again and again; a source is bound to the sink of its own resource and gets its data, not that of another |
| `bus` | a tunnel goes only with an empty Fifo, a slot rests its time, clocks catch up, what is pushed is sent |
| `finder` | each source comes once and reaches its downloader, hosts as long as the player goes on; trackers are told of the resources and left only when each has failed |
| `playlist` | segment k stays the same segment, what was asked for last is kept, a list is followed to its end, lengths add up |

All runs pass. The invariants that are checked together are conjunctions: `LocksInv` of
`RangeLock` and `IInv` of `DiskCache` (what is proved there), `PiecesInv`, `PoolInv`,
`WindowInv`, `SessionsInv`, `SlotsInv`, `SourcesInv` and `ListInv`; each begins with
the type invariant, its other parts have names and comments of their own. Many
properties of the last five name causes: the code does break there, in the ways 6
lists, and the property says that it breaks in no other.

Bounds. A block has two pieces, a segment two blocks: enough for a first, a last
and a short block, for ranges that start or end inside, at the edge of or outside a
block, and for holes on both sides of a piece. Two segments let a range or a seek
cross a boundary; the downloader has three with a window of two, so that the window
moves over part of itself, leaves itself altogether, and ends at the end of the
resource. Three locks give the locks before, inside and after a removed range. The
caches have fewer entries than there are things to keep. `MaxLeft`, `MaxLru` and
`Limit` bound counters and say so where they guard.

`http_front` has two connections on one session name, two sessions in a
behaviour (one replaces the other) and three requests: two in the queues and one
that comes while they are served. `tunnel` has two hosts and two resources of one
piece, downloaded one way by a host that stays up, and two troubles in a behaviour:
the known failures need one or two. `bus` has four slots, so that slots are reused before and after their
rest, a second of two units, a rest of two seconds and a timer that may be three
units late, which is more than any period. `finder` has two resources, one of them
played, two trackers, two hosts and two troubles; a Sync message takes one
resource, so that a list takes two. `playlist` has live lists of up to two segments
over six numbers, which move on by more than they show, and one trouble. The
numbers of the source that these small values stand for are named with the
constants (16, 20, 64, 600 s, 2^64).

Inputs. The downloader's sink seeks to beginnings of segments, an unknown segment is
at least as long as a first request (two pieces), and the peer has the first segment
only: 6 says what happens otherwise. Locks of `pieces` cover whole blocks, which
is what the window and the caches lock.

Fairness. In `download_cdn`: what was asked of a web server returns, as
`CdnSource::on_timer` cancels a request that stalls (`Returns`, weak). Infinitely
many tries of a source include one that opens and one that reads in time
(strong): without it no download could end. The 100 ms timer runs (weak). Nothing is
assumed of seeks, finders beyond the first answer, or peers. The property lets a sink
that moves for ever wait for ever; one that stays is served.
`http_front`: the io_service runs what is posted, writes return, the index server
answers, data arrives (`Progress`, one weak condition: the thread does something).
`tunnel`: packets arrive, peers are found, timers run when nothing is under way
(weak); losses are bounded by `MaxTrouble`. `bus`: the timer ticks, and a handler
that sends goes on until nothing is left (weak). `finder`: what is under way
arrives (weak), and each timer runs at some moments at which nothing is under way
(strong: such moments come and go, and a timer of the program runs for ever). Nothing
makes a player go on, and a sink that stays in a segment asks no more
(Downloader.cpp:111): that it goes on is a premise of `PeersCome` (`PlayerGoesOn`).
`playlist`: the reads of the list go on (`WF_vars(Reads)`). The conditions of the
others are written with `[]<>` and an `ENABLED` spelled out, which says the same.

## 5. Proofs

Each theorem is for every value of the constants that its module's assumption allows;
a further hypothesis is part of the theorem (`ASSUME`) and named below. The proofs
are in modules of their own, `<module>_proof`; those about `RangeLock` and `DiskCache`,
which both keep what has been downloaded, are together in `Storage_proof`. They share
one layout: an inductive invariant, a lemma for each handler, one that joins them over
`Next`, and the theorems, each of which names a property of the runs.

**RangeLock**: any set of locks, any number of positions.

- `WalkCorrect`: types and the invariant of the loop. `WalkInv` says where the
  walk stands: the rest of the argument lies behind the visited locks, and the locks
  not visited are those that begin later. It is inductive together with `LocksTypeOK`
  (`LocksInv`); `LocksTypeOK` alone is not enough, since `Advance` would have to know
  that the next lock starts no earlier than the last.
- `LockedDataIsKept`: a step releases no position that a lock covers before and
  after it. The argument: `LoopReleases` shows for each branch of the loop that the
  gap it releases lies before the next lock and behind the previous ones.
- `RangeLockImplementsLockedStore`: the abstract step happens when a walk
  starts; what the walk has yet to release is mapped away, so every iteration is a
  stutter.

**ResourceData**: any number of segments, blocks of a segment (two at least) and
pieces of a block, as long as the counters fit sixteen bits (`CountersFit`; the code
has 128 of each, and `MaxLeft` bounds how far `release` has driven a counter up).

- `FullBlocksAreComplete`: `FullBlockIsComplete`, mapped blocks and locks that cut
  blocks included. The counter of a block is never below the number of pieces it
  lacks (`BlockInv`); `release` only ever errs upwards. What could break this is a
  counter that wraps: the walk of `remove_lock` releases a range in several steps, so
  `Room` says for each block that its counter has risen by no more than the pieces
  that the walk has behind it.
- `PiecesAreWhole`: `PiecesInv`, that a full segment has every piece and that
  `data_ready.id` is a place where one is missing. Hypotheses: `~DiskCache`, as a
  mapped block takes one from the counter of the segment each time, and
  `WholeBlocks`, as a release that begins inside a block counts pieces that were never
  there; 6 says what fails without them. The counter of a segment covers the blocks
  that are not full, and with those that are full it stays below twice the number of
  blocks (`Counts`), so that it cannot wrap; that of a block is exact (`ExactInv`), also
  after a late size, as `set_size` counts anew. `data_ready.id` is at a hole except
  where `set_segment_meta` has left it (`behind`, `SegmentMetaInv`): see 6.
- `NoHoleIsSkipped`: `ReadySkipsNoHole`, with locks of any kind. `Sought` says what
  `Segment::seek` and `priv_seek` find; that it is the first missing place is proved
  by induction on the segments they go through.
- `ResourceDataImplementsRangeLock`: `ImplementsRangeLock`, mapped blocks and locks of
  any kind included. Each operation on pieces is a step of `RangeLock` that stores an
  interval of places (`Gains`), and a release removes just the interval it is called
  with (`ReleaseIsExact`, from a lemma for a segment and one for a block). This needs
  that no piece lies behind the end of its block or its segment (`Snug`). A segment
  whose size is unknown is made of two blocks, so the hypothesis is that no late size
  is below that of two blocks (`LongSegments`; 256 kB in the code): see 6. The sizes of
  the run `pieces` are below it, and its locks end at the ends of such segments.

**CachePool**: any number of entries and blocks.

- `PoolIsWhole`: `PoolInv`. The invariant (`Picture`) gives each entry a place
  number: the entries in use are those on the list from `next[0]`, in the order of
  these numbers, those free the list from the free head, and those that
  `check_caches` has taken off a third. Unlinking, appending and joining two lists are
  lemmas about pointers alone (`Removed`, `AppendedOne`, `Joined`). That `List`,
  which follows the pointers, sees what the numbers say is `WalkVisits`.
- `ReclaimIsThorough`: the numbers follow the idle times, so that behind an entry
  that is too young there is none to reclaim.
- `PoolImplementsLruCache`: the abstract list is the order of the numbers; only the
  steps that take, give back or touch an entry are steps of `LruCache`.

**DiskCache**: any number of segments, sizes of them and capacities, with and without
crashes.

- `DiskCacheCorrect`: `SaveHasItsSegment`, `JobsOwnTheirEntry` and
  `UsedIsAccounted` always hold, also with segments that are downloaded while
  their files are checked. None of them is inductive. That the worker has its
  segment follows from the lock of the entry of the job (`KeepFacts`), so it needs that
  the job owns its entry; that it still does when another result is handled needs that
  no two jobs are for one entry, and when an entry is taken, that free entries are
  empty, those that come with the growth of the pool too: these are the parts of
  `JobInv`. `AllocFacts` is the step of `alloc_cache` with the eviction in it,
  `HandledInv` that of `on_save`, `GrowthBound` says that the growth of `alloc`
  stays within the entries, and `CountOneMore` what one entry adds to the blocks.
- `SavedFilesAreThere`, `SavedFilesCanBeEvicted`: `SavedIsOnDisk` and
  `SavedHasOneEntry`, where no segment is downloaded while its file is checked
  (`~ConcurrentLoad`; otherwise two entries own one file, and both fail). The
  invariant, `SavedInv`, is that a segment has one master at a time: the entry that
  stands for its saved file, a job that writes it, a job that checks it, or a result
  on its way. So no job that is to write or remove a file is for a segment that
  counts as saved.

**Bus**: any list of periods, any number of slots, any length of the Fifo.

- `TimersAreInTime`: `TimersKeepUp`. The assumption is that each period is at least
  twice the one before (in the code each is ten times it: 10 ms, 100 ms, 1 s, 10 s). A
  tick looks at a coarse event only when every finer one is due, so the invariant
  bounds each by the one before it: it falls behind that by less than its period.
  Such delays add up along the list, and the factor of two keeps their sum below the
  next period.
- `SlotsAreInOrder`: `SlotsInv`. `Good` is said of a record of all the variables
  (`World`), so that there is one lemma for each function of `Bus.cpp`, whoever calls
  it. The line of signals is exact: a slot is in it when its flag says so, and a Fifo
  with messages is in it. A tunnel goes only in its timer, and a timer only runs when
  everything its sessions have pushed is sent (`Ready`). The slots at rest have
  expiries that exist beside the differences the code keeps (`Line`): what is stored
  is a sum of whole seconds, less than one second from the truth.

**Finder**: any resources, lists of urls, trackers and hosts.

- `SourcesReachTheDownloader`: `SourcesInv`. `Whereabouts` says where each source is:
  attached, posted, or known to a manager, and which request it comes from.
- `EveryTrackerIsTried`: `GivesUpLast`, which trackers have been tried when the finder
  gives up: all of them, or, once a tunnel to another than the first was opened
  ("moved"), those from the one that answered last on to the one before the first, and
  not the first itself (see 6). `OnTheCircle` says where the finder is on the circle.

**CdnDownloader**: any numbers of segments, web servers and peers, any window, sizes of
segments and lengths of blocks.

- `TasksHavePieces`: `TaskHasPieces`, the assertion at the end of `get_task`, whatever
  peers and seeks do. `Fit` says of a record of the downloader and the sources that the
  window and the sources belong together, and there is a lemma for each part of
  `get_task` and of `prepare_taskwindow` (`FinishFacts` to `TakeFacts`, `CutFacts` to
  `PrepareFacts`). `ServeAllKeeps` is the induction along the list of sources: what
  serving one source keeps, serving them all does. `WindowIsWhole`, `WindowMatches`,
  is part of it.
- `SourcesAreCounted`: `WindowInv`, with web servers alone. `Calm` adds to `Fit` that
  nothing is late (`Quiet`) and that the counters are exact; `HandedFacts` is what
  `get_task` and `request` come to then.
- `PiecesAreAskedOnce` and `NothingStaysBehind`: `NoPieceTwice` and `NothingIsForgotten`,
  with web servers alone, no disk cache and seeks to the beginning of segments
  (`Regular`). Neither is
  inductive. That a piece handed out is not there and not asked for needs that nothing
  between the position and the end of its segment is in memory (`Ahead`) and that a
  source asks for pieces behind the position of its own segment only (`Queued`); that a
  segment which comes back into the window starts at the right place needs that it is in
  memory as a whole or not at all (`Whole`), hence that both locks cover whole segments
  (`Locks`) and that an arriving piece is the first of an ascending queue (`Sorted`).
  `MovedPieces` is the step of `prepare_taskwindow`, `UpdateGood` that of a size learned
  late, `ReleasedGood` that of the locks.

  With a seek inside a segment TLC finds both violated, and with a peer
  `NsourceIsExact` and, for a peer of several segments, `NothingIsForgotten` (see 6). The
  run `download_p2p` checks the latter for a peer of one segment and with a disk cache,
  for which it has no proof: a segment that is saved in the window and then evicted is
  still in memory, one that was on disk when it came is left out (see 6).

**Tunnel**: any resources, any bounds on ids, sessions and packets, and any number of
things that go wrong.

- `SessionsAgree`: `SessionsInv`, and `CausesAreKnown`: `FaultsHaveCauses`. Neither is
  inductive: what one end knows of the other has come in packets that may be late,
  lost or repeated, so `IInv` says of each packet what is true of it, of the host that
  has sent it (`SaidBy`) and of the one it is for (`SaidTo`), as long as the
  tunnels have the ids it bears. A sink knows a source of its resource (`SinksKnow`);
  a source that is bound knows a slot that is not a source's, if of a sink, then of its
  resource (`SourcesKnow`), unless the peer has another tunnel by now than the one this
  end was opened to, `was`. The first holds until a host that downloads is started
  again (`Pure`), the second until a tunnel is replaced, an answer late or a host
  started again (`Steady`): these are the notes in `bad.before`, and an assertion that
  fails, or data taken for another resource's, has one of them behind it
  (`Excused`). `Calls` is this invariant in the middle of a handler, before its packet
  is sent, and there is a lemma for each handler of a message; `FoldOfConnected` and
  `FoldOfUnconnected` carry it along the messages of a packet, `OpenAll` and `TimeAll`
  along the sources.

**Playlist**: any lists at the origin, any renumbering.

- `ListKeepsItsNumbers`: `ListInv`. The list is cut and appended to by
  number, so `Inv` says that its numbers follow each other as long as it has not broken
  (`Numbered`), that what is played lies in it (`Plays`), and what the urls are put
  after, which the first url decides for all (`Prefix`).
- `LengthsAreRounded`: `RoundedUp`, for lists of any length, if a list with durations is
  one that `create` writes: with all segments known, which end before the 64 bits do, or
  with an interval of whole seconds (`WrittenHere`; `MCPlaylist` assumes it of its lists,
  so TLC evaluates it). No step changes the lengths, so the theorem is one about
  `append_body`: `WritesExist` opens its fold into the chain of what is written after
  each duration, `WritesRoundUp` shows along the chain that the sum written so far is
  the real one rounded up, so that no length is 0 and no difference wraps.

What stays with TLC. Liveness and `ENABLED` are beyond the prover. Induction over data
is so in general, because the theorems of the library that state it take an operator;
where a proof needed an instance, it was made from the well-ordering of the natural
numbers (`Smallest`, `StepsAreThere`, `PlaceSought`, `FoldExists`), which is first-order.
Not yet proved: the properties of `HttpFront`, and `NoPieceTwice` and
`NothingIsForgotten` of `CdnDownloader` with peers or a disk cache.
`RestIsRespected` of `Bus` has no proof for every `MaxOwn`: two finders that leave
their trackers in one tick may take one slot after the other. No module declares a
RECURSIVE operator, so all of them stay open for proofs.

## 6. What breaks, and where the properties stop

Met while modelling, and kept out by the inputs named above, by the shape of a model
or by a cause that the property names:

Store, caches, downloads

- A peer's late answer can be for a piece that is there, which the assertion in
  `Block::set_piece` (Block.cpp:91) excludes: a removed segment only cancels the
  sources that work for it at that moment (CdnDownloader.cpp:199).
- The entry of a failed save is never freed: `on_save` gives its blocks back, and
  `free_cache` (DiskCachePool.cpp:136) finds that its data is not `this` and leaves it.
- `oom_alloc` never raises its level (Memory.h:50), though its handler says what to do
  at higher ones (CacheManager.cpp:159).
- With capacity 0, the default, `CacheManager` calls `load_cache` on a NULL
  `disk_cache_` (CacheManager.cpp:126).
- `Block::release` counts missing pieces as lost ones (Block.cpp:118-122). With
  lock ranges that begin inside a block, `ReadyIsAHole` fails and a block is never
  full again.
- When the size of a segment comes, `set_segment_meta` moves `data_ready.id` only if it
  is reported for that very position, and not to the beginning of a segment
  (ResourceData.cpp:333-338): it may be left on a piece that is there, whose arrival
  nothing will raise again. `ReadyIsAHole` leaves out this position (`behind`).
- A segment that is on disk when it comes into the window has its position at its end
  (CdnDownloader.cpp:233). When it is evicted (DiskCachePool.cpp:98) the downloader is
  not told: nobody asks for its pieces while it stays in the window, and a sink waits.
  `NothingIsForgotten` leaves such a segment out (`disk`).
- A segment that turns out to be shorter than the two blocks it was made of keeps
  pieces behind its end: the loop in `set_size` that would drop them runs from the new
  count to the new count (Segment.cpp:127), and no later release comes to them.
- `Segment::map_block` takes one from `left_` at every mapping (Segment.cpp:193):
  `FullSegmentIsComplete` fails with a disk cache, and the counter can wrap.
- A segment completed by a piece other than the one at `data_ready.id` raises no
  `segment_full` and is never saved; a load that succeeds raises no `data_ready`.
- `SegmentMeta::check` compares durations where it means sizes (Segment.h:41).
- The capacity of the disk cache is only looked at after the eviction test: with free
  entries left nothing is evicted and nothing more saved. A segment that is downloaded
  while its file is being checked gets two entries (`ConcurrentLoad`).
- A backward seek inside a segment of the window raises no position
  (CdnDownloader.cpp:245): the pieces before it are never requested.
- `P2pSource::cancel` drops the requests for other segments too, which are then
  forgotten: `NothingIsForgotten` fails for a peer with several segments.
- A late segment given as a context is not counted (CdnDownloader.cpp:116):
  `NsourceIsExact` fails with peers, and a counter at -1 is the worst priority.
- A source without a task is woken by no time-out of another (line 136), and a
  cancelled peer waits for a map; so `WaitingSinkIsServed` is checked without peers.
- `timeout_seg_` may point to a deleted `SegmentInfo`. The model takes the outcome
  that it reads as empty; a build may also crash or hand out anything.
- An unknown segment shorter than the first request makes the source open a range that does not exist again and again.
- A second sink detaches the first, whose next seek uses a NULL `scheduler_`.
- A late piece at `win_end_` passes the test of the window and indexes past the end
  of `segments_` (CdnDownloader.cpp:278).
- An iterator fetches `block_` before it raises `data_miss`, whose handler may free
  that block (ResourceData.cpp:121).
- `window_left` of a `P2pSource` is unsigned: when the window falls below the requests
  under way it wraps and nothing bounds the requests any more (P2pSource.cpp:149).
- A `P2pSink` asserts that a piece is there that was evicted after the map had been
  sent (P2pSink.cpp:76).

HTTP front end (`HttpFront`)

- `piece_` is overwritten when a description is asked for while a segment is sent
  (HttpSession.cpp:188): `close_request` starts the segment again.
- `fetch_next` takes the next range without a new seek when the sink was moved
  meanwhile (:276), and the body is that of another segment.
- A write with an error, or the last fetch while others wait, starts nothing
  (:306): the session stalls. Nobody is told of a size that becomes known while the
  sink is at another segment (Sink.cpp:176).
- Two sessions on one resource: the older one's sink is detached (Sink.cpp:53).
- A request that is in no list of its session can end after the session has been
  deleted (HttpServer.cpp:215).

Tunnels (`Tunnel`, `Bus`)

- The second of two binds in a packet goes to the sink of the first, and the data of
  one resource is taken for another's (UdpSessionListener.cpp:129).
- A request can reach a `P2pSource`, which asserts (P2pSource.cpp:314), when the
  tunnel of the peer has been replaced or a host started again. The same comes of an
  answer to a bind that is late: a `P2pSource` takes it from a tunnel that the peer has
  deleted since, and keeps a slot of the old tunnel (P2pSource.cpp:305). This takes
  three silences and more, and packets that outlive them; `BoundToItsSink` names it
  ("late").
- A host that downloads and is started again numbers its tunnels and sources from one
  again, so that a late answer is taken for that of another source and its resource.
- A source keeps its map when it loses its peer (P2pSource.cpp:221) and, bound again,
  asks for nothing until the window moves.
- When only one side has heard nothing for thirty seconds, the other keeps a source
  whose sink is gone: heard, and never answered.
- With all slots taken by tunnels the next one meets an assertion (Bus.cpp:184). A
  detached slot stays in the line of those to send (the TODO at Bus.cpp:211); this
  does no harm, as the Fifo of a tunnel is always empty before it goes
  (`SignalsAreLive`, proved in `SlotsAreInOrder`). What is pushed outside the handlers of the socket waits for
  the next one; what finds the Fifo full is dropped.

Finders (`Finder`)

- The jump server is never asked: `SinkManager` adds a url of its own, so that the
  list of urls is never empty (CdnFinder.cpp:60). A resource asked for by its id
  alone gets no CDN source.
- A url that both the player and the index name gives the same source twice.
- The first answer of a tracker removes the request (Finder.cpp:43); what the others
  found waits for the next question, and so does what was lost. The next question
  comes when the sink reaches another segment (Downloader.cpp:111-117); a sink that stays,
  pauses or is at the end asks no more.
- After moving to another tracker the finder gives up without having tried the first
  one again, nor those between it and the last that answered, and gets no more timers
  (P2pUdpFinder.cpp:121).
- `opened_` never becomes true: resources added after the login are never announced
  (P2pFinder.cpp:137). A lost or late RSP_Login leaves the list unsent.
- Nothing raises `resource_deleting`; a failed bootstrap is not tried again.

Playlists (`Playlist`)

- When the list has moved on past what is known it is numbered on without the gap, and
  the same segments are appended at every reading (M3u8Media.cpp:323); a live list that
  starts at 0 is renumbered (:279).
- A failed or cancelled reading ends the reloading for ever; the cancel may come from a
  seek (CdnDownloader.cpp:200). A source whose first open fails never opens.
- The prefix of the first url serves for those of the media list as well (:373).
- `CdnSource` does not look at the error of `segment_url` and asks for an empty url
  again and again (CdnSource.cpp:164).
- In a list that is written, a segment shorter than a second, or of unknown length,
  gets length 1 and the next one up to 2^64 - 1 (M3u8Protocol.cpp:83-88); the comment
  there says that what is left is rounded up.

## 7. Not modelled

- Text and bytes (XML, layouts of messages, `Serialize.h`), start-up and the export
  layer, system calls, byte buffers and the stun. They keep no state of their own.
- `MemoryManager` sizes the pools once; statistics, graphs and reports read state and
  change none of it.
- `Priority` and `Shaping` are used by nothing, the buses of `ssp` carry statistics
  only, `P2pHttpFinder` is instantiated nowhere.
- `HttpFront`: shutdown, ranges that cannot be satisfied, requests without a session,
  the XML of descriptions.
- `Tunnel`: unbind and disconnect, pings, stateless tunnels, the choice among several
  endpoints, meta data, requests of several pieces. The window of a `P2pSource` is a
  constant in `CdnDownloader`.
- `ResourceData`: get_segments, segment_error, the md5 sums (a choice in `DiskCache`),
  iterators beyond the block they fetch. `DiskCache`: several resources in one pool.
- `Playlist`: `close` and `del_source`, which nobody calls while the program runs; time.

In the modules that do not model the ticks a timer is an action of its own.
