------------------------------ MODULE HttpFront ------------------------------
(***************************************************************************)
(* The HTTP front end: HttpServer (one per connection of a player),        *)
(* HttpSession (the sink that the connections of one player share) and     *)
(* HttpManager (http/), with the managers a session goes through to get    *)
(* its resource: SinkManager, ResourceManager and the sink lists of a      *)
(* Downloader.  Everything runs on one thread; an action is one callback   *)
(* of it, with everything it calls.                                        *)
(*                                                                         *)
(* The calls pass a record w of the whole state.  Ranges, headers and      *)
(* bodies are data and are left out: a /fetch asks for a whole segment.    *)
(* A player names its session; sessions are told apart by Obj, which       *)
(* stands for the address of the object and is not used twice.             *)
(*                                                                         *)
(* The util library's HttpServer is external: it calls local_process,      *)
(* then, when it has written the head, transfer_response_data, and         *)
(* on_finish when the last answer has been given or after on_error.        *)
(***************************************************************************)
EXTENDS Integers, FiniteSets, SequencesExt

CONSTANTS
  Conns,      \* the connections, HttpServer objects that are used again
  Names,      \* the session ids
  ResOf,      \* the resource each session asks for
  NSegs,      \* the number of segments of a resource
  Pieces,     \* the number of pieces of a segment
  MaxObj,     \* bound: the number of sessions created in a behaviour
  MaxAsked,   \* bound: the number of requests made in a behaviour
  CanFail     \* whether fetches of a resource and writes may fail

VARIABLES
  conn,       \* what each HttpServer keeps
  ses,        \* the HttpSession objects
  res,        \* the resources, with the sinks of their Downloader
  mgr,        \* HttpManager, SinkManager and ResourceManager
  bad         \* what has gone wrong: a fault ends the program; wrong is set when a body
              \* is not that of its segment; before is what happened on the way

vars == <<conn, ses, res, mgr, bad>>

Nil  == 0
Obj  == 1 .. MaxObj
Segs == 0 .. NSegs - 1
Info == NSegs               \* MAX_SEGMENT: /meta, /stat or /hls
Resources == {ResOf[n] : n \in Names}

ASSUME FrontAssumption ==
  /\ NSegs \in Nat \ {0} /\ Pieces \in Nat \ {0} /\ MaxObj \in Nat /\ MaxAsked \in Nat
  /\ ResOf \in [Names -> Nat \ {0}] /\ CanFail \in BOOLEAN

(* A connection: st is "idle", "open" until it is told that its session is   *)
(* open, "head" while the head of a segment is written, "fetch" until the    *)
(* segment has been sent, "done" while a body that was made or the rest is   *)
(* written, until on_finish.  post is an answer posted to the       *)
(* io_service; gone: the player has closed the connection.                   *)
NoConn == [st |-> "idle", obj |-> Nil, seg |-> Info, post |-> "no", gone |-> FALSE]

(* A session: the requests opened and those being sent, piece_, the writes   *)
(* under way, whether it listens to data_ready, and the sink it is.          *)
NoSession == [live |-> FALSE, name |-> Nil, open |-> <<>>, fetch |-> <<>>, piece |-> FALSE, writes |-> 0,
              wait |-> FALSE, err |-> FALSE, att |-> FALSE, res |-> Nil, pos |-> 0, end |-> 0, old |-> FALSE]

World(rd) == [conn |-> conn, ses |-> ses, res |-> res, mgr |-> mgr, bad |-> bad, rd |-> rd]
Become(w) == /\ conn' = w.conn /\ ses' = w.ses /\ res' = w.res /\ mgr' = w.mgr /\ bad' = w.bad

Fault(w, f) == [w EXCEPT !.bad.fault = @ \union {f}]
Note(w, t)  == [w EXCEPT !.bad.before = @ \union {t}]

-----------------------------------------------------------------------------
(* HttpServer: the answers of the session.                                   *)

\* Only the session counts from now on.
Done(x) == [NoConn EXCEPT !.st = "done", !.obj = x.obj]

Post(w, c, a) == [w EXCEPT !.conn[c].post = a]

\* handle_open: an error, the description of the resource, or the head of a
\* segment.  Without a meta there is no description to send.
handle_open(w, c, ok) ==
  LET o == w.conn[c].obj
  IN  IF ok /\ ~w.ses[o].live THEN Fault(w, "freed")
      ELSE IF ok /\ w.conn[c].seg = Info /\ ~w.res[w.ses[o].res].meta THEN Fault(w, "no meta")
      ELSE IF w.conn[c].gone \/ ~ok \/ w.conn[c].seg = Info THEN [w EXCEPT !.conn[c] = Done(@)]
      ELSE [w EXCEPT !.conn[c].st = "head"]

handle_fetch(w, c) == [w EXCEPT !.conn[c] = Done(@)]

\* The callback that a request holds: boost::function throws when it is empty.
Call(w, q, ok) ==
  IF ~q.resp THEN Fault(w, "empty callback")
  ELSE IF w.conn[q.c].st = "open" THEN handle_open(w, q.c, ok) ELSE handle_fetch(w, q.c)

\* The open requests for one segment are told, and stay in the list.
CallOpen(w, o, seg, ok) ==
  LET Told(v, q) == IF q.seg = seg
                    THEN LET u == Call(v, q, ok)
                         IN  [u EXCEPT !.ses[o].open = Append(@, [q EXCEPT !.resp = FALSE])]
                    ELSE [v EXCEPT !.ses[o].open = Append(@, q)]
  IN  FoldLeft(Told, [w EXCEPT !.ses[o].open = <<>>], w.ses[o].open)

-----------------------------------------------------------------------------
(* HttpSession: the requests take turns.                                     *)

empty(s) == s.open = <<>> /\ s.fetch = <<>>
at_end(s) == s.pos >= s.end
First(s) == IF s.fetch = <<>> THEN s.open[1] ELSE s.fetch[1]

\* Sink::seek_to: a sink that is not attached has neither scheduler nor lock.
seek_to(w, o, seg) ==
  LET s == w.ses[o]
      \* another request has been sought already and will not be again
      moved == \E q \in Range(s.open) \union Range(s.fetch) : q.sought /\ q.seg \notin {Info, seg}
      v == IF moved THEN Note(w, "moved") ELSE w
  IN  IF ~s.att THEN Fault(w, "detached")
      ELSE [v EXCEPT !.ses[o].pos = seg * Pieces, !.ses[o].end = (seg + 1) * Pieces]

\* write: the answer when all has been sent, the next piece, or wait for it.
write(w, o) ==
  LET s == w.ses[o]  q == s.fetch[1]
      v == IF s.end # (q.seg + 1) * Pieces THEN [w EXCEPT !.bad.wrong = TRUE] ELSE w
  IN  IF at_end(s) THEN [Call(v, q, TRUE) EXCEPT !.ses[o].fetch[1].resp = FALSE]
      ELSE IF w.rd
      THEN [v EXCEPT !.ses[o].piece = TRUE, !.ses[o].writes = @ + 1, !.ses[o].pos = @ + 1]
      ELSE [v EXCEPT !.ses[o].piece = FALSE, !.ses[o].wait = TRUE]

fetch_next(w, o) ==
  LET s == w.ses[o]
      v == IF First(s).sought THEN w ELSE seek_to(w, o, First(s).seg)
      u == IF s.fetch = <<>> THEN [v EXCEPT !.ses[o].open[1].sought = TRUE]
                             ELSE [v EXCEPT !.ses[o].fetch[1].sought = TRUE]
  IN  IF empty(s) THEN w
      ELSE IF First(s).sink /\ u.bad.fault = {} THEN write(u, o) ELSE u

\* Mutant of NewRequest: async_open forgets the range.
NewRequest_NoRange(c, seg, resp) == [c |-> c, seg |-> seg, resp |-> resp, sought |-> TRUE, sink |-> FALSE]

NewRequest(c, seg, resp) == [c |-> c, seg |-> seg, resp |-> resp, sought |-> seg = Info, sink |-> FALSE]

\* async_open of a description: the answer is posted, or given by on_attach.
async_open_info(w, o, c) ==
  LET s == w.ses[o]
      known == s.res # Nil /\ w.res[s.res].meta
      v == IF s.err THEN Post(w, c, "error") ELSE IF known THEN Post(w, c, "ok")
           ELSE IF s.att THEN Note(w, "no meta") ELSE w
  IN  [v EXCEPT !.ses[o].open = Append(@, NewRequest(c, Info, ~s.err /\ ~known))]

\* async_open of a segment: a request that is refused is in no list.
async_open_segment(w, o, c, seg) ==
  LET s == w.ses[o]
      known == seg \in w.res[s.res].segs
      v == [IF known THEN Post(w, c, "ok") ELSE w
              EXCEPT !.ses[o].open = Append(@, NewRequest(c, seg, ~known))]
  IN  IF s.err \/ s.res = Nil THEN Post(w, c, "error")
      ELSE IF ~w.res[s.res].meta THEN Post(w, c, "error")
      ELSE IF Len(v.ses[o].open) = 1 /\ s.fetch = <<>> THEN fetch_next(v, o) ELSE v

\* The index of the request of c in a list, 0 if there is none.
Find(l, c) == SelectInSeq(l, LAMBDA q : q.c = c)

async_fetch(w, o, c) ==
  LET s == w.ses[o]
      i == Find(s.open, c)
      q == [s.open[i] EXCEPT !.sink = TRUE, !.resp = TRUE]
      v == [w EXCEPT !.ses[o].open = RemoveAt(s.open, i), !.ses[o].fetch = Append(@, q), !.conn[c].st = "fetch"]
  IN  IF i = 0 THEN Fault(w, "not open")
      ELSE IF s.open[i].resp THEN Fault(w, "not open")
      ELSE IF Len(v.ses[o].fetch) = 1 THEN fetch_next(v, o) ELSE v

\* Mutant of close_request: the sink still listens to data_ready.
close_request_Listens(w, o, c) ==
  LET s == w.ses[o]
      i == Find(s.open, c)
      j == Find(s.fetch, c)
      Abort(q) == IF q.resp THEN Post(w, c, "error") ELSE w
      f == [Abort(s.fetch[j]) EXCEPT !.ses[o].fetch = RemoveAt(s.fetch, j)]
  IN  IF i # 0 THEN [Abort(s.open[i]) EXCEPT !.ses[o].open = RemoveAt(s.open, i)]
      ELSE IF j = 0 THEN w
      ELSE IF j = 1 /\ s.piece THEN [w EXCEPT !.ses[o].fetch[1].sink = FALSE]
      ELSE IF j = 1 /\ f.ses[o].fetch # <<>> THEN fetch_next(f, o) ELSE f

\* close_request: from either list.  The first request being sent stays, without
\* its sink, until its write has returned.  Closing the first open request starts
\* the first fetch again.
close_request(w, o, c) ==
  LET s == w.ses[o]
      i == Find(s.open, c)
      j == Find(s.fetch, c)
      Abort(v, q) == IF q.resp THEN Post(v, c, "error") ELSE v
      v == [Abort(w, s.open[i]) EXCEPT !.ses[o].open = RemoveAt(s.open, i)]
      u == IF j = 1 /\ s.fetch[1].sink THEN [w EXCEPT !.ses[o].wait = FALSE] ELSE w
      f == [Abort(u, s.fetch[j]) EXCEPT !.ses[o].fetch = RemoveAt(s.fetch, j)]
      \* nobody will seek for the open requests that wait for their segment
      left == Len(s.fetch) = 1 /\ \E q \in Range(s.open) : q.resp /\ q.seg # Info
  IN  IF i # 0
      THEN IF i = 1 /\ s.fetch # <<>> THEN fetch_next(Note(v, "polled"), o)
           ELSE IF i = 1 /\ \E q \in Range(Tail(s.open)) : q.resp /\ q.seg # Info THEN Note(v, "stalled") ELSE v
      ELSE IF j = 0 THEN w
      ELSE IF j = 1 /\ s.piece THEN [u EXCEPT !.ses[o].fetch[1].sink = FALSE]
      ELSE IF j = 1 /\ f.ses[o].fetch # <<>> THEN fetch_next(f, o)
      ELSE IF left THEN Note(f, "stalled") ELSE f

\* on_data: assert(!piece_).
on_data(w, o) ==
  LET v == [w EXCEPT !.ses[o].wait = FALSE]
  IN  IF w.ses[o].piece \/ w.ses[o].fetch = <<>> THEN Fault(v, "assert piece") ELSE write(v, o)

\* Mutant of on_write: a request whose player has left is popped, and no more.
on_write_NoNext(w, o, ok) ==
  LET s == w.ses[o]
      v == [w EXCEPT !.ses[o].piece = FALSE, !.ses[o].writes = @ - 1]
      p == [Call(v, s.fetch[1], FALSE) EXCEPT !.ses[o].fetch = Tail(s.fetch)]
  IN  IF s.fetch[1].sink /\ ok THEN write(v, o)
      ELSE IF s.fetch[1].sink /\ Len(s.fetch) + Len(s.open) > 1 THEN Note(p, "stalled") ELSE p

\* on_write: assert(piece_).  After an error nobody starts the next request.
on_write(w, o, ok) ==
  LET s == w.ses[o]
      v == [w EXCEPT !.ses[o].piece = FALSE, !.ses[o].writes = @ - 1]
      Pop(x) == [x EXCEPT !.ses[o].fetch = Tail(s.fetch)]
      p == Pop(Call(v, s.fetch[1], FALSE))
  IN  IF ~s.piece THEN Fault(w, "assert piece")
      ELSE IF ~s.fetch[1].sink THEN IF p.bad.fault = {} THEN fetch_next(p, o) ELSE p
      ELSE IF ~ok THEN IF Len(s.fetch) + Len(s.open) > 1 THEN Note(p, "stalled") ELSE p
      ELSE write(v, o)

-----------------------------------------------------------------------------
(* Sinks: SinkManager asks for the resource, Downloader keeps the sinks of   *)
(* one, of which the first is attached.                                      *)

attach(w, o, r) ==
  CallOpen([w EXCEPT !.ses[o].att = TRUE, !.ses[o].res = r], o, Info, TRUE)

detach(w, o) == [w EXCEPT !.ses[o].att = FALSE, !.ses[o].old = FALSE]

\* Downloader::add_sink: the latest sink is the one that is served.
Downloader_add_sink(w, o, r) ==
  LET x == w.res[r]
      v == IF x.master # Nil THEN Note(detach(w, x.master), "shared") ELSE w
  IN  attach([v EXCEPT !.res[r].sinks = <<o>> \o @, !.res[r].master = o], o, r)

Downloader_del_sink(w, o) ==
  LET r == w.ses[o].res
      v == IF w.res[r].master = o THEN [detach(w, o) EXCEPT !.res[r].master = Nil] ELSE w
      rest == SelectSeq(v.res[r].sinks, LAMBDA x : x # o)
      u == [v EXCEPT !.res[r].sinks = rest]
  IN  IF u.res[r].master # Nil \/ rest = <<>> THEN u
      ELSE IF ~w.ses[rest[1]].live THEN Fault(u, "freed")
      ELSE attach([u EXCEPT !.res[r].master = rest[1]], rest[1], r)

\* HttpSession::on_error: every open request is told and dropped.
set_error(w, o) ==
  LET v == FoldLeft(LAMBDA u, q : Call(u, q, FALSE), [w EXCEPT !.ses[o].err = TRUE], w.ses[o].open)
  IN  [v EXCEPT !.ses[o].open = <<>>]

\* SinkManager::on_event: the sink that asked may be gone.
on_got_resource(w, o, r) ==
  IF o = Nil THEN w ELSE IF r # Nil THEN Downloader_add_sink(w, o, r) ELSE set_error(w, o)

\* ResourceManager::get_next: the fetch for the first request is started.
get_next(w) == [w EXCEPT !.mgr.fetching = @ + 1]

\* ResourceManager::async_get: a resource named by its id is there at once.
async_get(w, o, n, rid) ==
  LET v == [w EXCEPT !.mgr.queue = Append(@, [sink |-> o, name |-> n])]
  IN  IF rid THEN on_got_resource(w, o, ResOf[n])
      ELSE IF w.mgr.queue = <<>> THEN get_next(v) ELSE v

\* Mutant of del_sink: the request that waits is not told.
del_sink_Keep(w, o) == IF w.ses[o].att THEN Downloader_del_sink(w, o) ELSE w

del_sink(w, o) ==
  IF w.ses[o].att THEN Downloader_del_sink(w, o)
  ELSE [w EXCEPT !.mgr.queue =
          FoldLeft(LAMBDA s, e : Append(s, IF e.sink = o THEN [e EXCEPT !.sink = Nil] ELSE e), <<>>, @)]

-----------------------------------------------------------------------------
(* HttpManager: the sessions by name, and those closed but still in use.     *)

\* Mutant of Delete: last_session_ still points to the session.
Delete_KeepLast(w, o) == [del_sink(w, o) EXCEPT !.ses[o] = NoSession]

\* A session goes: the sink is taken back first.
Delete(w, o) ==
  [del_sink(w, o) EXCEPT !.mgr.last = IF @ = o THEN Nil ELSE @, !.ses[o] = NoSession]

free_session(w, o) ==
  IF o \in w.mgr.closed /\ empty(w.ses[o])
  THEN [Delete(w, o) EXCEPT !.mgr.closed = @ \ {o}]
  ELSE w

NewSession(w, n, rid) ==
  LET o == w.mgr.next
  IN  async_get([w EXCEPT !.ses[o] = [NoSession EXCEPT !.live = TRUE, !.name = n],
                          !.mgr.next = @ + 1, !.mgr.map[n] = o], o, n, rid)

\* alloc_session: the session of that name or a new one, which the request may
\* close at once: it is then only reached by the connections that have it.
alloc_session(w, n, rid, close) ==
  LET v == IF w.mgr.map[n] # Nil THEN w ELSE NewSession(w, n, rid)
      o == v.mgr.map[n]
      u == IF close THEN [v EXCEPT !.mgr.map[n] = Nil, !.mgr.closed = @ \union {o}] ELSE v
  IN  [w |-> [u EXCEPT !.mgr.last = o], obj |-> o]

-----------------------------------------------------------------------------
Init ==
  /\ conn = [c \in Conns |-> NoConn]
  /\ ses = [o \in Obj |-> NoSession]
  /\ res = [r \in Resources |-> [meta |-> FALSE, segs |-> {}, sinks |-> <<>>, master |-> Nil]]
  /\ mgr = [map |-> [n \in Names |-> Nil], closed |-> {}, last |-> Nil, queue |-> <<>>, fetching |-> 0, next |-> 1, asked |-> 0]
  /\ bad = [fault |-> {}, before |-> {}, wrong |-> FALSE]

Running == bad.fault = {}

\* HttpServer::local_process: a request of a player.
local_process(c, n, rid, seg, close) ==
  /\ Running /\ conn[c].st = "idle" /\ IF mgr.map[n] = Nil THEN mgr.next \in Obj ELSE ~rid
  /\ mgr.asked < MaxAsked
  /\ \E rd \in BOOLEAN :
       LET a == alloc_session(World(rd), n, rid, close)
           v == [a.w EXCEPT !.mgr.asked = @ + 1, !.conn[c] = [NoConn EXCEPT !.st = "open", !.obj = a.obj, !.seg = seg]]
       IN  IF v.bad.fault # {} THEN Become(v)
           ELSE Become(IF seg = Info THEN async_open_info(v, a.obj, c) ELSE async_open_segment(v, a.obj, c, seg))

\* The io_service runs an answer that was posted.
posted(c) ==
  /\ Running /\ conn[c].post # "no"
  /\ LET w == Post(World(FALSE), c, "no")
     IN  Become(IF conn[c].st = "open" THEN handle_open(w, c, conn[c].post = "ok") ELSE handle_fetch(w, c))

\* HttpServer::transfer_response_data: the head has been written, the segment follows.
transfer_response_data(c) ==
  /\ Running /\ conn[c].st = "head"
  /\ \E rd \in BOOLEAN :
       Become(IF ~ses[conn[c].obj].live THEN Fault(World(rd), "freed")
              ELSE async_fetch(World(rd), conn[c].obj, c))

\* HttpServer::on_error: the player has closed the connection.  on_finish follows
\* the answer that is still to come.
on_error(c) ==
  /\ Running /\ conn[c].st # "idle" /\ ~conn[c].gone
  /\ \E rd \in BOOLEAN :
       LET w == [World(rd) EXCEPT !.conn[c] = IF @.st \in {"head", "done"} THEN Done(@) ELSE [@ EXCEPT !.gone = TRUE]]
       IN  Become(IF ~ses[conn[c].obj].live THEN Fault(w, "freed") ELSE close_request(w, conn[c].obj, c))

\* HttpServer::on_finish: the connection gives its session back.
on_finish(c) ==
  /\ Running /\ conn[c].st = "done"
  /\ \E rd \in BOOLEAN :
       LET o == conn[c].obj
           v == [close_request(World(rd), o, c) EXCEPT !.conn[c] = NoConn]
       IN  Become(IF ~ses[o].live THEN Fault(World(rd), "freed")
                  ELSE IF v.bad.fault # {} THEN v ELSE free_session(v, o))

\* async_write returns.
written(o, ok) ==
  /\ Running /\ ses[o].writes > 0
  /\ \E rd \in BOOLEAN : Become(on_write(World(rd), o, ok))

\* data_ready is raised: the sinks that listen to it read on.
data_ready(o) ==
  /\ Running /\ ses[o].wait
  /\ Become(on_data(World(TRUE), o))

\* seg_meta_ready is raised for every sink that was ever attached: detach does not
\* remove the handler.  Of a deleted sink the model takes the outcome that nothing
\* happens.
seg_meta_ready(r, seg) ==
  /\ Running /\ seg \notin res[r].segs /\ res[r].sinks # <<>>
  /\ Become(FoldLeft(LAMBDA w, o : IF ~ses[o].live \/ ses[o].res # r THEN w
                                   ELSE IF ses[o].pos \div Pieces = seg THEN CallOpen(w, o, seg, TRUE)
                                   ELSE IF \E q \in Range(ses[o].open) : q.seg = seg THEN Note(w, "stalled")
                                   ELSE w,
                     [World(FALSE) EXCEPT !.res[r].segs = @ \union {seg}],
                     [i \in Obj |-> i]))

\* ResourceManager::handle_fetch: the index server has answered the first request.
handle_resource(ok) ==
  /\ Running /\ mgr.fetching > 0 /\ mgr.queue # <<>>
  /\ LET e == Head(mgr.queue)
         r == ResOf[e.name]
         w == [World(FALSE) EXCEPT !.mgr.queue = Tail(@), !.mgr.fetching = @ - 1]
         v == IF ok THEN on_got_resource([w EXCEPT !.res[r].meta = TRUE], e.sink, r)
                    ELSE on_got_resource(w, e.sink, Nil)
     IN  Become(IF v.mgr.queue = <<>> THEN v ELSE get_next(v))

\* The disk cache has read the meta of the resource from its directory
\* (ResourceCache::load_status, in the work thread).
meta_known(r) ==
  /\ Running /\ ~res[r].meta /\ res[r].sinks # <<>>
  /\ Become([World(FALSE) EXCEPT !.res[r].meta = TRUE])

Expired(w, o) ==
  LET s == w.ses[o] IN s.live /\ empty(s) /\ s.old /\ (~s.att \/ o # w.mgr.last)

\* HttpManager::on_event: sessions that were idle for ten seconds are deleted.
keep_alive ==
  /\ Running /\ \E n \in Names : mgr.map[n] # Nil /\ Expired(World(FALSE), mgr.map[n])
  /\ Become(FoldLeft(LAMBDA w, n : IF w.bad.fault = {} /\ w.mgr.map[n] # Nil /\ Expired(w, w.mgr.map[n])
                                   THEN [Delete(w, w.mgr.map[n]) EXCEPT !.mgr.map[n] = Nil] ELSE w,
                     World(FALSE), SetToSeq(Names)))

\* Ten seconds have passed since the session was created or detached.  It is asked
\* only of a session without requests, so that is when the model lets it happen.
ten_seconds(o) ==
  /\ Running /\ ses[o].live /\ ~ses[o].old /\ empty(ses[o])
  /\ Become([World(FALSE) EXCEPT !.ses[o].old = TRUE])

Next ==
  \/ \E c \in Conns :
       \/ \E n \in Names, seg \in Segs \union {Info}, rid, close \in BOOLEAN : local_process(c, n, rid, seg, close)
       \/ posted(c) \/ transfer_response_data(c) \/ on_error(c) \/ on_finish(c)
  \/ \E o \in Obj : written(o, TRUE) \/ (CanFail /\ written(o, FALSE)) \/ data_ready(o) \/ ten_seconds(o)
  \/ \E r \in Resources : meta_known(r) \/ \E seg \in Segs : seg_meta_ready(r, seg)
  \/ handle_resource(TRUE) \/ (CanFail /\ handle_resource(FALSE))
  \/ keep_alive

\* What the io_service, the network and the download owe: posted answers are run,
\* writes return, the index server answers, sizes and pieces arrive.  A write that
\* fails and a player that leaves are not owed.
Progress ==
  \/ \E c \in Conns : posted(c) \/ transfer_response_data(c) \/ on_finish(c)
  \/ \E o \in Obj : written(o, TRUE) \/ data_ready(o)
  \/ \E r \in Resources, seg \in Segs : seg_meta_ready(r, seg)
  \/ handle_resource(TRUE)

CanProgress ==
  Running /\ \/ \E c \in Conns : conn[c].post # "no" \/ conn[c].st \in {"head", "done"}
             \/ \E o \in Obj : ses[o].writes > 0 \/ ses[o].wait
             \/ \E r \in Resources : res[r].sinks # <<>> /\ res[r].segs # Segs
             \/ mgr.fetching > 0

\* WF_vars(Progress), with ENABLED Progress written out for TLC.
Fairness == []<>~CanProgress \/ []<><<Progress>>_vars

Spec == Init /\ [][Next]_vars /\ Fairness
-----------------------------------------------------------------------------
\* Values of the state: no more requests than connections, and a position that no
\* read takes past the end of the resource.
TypeOK ==
  /\ \A c \in Conns : /\ conn[c].st \in {"idle", "open", "head", "fetch", "done"} /\ conn[c].gone \in BOOLEAN
                      /\ conn[c].obj \in Obj \union {Nil} /\ conn[c].post \in {"no", "ok", "error"}
  /\ \A o \in Obj : LET s == ses[o] IN
       /\ Len(s.open) + Len(s.fetch) <= Cardinality(Conns)
       /\ \A q \in Range(s.open \o s.fetch) : q.c \in Conns /\ q.seg \in Segs \union {Info}
       /\ s.pos \in 0 .. NSegs * Pieces /\ s.end \in 0 .. NSegs * Pieces
  /\ \A n \in Names : mgr.map[n] \in Obj \union {Nil}
  /\ mgr.closed \subseteq Obj /\ mgr.last \in Obj \union {Nil}

-----------------------------------------------------------------------------
(* What the front end promises, and where the code breaks it.                *)

\* The asserts of HttpSession, and the pointers and callbacks it uses, fail only
\* in these ways: piece_ is overwritten when the first open request is closed while
\* a segment is sent (close_request starts it again); callbacks are empty and
\* schedulers NULL when two sessions share a resource, since the older one is
\* detached; a description is made of a resource whose meta is not known.  (That a
\* connection whose request is in no list may lose its session is "freed", below.)
Causes == ("assert piece" :> {"polled"}) @@ ("empty callback" :> {"polled", "shared"}) @@
          ("detached" :> {"shared"}) @@ ("no meta" :> {"shared"}) @@ ("not open" :> {})
FaultsHaveCauses == \A f \in bad.fault \ {"freed"} : Causes[f] \intersect bad.before # {}

\* A request is answered with its own segment, unless the sink was moved from a
\* request that has been sought (fetch_next pops the range and does not seek again),
\* or piece_ was overwritten when the first open request was closed meanwhile.
BodyIsItsSegment == bad.wrong => bad.before \intersect {"moved", "polled"} # {}

\* A connection that waits for its session is not forgotten: its callback is in
\* exactly one list of a session that is alive, or is posted.  A request in a list
\* is that of a connection that has the session.
RequestsBelong == Running /\ "polled" \notin bad.before =>
  /\ \A c \in Conns : conn[c].st \in {"open", "fetch"} /\ conn[c].post = "no" =>
       /\ ses[conn[c].obj].live
       /\ LET l == SelectSeq(ses[conn[c].obj].open \o ses[conn[c].obj].fetch, LAMBDA q : q.c = c)
          IN  Len(l) = 1 /\ l[1].resp
  /\ \A o \in Obj : \A q \in Range(ses[o].open \o ses[o].fetch) : conn[q.c].st # "idle" /\ conn[q.c].obj = o

\* The answer of the index server finds the sink that asked, not yet attached, or
\* knows that it is gone (SinkManager::del_sink).
PendingSinkIsLive ==
  \A i \in DOMAIN mgr.queue : LET e == mgr.queue[i] IN
     e.sink # Nil => ses[e.sink].live /\ ~ses[e.sink].att /\ ses[e.sink].name = e.name

\* The index server is asked for one resource at a time, while any is wanted:
\* ResourceManager has one HTTP client and matches answers by the front of the queue.
OneFetch == mgr.fetching = IF mgr.queue = <<>> THEN 0 ELSE 1

\* No session is lost: each is found by its name or waits among the closed ones for
\* its last connection, and last_session_ is not a deleted one.
SessionsAreKept ==
  /\ {o \in Obj : ses[o].live} = mgr.closed \union ({mgr.map[n] : n \in Names} \ {Nil})
  /\ mgr.last # Nil => ses[mgr.last].live

\* Sessions as a whole: none is lost, nor a request in one, nor a fetch of a resource.
SessionsInv == TypeOK /\ RequestsBelong /\ OneFetch /\ SessionsAreKept

\* Every request is finished, unless the session stalls: a write fails or the last
\* fetch ends while others wait, or a size becomes known while the sink is at
\* another segment (nobody is told); or a resource named by its id has no meta.
Trouble  == bad.fault # {} \/ bad.before \intersect {"stalled", "no meta"} # {}
Answered == \A c \in Conns : []<>(conn[c].st = "idle" \/ Trouble)
=============================================================================
