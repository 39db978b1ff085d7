------------------------------- MODULE Finder -------------------------------
(***************************************************************************)
(* Where a Downloader gets its sources from (core/Finder, cdn/CdnFinder,   *)
(* cdn/CdnManager, p2p/P2pFinder, p2p/P2pUdpFinder, p2p/P2pManager), with  *)
(* the DownloadManager that asks, the Bootstrap that says where the        *)
(* trackers are, and the trackers themselves.                              *)
(*                                                                         *)
(* Everything runs on one thread; an action is one handler of it with all  *)
(* the calls it makes, which pass a record w.  The trackers are external:  *)
(* they answer Login, Sync and Find as the handlers of the answers expect. *)
(* Nothing raises resource_deleting, so that resources, downloaders and    *)
(* sources stay for ever.                                                  *)
(*                                                                         *)
(* Timers run when what is under way has arrived, or in haste.             *)
(***************************************************************************)
EXTENDS Integers, FiniteSets, SequencesExt

CONSTANTS
  Rids,       \* the resources
  Wanted,     \* those that are played
  Lists,      \* the urls a resource may come with: those of the player and the index
  Trackers,   \* the most trackers that the bootstrap file names
  PeersOf,    \* the hosts a tracker knows for the resources that are played
  P2pMax,     \* p2p_max_count_: a downloader with as many asks no more: 20
  Chunk,      \* the number of resources in a Sync message: PIECE_SIZE / 16
  MaxTrouble  \* bound: how many things go wrong in a behaviour

VARIABLES
  boot,       \* Bootstrap: "asked", "ready" or "failed"
  res,        \* ResourceManager: the resources, and the urls nobody has asked for yet
  dl,         \* DownloadManager: the downloaders, with their sources
  req,        \* Finder::requests_ of the two finders
  posted,     \* calls of CdnFinder::found posted to the io_service
  known,      \* the sources that CdnManager and P2pManager have made
  fin,        \* P2pUdpFinder
  trk,        \* the trackers
  net,        \* the messages between host and trackers
  left,       \* how many things may still go wrong
  before      \* what happened on the way, for the properties

vars == <<boot, res, dl, req, posted, known, fin, trk, net, left, before>>

Self   == "self"    \* this host, in the list of a tracker
Tracks == 1 .. Trackers
None   == 0         \* index_ is (size_t)-1: no tracker

ASSUME FinderAssumption ==
  /\ Rids \subseteq Nat /\ IsFiniteSet(Rids) /\ Wanted \subseteq Rids
  /\ Lists \subseteq Seq(STRING) \ {<<>>}
  /\ Trackers \in Nat \ {0} /\ DOMAIN PeersOf = Tracks
  /\ \A t \in Tracks : PeersOf[t] \subseteq STRING /\ IsFiniteSet(PeersOf[t])
  /\ Chunk \in Nat \ {0} /\ P2pMax \in Nat /\ MaxTrouble \in Nat

Source(proto, r, at) == [proto |-> proto, rid |-> r, at |-> at]

\* CdnDownloader: its sources, and those that are in its lists more than once.
NoDownloader == [on |-> FALSE, sources |-> {}, again |-> {}]

\* P2pUdpFinder: the number of endpoints_ (0: not inited_), index_start_, index_, whether
\* the tunnel it is attached to is open, pending_msgs_.  Kept for the properties: the
\* resources in the last list, when RSP_Login has come (logged), and the trackers it
\* has been attached to since the last that answered.
NoFinder == [n |-> 0, start |-> None, index |-> None, open |-> FALSE, pending |-> <<>>,
             logged |-> FALSE, told |-> {}, tried |-> {}]

\* A tracker: whether it runs, holds the tunnel of this host, and the resources it
\* has been told of.
Tracker == [up |-> TRUE, tunnel |-> FALSE, rids |-> {}]

World == [boot |-> boot, res |-> res, dl |-> dl, req |-> req, posted |-> posted, known |-> known,
          fin |-> fin, trk |-> trk, net |-> net, before |-> before]
Become(w) ==
  /\ boot' = w.boot /\ res' = w.res /\ dl' = w.dl /\ req' = w.req /\ posted' = w.posted
  /\ known' = w.known /\ fin' = w.fin /\ trk' = w.trk /\ net' = w.net /\ before' = w.before
Note(w, n) == [w EXCEPT !.before = @ \union {n}]

Attached(w) == UNION {w.dl[r].sources : r \in Rids}

-----------------------------------------------------------------------------
(* Finder and DownloadManager: the answers.                                  *)

\* Downloader::on_sources: each is put into the list, and attached.
on_sources(w, r, s) ==
  LET twice == {i \in DOMAIN s : \/ s[i] \in w.dl[r].sources
                                 \/ \E j \in DOMAIN s : j < i /\ s[j] = s[i]}
  IN  [w EXCEPT !.dl[r].sources = @ \union Range(s), !.dl[r].again = @ \union {s[i] : i \in twice}]

handle_find(w, r, s) == IF w.dl[r].on THEN on_sources(w, r, s) ELSE w

\* Only the first answer to a request is used.
found(w, proto, r, s) ==
  IF r \in w.req[proto] THEN handle_find([w EXCEPT !.req[proto] = @ \ {r}], r, s)
  ELSE IF DOMAIN s = {} THEN w ELSE Note(w, "late")

-----------------------------------------------------------------------------
(* CdnFinder and CdnManager.                                                 *)

get_urls(w, r) == [w EXCEPT !.res.urls[r] = <<>>]

IsHttp(u) == u \notin {"param", "rid"}
\* The sources of a list of urls, at the places of those that are http.
Https(r, us) == [i \in {j \in DOMAIN us : IsHttp(us[j])} |-> Source("http", r, us[i])]

\* One source for each resource and url, made or found.
get_source(w, s) == [w EXCEPT !.known = @ \union Range(s)]

\* Mutant of CdnFinder_find: the answer is not posted.
CdnFinder_find_Now(w, r) ==
  LET s == Https(r, w.res.urls[r])
  IN  found(get_source(get_urls(w, r), s), "http", r, s)
\* The urls that came with the resource, those that are http; without any url the
\* jump server is asked, see JumpIsNotAsked.
CdnFinder_find(w, r) ==
  LET s == Https(r, w.res.urls[r])
      v == IF IsInjective(s) THEN w ELSE Note(w, "same url")
  IN  IF w.res.urls[r] = <<>> THEN Note(w, "jump")
      ELSE [get_source(get_urls(v, r), s) EXCEPT !.posted = Append(@, [rid |-> r, sources |-> s])]

-----------------------------------------------------------------------------
(* P2pFinder and P2pUdpFinder.                                               *)

Msg(type, t, r, list) == [type |-> type, t |-> t, rid |-> r, list |-> list]
Login(t)      == Msg("login", t, 0, {})
Sync(k, list) == Msg(k, None, 0, list)

\* (external) What a tracker answers at once: the tunnel and the login, or the hosts it
\* knows for a resource, this one included.
Answers(w, m) ==
  CASE m.type = "login" -> {Msg("connected", m.t, 0, {}), Msg("logged", m.t, 0, {})}
    [] m.type = "find"  -> {Msg("found", m.t, m.rid,
                                PeersOf[m.t] \union IF m.rid \in w.trk[m.t].rids THEN {Self} ELSE {})}
    [] OTHER -> {m}

\* What is sent to a tracker that does not run does not arrive.
Send(w, ms) ==
  LET there == {m \in ms : w.trk[m.t].up}
  IN  [w EXCEPT !.net = @ \union UNION {Answers(w, m) : m \in there},
                !.trk = [t \in Tracks |-> IF Login(t) \in there THEN [@[t] EXCEPT !.tunnel = TRUE] ELSE @[t]]]

\* P2pUdpFinder::send_msg: Find goes to every tracker, without a tunnel; the others go
\* to the tracker it is attached to, once the tunnel to it is open.
send_find(w, r) == Send(w, {Msg("find", t, r, {}) : t \in 1 .. w.fin.n})
send_msg(w, ms) ==
  IF w.fin.open THEN Send(w, {[m EXCEPT !.t = w.fin.index] : m \in Range(ms)})
  ELSE [w EXCEPT !.fin.pending = @ \o ms]

\* sync(0): the resources in the order of the map, a part for each message.
Parts(ids) ==
  LET place(r) == Cardinality({q \in ids : q < r})
  IN  [k \in 1 .. (Cardinality(ids) + Chunk - 1) \div Chunk |->
         {r \in ids : place(r) \div Chunk = k - 1}]

\* Mutant of sync: every message is a full list.
sync_AllFull(w) ==
  LET ps == Parts(w.res.ids)
  IN  send_msg([w EXCEPT !.fin.told = w.res.ids], [k \in DOMAIN ps |-> Sync("full", ps[k])])
\* The first part replaces what the tracker knows, the others add to it.
sync(w) ==
  LET ps == Parts(w.res.ids)
  IN  send_msg([w EXCEPT !.fin.told = w.res.ids],
               [k \in DOMAIN ps |-> Sync(IF k = 1 THEN "full" ELSE "more", ps[k])])

\* Mutant of get_sources: those that are made here, only.
get_sources_New(w, r, list) ==
  SetToSeq({Source("p2p", r, p) : p \in list \ {Self}} \ w.known)
\* P2pManager::get_sources: the sources of the hosts, those that are made here
\* included, but for this host and for those that have a downloader.
get_sources(w, r, list) ==
  SetToSeq({Source("p2p", r, p) : p \in list \ {Self}} \ Attached(w))

\* P2pFinder::handle_find: an empty list is no answer.
handle_found(w, r, list) ==
  IF list = {} \/ r \notin w.res.ids THEN w
  ELSE found([w EXCEPT !.known = @ \union {Source("p2p", r, p) : p \in list \ {Self}}],
             "p2p", r, get_sources(w, r, list))

-----------------------------------------------------------------------------
(* DownloadManager: the questions.                                           *)

\* Finder::find: the new request takes the place of one that waits.
find(w, proto, r) ==
  LET v == [w EXCEPT !.req[proto] = @ \union {r}]
  IN  IF proto = "http" THEN CdnFinder_find(v, r) ELSE send_find(v, r)

P2ps(w, r) == {s \in w.dl[r].sources : s.proto = "p2p"}
\* CdnDownloader::prepare_taskwindow.
prepare_taskwindow(w, r) == IF Cardinality(P2ps(w, r)) < P2pMax THEN find(w, "p2p", r) ELSE w

\* DownloadManager::get: the downloader asks for sources while it is being made, and
\* can be found afterwards.
DownloadManager_get(w, r) ==
  IF w.dl[r].on THEN w ELSE [find(w, "http", r) EXCEPT !.dl[r].on = TRUE]

\* ResourceManager::get: a new resource.
ResourceManager_get(w, r) == [w EXCEPT !.res.ids = @ \union {r}]

-----------------------------------------------------------------------------
Init ==
  /\ boot = "asked" /\ posted = <<>> /\ known = {} /\ net = {}
  /\ res \in [ids : SUBSET Rids, urls : {[r \in Rids |-> <<>>]}]
  /\ dl = [r \in Rids |-> NoDownloader]
  /\ req = [p \in {"http", "p2p"} |-> {}]
  /\ fin = NoFinder /\ trk = [t \in Tracks |-> Tracker]
  /\ left = MaxTrouble /\ before = {}

Free    == UNCHANGED left
Trouble == left > 0 /\ left' = left - 1
\* Nothing is under way.
Quiet   == net = {} /\ posted = <<>> /\ boot # "asked"

\* P2pUdpFinder::init: it begins with any of the trackers.
init(w, n, t) == [w EXCEPT !.fin.n = n, !.fin.start = t, !.fin.index = t, !.fin.tried = {t}]

\* P2pFinder::on_event, when the bootstrap file has come.  Of resources that are added
\* later it tells nobody, as opened_ is never set.
on_event(w, n, t) == init([w EXCEPT !.boot = "ready"], n, t)

\* Bootstrap::handle_fetch.
Bootstrapped ==
  /\ boot = "asked" /\ Free
  /\ \E n \in Tracks : \E t \in 1 .. n : Become(on_event(World, n, t))
NotBootstrapped ==
  /\ boot = "asked" /\ Trouble
  /\ Become([World EXCEPT !.boot = "failed"])

\* A sink has got its resource: ResourceManager::async_get or handle_fetch, then
\* SinkManager::on_event.  Urls that come with it are added, and taken by a
\* downloader that is new.  (bound: one sink, of which the later ones differ by urls
\* that nobody takes.)
Played(r) ==
  /\ ~dl[r].on /\ Free
  /\ \E us \in Lists :
       LET w == [ResourceManager_get(World, r) EXCEPT !.res.urls[r] = us]
       IN  Become(prepare_taskwindow(DownloadManager_get(w, r), r))

\* The posted answer of CdnFinder::find.
Posted ==
  /\ posted # <<>> /\ Free
  /\ Become(found([World EXCEPT !.posted = Tail(@)], "http", Head(posted).rid, Head(posted).sources))

\* The player goes on to the next segment: Downloader::on_timer.
Window(r) ==
  /\ dl[r].on /\ Cardinality(P2ps(World, r)) < P2pMax
  /\ (Quiet /\ Free) \/ (~Quiet /\ Trouble)
  /\ Become(prepare_taskwindow(World, r))

\* Mutant of rotate: the last one is the end.
rotate_Last(w) ==
  IF w.fin.index = w.fin.n THEN [w EXCEPT !.fin.index = None, !.fin.open = FALSE]
  ELSE [w EXCEPT !.fin.index = @ + 1, !.fin.open = FALSE, !.fin.tried = @ \union {w.fin.index + 1}]
\* P2pUdpFinder::on_tunnel_connecting, when nothing has come for ten seconds: it
\* leaves the tracker for the next one, or for none when that is the one it began with.
rotate(w) ==
  LET i == IF w.fin.index = w.fin.n THEN 1 ELSE w.fin.index + 1
  IN  IF i = w.fin.start THEN [w EXCEPT !.fin.index = None, !.fin.open = FALSE]
      ELSE [w EXCEPT !.fin.index = i, !.fin.open = FALSE, !.fin.tried = @ \union {i}]

\* on_tunnel_connecting, otherwise: Login, and what has waited for the tunnel.
connecting(w) ==
  Send([w EXCEPT !.fin.pending = <<>>],
       {Login(w.fin.index)} \union {[m EXCEPT !.t = w.fin.index] : m \in Range(w.fin.pending)})

\* P2pUdpFinder::on_tunnel_disconnect: what waits is freed, the Logout with it.
on_disconnect(w) == [w EXCEPT !.fin.open = FALSE, !.fin.pending = <<>>, !.fin.logged = FALSE, !.fin.tried = {w.fin.index}]

\* UdpSessionListener::on_timer: every half second while there is no connection.
Connecting ==
  /\ fin.index # None /\ ~fin.open
  /\ IF trk[fin.index].up \/ fin.n = 1
     THEN /\ (Quiet /\ Free) \/ (~Quiet /\ Trouble)
          /\ Become(connecting(World))
     ELSE Free /\ Become(rotate(World))

\* UdpSessionListener::on_timer: nothing has come from the tracker for thirty seconds.
Silence ==
  /\ fin.open /\ (~trk[fin.index].up \/ ~trk[fin.index].tunnel) /\ Quiet /\ Free
  /\ LET w == on_disconnect(World)
     IN  Become(IF fin.n > 1 THEN rotate(w) ELSE connecting(w))

\* set_remote: the tunnel to the tracker is open.
connected(w, t) ==
  LET v == IF t = w.fin.start THEN w ELSE Note(w, "moved")
  IN  IF t = w.fin.index THEN [v EXCEPT !.fin.open = TRUE, !.fin.tried = {t}] ELSE w

\* RSP_Login: with its id the host sends the list of its resources.
logged(w, t) ==
  LET v == IF w.fin.open THEN w ELSE Note(w, "overtaken")
  IN  IF t = w.fin.index THEN sync([v EXCEPT !.fin.logged = TRUE]) ELSE w

\* P2pFinder::handle_msg and the listener of the tunnel.
handle_msg(w, m) ==
  CASE m.type = "connected" -> connected(w, m.t)
    [] m.type = "logged"    -> logged(w, m.t)
    [] m.type = "found"     -> handle_found(w, m.rid, m.list)

\* (external) What a tracker does with a list of resources.
Tracked(w, m) ==
  IF ~w.trk[m.t].up THEN w
  ELSE IF m.type = "full" THEN [w EXCEPT !.trk[m.t].rids = m.list]
  ELSE [(IF \E f \in w.net : f.t = m.t /\ f.type = "full" THEN Note(w, "shuffled") ELSE w)
        EXCEPT !.trk[m.t].rids = @ \union m.list]

Receive(m) ==
  LET w == [World EXCEPT !.net = @ \ {m}]
  IN  Free /\ Become(IF m.type \in {"full", "more"} THEN Tracked(w, m) ELSE handle_msg(w, m))

\* (external) UDP loses a packet.
Lose(m) == Trouble /\ Become(Note([World EXCEPT !.net = @ \ {m}], "lost"))

\* (external) A tracker stops, and is started again with empty hands.
Down(t) == trk[t].up /\ Trouble /\ Become([World EXCEPT !.trk[t].up = FALSE])
Up(t)   == ~trk[t].up /\ Free /\ Become([World EXCEPT !.trk[t] = Tracker])

Next ==
  \/ Bootstrapped \/ NotBootstrapped \/ Posted \/ Connecting \/ Silence
  \/ \E r \in Wanted : Played(r) \/ Window(r)
  \/ \E m \in net : Receive(m) \/ Lose(m)
  \/ \E t \in Tracks : Down(t) \/ Up(t)

-----------------------------------------------------------------------------
(* Fairness: what is under way arrives, and the timers of the tunnel run    *)
(* on: again and again there is a moment with nothing under way at which     *)
(* each of them runs.                                                        *)

CanDeliver == ~Quiet
Delivered  == boot' # boot \/ Len(posted') < Len(posted) \/ ~(net \subseteq net')
CanConnect == /\ fin.index # None /\ ~fin.open
              /\ IF trk[fin.index].up THEN Quiet ELSE fin.n > 1
HasConnected == fin'.index # fin.index \/ \E m \in net' \ net : m.type = "logged"
CanSilence == Quiet /\ fin.open /\ (~trk[fin.index].up \/ ~trk[fin.index].tunnel)
HasSilence == fin.open /\ ~fin'.open

Fairness ==
  /\ []<>~CanDeliver \/ []<><<Delivered>>_vars
  /\ <>[]~CanConnect \/ []<><<HasConnected>>_vars
  /\ <>[]~CanSilence \/ []<><<HasSilence>>_vars

Spec == Init /\ [][Next]_vars /\ Fairness

-----------------------------------------------------------------------------
Sources == [proto : {"http", "p2p"}, rid : Rids, at : STRING]

\* The types of the variables.  The jump server is never asked (CdnFinder.cpp:60): the
\* urls of a sink begin with one that names its session, so that none come without.
TypeOK ==
  /\ boot \in {"asked", "ready", "failed"} /\ res.ids \subseteq Rids
  /\ \A r \in Rids : dl[r].on \in BOOLEAN /\ dl[r].sources \subseteq known
  /\ known \subseteq Sources /\ \A r \in Rids : dl[r].on => r \in res.ids
  /\ fin.index \in Tracks \union {None} /\ fin.open => fin.index # None
  /\ fin.n \in 0 .. Trackers /\ (fin.n = 0 <=> boot # "ready")
  /\ \A p \in DOMAIN req : \A r \in req[p] : dl[r].on
  /\ before \subseteq {"late", "same url", "lost", "moved", "overtaken", "shuffled"}

\* A downloader gets each of its sources once, or it would be opened and asked twice
\* over, but that CdnManager::get_source gives the same source for a url which both
\* the player and the index name (CdnFinder.cpp:68).
NoSourceTwice == \A r \in Rids : dl[r].again = {} \/ "same url" \in before

\* What CdnFinder::find makes reaches the downloader, though the answer is there before
\* the downloader is (CdnFinder.cpp:73, DownloadManager.cpp:71).
CdnSourcesAreUsed ==
  \A s \in known : s.proto = "http" =>
    s \in Attached(World) \/ \E i \in DOMAIN posted : s \in Range(posted[i].sources)

\* A source that was made for a host is one of the downloader's, unless the answer that
\* named the host found no request: the answer of the first tracker takes it away, and
\* the sources of the others wait for one that gets them again (Finder.cpp:43).
PeersAreUsed == \A s \in known : s.proto = "p2p" => s \in Attached(World) \/ "late" \in before

\* The sources as a whole: what was made is used, once.
SourcesInv == TypeOK /\ NoSourceTwice /\ CdnSourcesAreUsed /\ PeersAreUsed

\* The trackers from a to b, on a circle of n.
Circle(n, a, b) == IF a <= b THEN a .. b ELSE (a .. n) \union (1 .. b)

\* The finder leaves the trackers only when each of them has failed.  Once it has moved
\* to another than the first it leaves them without a new try of the first and of those
\* between that and the last that answered (P2pUdpFinder.cpp:121): it has tried the
\* others, one after the other.
GivesUpLast ==
  fin.n > 0 /\ fin.index = None =>
    \E t \in 1 .. fin.n :
      /\ t = fin.start \/ "moved" \in before
      /\ fin.tried = Circle(fin.n, t, IF fin.start = 1 THEN fin.n ELSE fin.start - 1)

\* The player of a resource goes on from segment to segment, at moments with nothing
\* under way.  Nothing makes it: Downloader::on_timer only asks when the sink has
\* reached another segment (Downloader.cpp:111), so one that pauses asks no more.
CanWindow(r) == /\ Quiet /\ dl[r].on /\ Cardinality(P2ps(World, r)) < P2pMax
                /\ \E t \in 1 .. fin.n : trk[t].up
HasWindow(r) == \E m \in net' \ net : m.type = "found" /\ m.rid = r
PlayerGoesOn(r) == <>[]~CanWindow(r) \/ []<><<HasWindow(r)>>_vars

\* As long as its player goes on, a downloader gets the hosts that every tracker in
\* service knows as sources, or has enough of them: lost messages, late answers and
\* answers without news are made up for by the next question (CdnDownloader.cpp:252).
PeersCome ==
  \A r \in Wanted :
    PlayerGoesOn(r) =>
      []<>(LET ups == {t \in 1 .. fin.n : trk[t].up}
           IN  dl[r].on /\ ups # {} /\ Cardinality(P2ps(World, r)) < P2pMax =>
                 \A p \in UNION {PeersOf[t] : t \in ups} :
                   (\A t \in ups : p \in PeersOf[t]) => Source("p2p", r, p) \in Attached(World))

\* While it has a tracker that runs, the finder is logged in and the tracker knows the
\* resources there were at the login, whatever was restarted in between; messages that
\* are lost or reordered spoil it, and nothing sends them again (P2pFinder.cpp:137).
Announced ==
  []<>(\/ fin.index = None \/ \A t \in 1 .. fin.n : ~trk[t].up
       \/ fin.n = 1 /\ ~trk[1].up
       \/ fin.open /\ fin.logged /\ fin.told \subseteq trk[fin.index].rids
       \/ before \intersect {"lost", "overtaken", "shuffled"} # {})

=============================================================================
