------------------------------- MODULE Tunnel -------------------------------
(***************************************************************************)
(* Tunnels between two hosts and the sessions in them (udp/, p2p/): the    *)
(* listener of a tunnel connects, answers and notices silence; a P2pSource *)
(* of one host binds a P2pSink of the other, asks for its map and for      *)
(* data.  The hosts are joined by UDP: packets are lost, repeated,         *)
(* reordered and delayed, and a host may be started again.                 *)
(*                                                                         *)
(* An action is one handler of the socket (handle_recv or handle_timer)    *)
(* with everything it calls, the sending of what it has queued included:   *)
(* UdpSocket::send empties the queues before the handler returns, so the   *)
(* messages of a handler leave in one packet, under the tunnel id that is  *)
(* known when it ends.  The calls pass a record w.                         *)
(*                                                                         *)
(* Ids of tunnels and sessions are not used again (Bus keeps a freed slot  *)
(* for ten minutes: see Bus), but those of a new tunnel start from its     *)
(* first slot, and a host that is started again starts from its first      *)
(* tunnel.  A resource is one piece.  Pings have no part: they only tell   *)
(* the peer that it is heard, which Hears says of the peer's state.        *)
(***************************************************************************)
EXTENDS Integers, FiniteSets, SequencesExt

CONSTANTS
  Hosts,      \* the two hosts
  Rids,       \* the resources
  Wants,      \* those a host downloads from the other
  Knows,      \* those a host has, and can be bound to
  QueueLimit, \* the limit of the Fifo of a tunnel: 16
  Troubles,   \* what may go wrong: "lost", "repeated", "silence": a host hears
              \* nothing for 30 s though it is spoken to, "haste": a timer runs before
              \* what is under way has arrived
  Restarting, \* the hosts that may be started again
  MaxTrouble  \* bound: how many things go wrong in a behaviour

VARIABLES
  tun,        \* the tunnel of a host to the other: UdpTunnel and its sessions
  next,       \* the slot that the socket's Bus gives the next tunnel
  net,        \* the packets under way
  have,       \* the resources a host has got from the other
  left,       \* how many things may still go wrong
  bad         \* fault: an assertion failed, the program ends; wrong: data was taken for
              \* the data of another resource; before: what happened on the way

vars == <<tun, next, net, have, left, bad>>

Other(h) == CHOOSE o \in Hosts : o # h

ASSUME TunnelAssumption ==
  /\ IsFiniteSet(Hosts) /\ Cardinality(Hosts) = 2 /\ QueueLimit \in Nat \ {0}
  /\ Wants \in [Hosts -> SUBSET Rids] /\ Knows \in [Hosts -> SUBSET Rids]
  /\ MaxTrouble \in Nat /\ Restarting \subseteq Hosts

(* A session, in slot i of cells; slot 0 is the listener.  pid is the slot   *)
(* of the session of the peer, 0 its listener.                               *)
Cell(kind, r) == [kind |-> kind, rid |-> r, pid |-> 0, req |-> FALSE, map |-> FALSE]
Gone == Cell("gone", 0)

\* was is kept for the notes only: the tunnel of the peer that this one was opened to last.
NoTunnel == [on |-> FALSE, tid |-> 0, pid |-> 0, was |-> 0, open |-> FALSE, cells |-> <<>>]

World(h) == [t |-> tun[h], next |-> next[h], have |-> have[h], bad |-> bad, out |-> <<>>,
             from |-> 0, recent1 |-> FALSE, recent2 |-> 0, binds |-> {}]
Note(w, n) == [w EXCEPT !.bad.before = @ \union {n}]

\* The packet that carries what the handler has queued.  from, the tunnel that sends
\* it, is not in the datagram: it is kept for the notes only.
on_send(h, w) ==
  IF w.out = <<>> \/ ~w.t.on THEN {}
  ELSE {[to |-> Other(h), tid |-> w.t.pid, from |-> w.t.tid, msgs |-> w.out]}

Become(h, w, n) ==
  /\ tun' = [tun EXCEPT ![h] = w.t] /\ next' = [next EXCEPT ![h] = w.next]
  /\ have' = [have EXCEPT ![h] = w.have] /\ bad' = w.bad
  /\ net' = n \union on_send(h, w)

-----------------------------------------------------------------------------
(* UdpSession and its queue.                                                 *)

\* The messages: arg is the id of the tunnel or the slot of the one that binds.  A
\* source that has lost its peer sends to the listener.
ConnectMessage == [sid : {0}, type : {"Connect", "ConnectOk"}, arg : Nat \ {0}, rid : {0}]
BindMessage    == [sid : Nat, type : {"Bind", "BindOk"}, arg : Nat \ {0}, rid : Rids]
MapMessage     == [sid : Nat, type : {"Map", "MapOk"}, arg : {0}, rid : Rids]
DataMessage    == [sid : Nat, type : {"Data", "DataOk"}, arg : {0}, rid : Rids]
Message        == ConnectMessage \union BindMessage \union MapMessage \union DataMessage

\* A message for slot sid of the peer; the Fifo of the tunnel drops it when full.
Push(w, sid, type, arg, rid) ==
  IF Len(w.out) >= QueueLimit THEN w
  ELSE [w EXCEPT !.out = Append(@, [sid |-> sid, type |-> type, arg |-> arg, rid |-> rid])]

send_msg(w, i, type, arg) == Push(w, w.t.cells[i].pid, type, arg, w.t.cells[i].rid)

Live(t) == {i \in DOMAIN t.cells : t.cells[i].kind # "gone"}
Sources(t) == {i \in DOMAIN t.cells : t.cells[i].kind = "source"}

\* For each of the slots, in their order.
Each(w, slots, Op(_, _)) ==
  FoldLeftDomain(LAMBDA v, i : IF i \in slots THEN Op(v, i) ELSE v, w, w.t.cells)

-----------------------------------------------------------------------------
(* P2pSource.                                                                *)

P2pSource_open(w, i) == send_msg(w, i, "Bind", i)

\* Source::on_ready: the scheduler asks for what is still missing.
on_ready(w, i) ==
  LET c == w.t.cells[i]
  IN  IF c.map /\ ~c.req /\ c.rid \notin w.have
      THEN send_msg([w EXCEPT !.t.cells[i].req = TRUE], i, "Data", 0) ELSE w

\* A map that is there is good for as long as there is one piece only.
req_map(w, i) ==
  IF w.t.cells[i].map \/ w.t.cells[i].rid \in w.have THEN w ELSE send_msg(w, i, "Map", 0)

on_data(w, i, of) ==
  LET c == w.t.cells[i]
  IN  IF ~c.req THEN w
      ELSE on_ready([w EXCEPT !.t.cells[i].req = FALSE, !.have = @ \union {c.rid},
                              !.bad.wrong = @ \/ of # c.rid], i)

on_map(w, i) == on_ready([w EXCEPT !.t.cells[i].map = TRUE], i)

\* An answer that an earlier tunnel of the peer has sent is taken like any other.
P2pSource_on_msg(w, i, m) ==
  CASE m.type = "BindOk" ->
         req_map([(IF w.from # w.t.was THEN Note(w, "late") ELSE w) EXCEPT !.t.cells[i].pid = m.arg], i)
    [] m.type = "MapOk"  -> on_map(w, i)
    [] m.type = "DataOk" -> on_data(w, i, m.rid)
    [] OTHER -> [w EXCEPT !.bad.fault = TRUE]         \* assert(false)

\* on_timer of the source: the bind or the map is asked for again, then what
\* has not been answered times out and is asked for again.
\* Mutant of P2pSource_on_timer: a bind is not asked for again.
P2pSource_on_timer_NoRetry(w, i) ==
  LET c == w.t.cells[i]
      v == req_map(w, i)
  IN  IF c.pid = 0 THEN w
      ELSE IF c.req THEN on_ready([v EXCEPT !.t.cells[i].req = FALSE], i) ELSE v
P2pSource_on_timer(w, i) ==
  LET c == w.t.cells[i]
      v == req_map(w, i)
  IN  IF c.pid = 0 THEN IF w.t.open THEN P2pSource_open(w, i) ELSE w
      ELSE IF c.req THEN on_ready([v EXCEPT !.t.cells[i].req = FALSE], i) ELSE v

-----------------------------------------------------------------------------
(* P2pSink.                                                                  *)

\* Mutant of P2pSink_on_msg: the answer names the slot of the source.
P2pSink_on_msg_Echo(w, i, m) ==
  CASE m.type = "Bind" -> send_msg([w EXCEPT !.t.cells[i].pid = m.arg], i, "BindOk", m.arg)
    [] m.type = "Map"  -> send_msg(w, i, "MapOk", 0)
    [] m.type = "Data" -> send_msg(w, i, "DataOk", 0)
    [] OTHER -> w
P2pSink_on_msg(w, i, m) ==
  CASE m.type = "Bind" -> send_msg([w EXCEPT !.t.cells[i].pid = m.arg], i, "BindOk", i)
    [] m.type = "Map"  -> send_msg(w, i, "MapOk", 0)
    [] m.type = "Data" -> send_msg(w, i, "DataOk", 0)
    [] OTHER -> w

\* P2pManager::get_sink: the slot of the sink of a resource, 0 when it is not known.
\* Mutant of get_sink: one sink for a tunnel.
get_sink_Any(h, w, r) ==
  LET mine == {i \in DOMAIN w.t.cells : w.t.cells[i].kind = "sink"}
  IN  IF r \notin Knows[h] THEN [w |-> w, slot |-> 0]
      ELSE IF mine # {} THEN [w |-> w, slot |-> CHOOSE i \in mine : TRUE]
      ELSE [w |-> [w EXCEPT !.t.cells = Append(@, Cell("sink", r))], slot |-> Len(w.t.cells) + 1]
get_sink(h, w, r) ==
  LET mine == {i \in DOMAIN w.t.cells : w.t.cells[i].kind = "sink" /\ w.t.cells[i].rid = r}
  IN  IF r \notin Knows[h] THEN [w |-> w, slot |-> 0]
      ELSE IF mine # {} THEN [w |-> w, slot |-> CHOOSE i \in mine : TRUE]
      ELSE [w |-> [w EXCEPT !.t.cells = Append(@, Cell("sink", r))], slot |-> Len(w.t.cells) + 1]

\* A message for a session; a slot that is free takes none.
Session_on_msg(w, i, m) ==
  IF i \notin DOMAIN w.t.cells THEN w
  ELSE CASE w.t.cells[i].kind = "source" -> P2pSource_on_msg(w, i, m)
         [] w.t.cells[i].kind = "sink"   -> P2pSink_on_msg(w, i, m)
         [] OTHER -> w

-----------------------------------------------------------------------------
(* UdpManager and UdpSessionListener.                                        *)

\* get_tunnel: the tunnel to the peer, a new one when there is none.
get_tunnel(w) ==
  IF w.t.on THEN w
  ELSE [w EXCEPT !.t = [NoTunnel EXCEPT !.on = TRUE, !.tid = w.next], !.next = @ + 1]

\* connect: the request, and the binds of the sources, UdpTunnel::on_connecting.
connect(w) == Each(Push(w, 0, "Connect", w.t.tid, 0), Sources(w.t), P2pSource_open)

\* set_remote.  The peer has another tunnel, and this side was open, or bound by a
\* late answer: its sources keep the slots of the old one.
set_remote(w, id) ==
  LET bound    == w.t.open \/ \E i \in Sources(w.t) : w.t.cells[i].pid # 0
      replaced == bound /\ w.t.was \notin {0, id}
  IN  [(IF replaced THEN Note(w, "replaced") ELSE w) EXCEPT !.t.open = TRUE, !.t.pid = id, !.t.was = id]

\* on_msg.  The session that a bind has been given to is recent2, and takes the
\* other messages of the packet.
Listener_on_msg(h, w, m) ==
  LET found == IF w.recent2 = 0 /\ m.type = "Bind" THEN get_sink(h, w, m.rid) ELSE [w |-> w, slot |-> w.recent2]
      given == [found.w EXCEPT !.recent2 = found.slot, !.binds = IF m.type = "Bind" THEN @ \union {m.rid} ELSE @]
      told  == IF Cardinality(given.binds) > 1 THEN Note(given, "shared") ELSE given
  IN  CASE m.type = "Connect"   -> Push(set_remote(w, m.arg), 0, "ConnectOk", w.t.tid, 0)
        [] m.type = "ConnectOk" -> set_remote(w, m.arg)
        [] OTHER -> IF found.slot = 0 THEN given ELSE Session_on_msg(told, found.slot, m)

\* The sessions that a tunnel loses: sinks are deleted, sources forget their peer
\* and what they have asked for.
Disconnected(c) == IF c.kind = "source" THEN [c EXCEPT !.pid = 0, !.req = FALSE] ELSE Gone
\* Mutant of on_disconnect: the id of the peer's tunnel is kept.
on_disconnect_Keep(w) == [w EXCEPT !.t.cells = [i \in DOMAIN @ |-> Disconnected(@[i])]]
on_disconnect(w) ==
  [w EXCEPT !.t.pid = 0, !.t.cells = [i \in DOMAIN @ |-> Disconnected(@[i])]]

\* The listener deletes itself, and the tunnel with it, when it is alone.
Listener_retry(w) == IF Live(w.t) = {} THEN [w EXCEPT !.t = NoTunnel] ELSE connect(w)
Listener_silence(w) == connect([on_disconnect(w) EXCEPT !.t.open = FALSE])

-----------------------------------------------------------------------------
Init ==
  /\ tun = [h \in Hosts |-> NoTunnel] /\ next = [h \in Hosts |-> 1] /\ net = {}
  /\ have = [h \in Hosts |-> {}]
  /\ left = MaxTrouble
  /\ bad = [fault |-> FALSE, wrong |-> FALSE, before |-> {}]

Spend == left > 0 /\ left' = left - 1
Trouble(what) == what \in Troubles /\ Spend
Free  == UNCHANGED left

\* P2pManager::get_sources and Downloader::on_sources: the peer is found to have a
\* resource, and its source is attached.
Found(h, r) ==
  LET w == get_tunnel(World(h))
      v == [w EXCEPT !.t.cells = Append(@, Cell("source", r))]
      i == Len(v.t.cells)
  IN  /\ \A s \in Sources(w.t) : w.t.cells[s].rid # r
      /\ Become(h, IF v.t.open THEN P2pSource_open(v, i) ELSE v, net) /\ Free

\* CdnDownloader::prepare_taskwindow: the window moves, sources without work are asked.
Asked(h, i) ==
  /\ i \in Sources(tun[h]) /\ on_ready(World(h), i) # World(h)
  /\ Become(h, on_ready(World(h), i), net) /\ Free

\* UdpTunnelListener: a packet for tunnel 0 is for the tunnel of the host whose
\* request to connect it begins with.
Unconnected(h, w, m) ==
  LET v == IF m.type = "Connect" /\ m.sid = 0 THEN [get_tunnel(w) EXCEPT !.recent1 = TRUE] ELSE w
  IN  IF m.sid = 0 /\ v.recent1 THEN Listener_on_msg(h, v, m) ELSE v

\* UdpTunnel::on_recv: each message is given to its session.
Connected(h, w, m) == IF m.sid = 0 THEN Listener_on_msg(h, w, m) ELSE Session_on_msg(w, m.sid, m)

on_recv(h, p) ==
  LET w == [World(h) EXCEPT !.from = p.from]
      ForTunnel0(v, m) == Unconnected(h, v, m)
      ForTunnel(v, m)  == Connected(h, v, m)
  IN  CASE p.tid = 0 -> FoldLeft(ForTunnel0, w, p.msgs)
        [] w.t.on /\ p.tid = w.t.tid -> FoldLeft(ForTunnel, w, p.msgs)
        [] OTHER -> w

Receive(p) == Become(p.to, on_recv(p.to, p), net \ {p}) /\ Free
ReceiveAgain(p) == Become(p.to, on_recv(p.to, p), net) /\ Trouble("repeated")
Lose(p) == net' = net \ {p} /\ UNCHANGED <<tun, next, have, bad>> /\ Trouble("lost")

\* Whether the packets of the peer reach the tunnel of h: its pings do.
Hears(h) == LET o == tun[Other(h)] IN o.on /\ o.open /\ o.pid = tun[h].tid

\* The timer of the socket, when everything that may be due is: the listener
\* before the sessions.  A bind that has just been sent is not due again.
handle_timer(h) ==
  LET w == World(h)
      v == IF ~w.t.open THEN Listener_retry(w) ELSE IF ~Hears(h) THEN Listener_silence(w) ELSE w
  IN  IF v.out # <<>> \/ ~v.t.on THEN v ELSE Each(v, Sources(v.t), P2pSource_on_timer)

Timer(h) == tun[h].on /\ net = {} /\ Become(h, handle_timer(h), net) /\ Free

\* The timer of one session runs while packets are on their way.
Hasty(h, i) ==
  /\ tun[h].on /\ net # {} /\ Trouble("haste")
  /\ \/ i = 0 /\ ~tun[h].open /\ Become(h, Listener_retry(World(h)), net)
     \/ i \in Sources(tun[h]) /\ Become(h, P2pSource_on_timer(World(h), i), net)

\* Thirty seconds without a packet, though the peer has sent some.
Silence(h) == tun[h].on /\ tun[h].open /\ Become(h, Listener_silence(World(h)), net) /\ Trouble("silence")

\* The program ends and is started again: what it keeps is lost, its uid is not.  The
\* sources of one that downloads get slots that others had before ("reborn").
Restart(h) ==
  /\ tun' = [tun EXCEPT ![h] = NoTunnel] /\ next' = [next EXCEPT ![h] = 1]
  /\ bad' = [bad EXCEPT !.before = @ \union {IF Wants[h] = {} THEN "restart" ELSE "reborn"}]
  /\ have' = [have EXCEPT ![h] = {}] /\ UNCHANGED net /\ Spend

Next ==
  /\ ~bad.fault
  /\ \/ \E h \in Hosts : \E r \in Wants[h] : Found(h, r)
     \/ \E p \in net : Receive(p) \/ ReceiveAgain(p) \/ Lose(p)
     \/ \E h \in Hosts : Timer(h) \/ Silence(h) 
     \/ \E h \in Restarting : Restart(h)
     \/ \E h \in Hosts : \E i \in 0 .. Len(tun[h].cells) : Hasty(h, i) \/ Asked(h, i)

-----------------------------------------------------------------------------
\* Packets arrive, timers run and the peer is found; nothing has to go wrong.
CanReceive  == ~bad.fault /\ net # {}
CanFind     == ~bad.fault /\ \E h \in Hosts : \E r \in Wants[h] : \A i \in Sources(tun[h]) : tun[h].cells[i].rid # r
CanTimer(h) == ~bad.fault /\ net = {} /\ tun[h].on /\ handle_timer(h) # World(h)
Fairness ==
  /\ []<>~CanReceive \/ []<><<\E p \in net : Receive(p)>>_vars
  /\ []<>~CanFind \/ []<><<\E h \in Hosts : \E r \in Wants[h] : Found(h, r)>>_vars
  /\ \A h \in Hosts : []<>~CanTimer(h) \/ []<><<Timer(h)>>_vars

Spec == Init /\ [][Next]_vars /\ Fairness

\* Types; a tunnel has an id while it is there, and the peer's while it is open.
TypeOK ==
  /\ \A h \in Hosts :
       LET t == tun[h]
       IN  /\ t.tid < next[h] /\ t.on = (t.tid # 0) /\ t.open = (t.pid # 0)
           /\ \A i \in DOMAIN t.cells : t.cells[i].kind \in {"source", "sink", "gone"}
           /\ have[h] \subseteq Wants[h]
  /\ \A p \in net : p.msgs \in Seq(Message)
  /\ left \in 0 .. MaxTrouble

\* Data is taken for another resource's only after two binds have come in one packet
\* (the second is given to the sink of the first, UdpSessionListener.cpp:129), or after
\* the host that asked has started again.  A request reaches a source, which asserts,
\* only after the tunnel of the peer has been replaced while this side held it for open,
\* an answer of a tunnel that is replaced has come late, or a host has started again.
FaultsHaveCauses ==
  /\ bad.wrong => bad.before \intersect {"shared", "reborn"} # {}
  /\ bad.fault => bad.before \intersect {"replaced", "late", "restart", "reborn"} # {}

\* The peer of a source is the sink of its resource or a slot that is free, whatever
\* is lost, repeated or late, unless one of these things has happened.
BoundToItsSink ==
  \A h \in Hosts : \A i \in Sources(tun[h]) :
    LET c == tun[h].cells[i]  p == tun[Other(h)]
    IN  bad.before = {} /\ tun[h].pid = p.tid /\ c.pid \in DOMAIN p.cells =>
          \/ p.cells[c.pid].kind = "gone"
          \/ p.cells[c.pid].kind = "sink" /\ p.cells[c.pid].rid = c.rid

\* The sessions of both ends, with their types.
SessionsInv == TypeOK /\ BoundToItsSink

\* The sink of a source is gone, and the source does not know: only the peer has
\* heard nothing for thirty seconds.  Requests are heard, and never answered.
Orphan(h, r) ==
  \E i \in Sources(tun[h]) :
    LET c == tun[h].cells[i]  p == tun[Other(h)]
    IN  c.rid = r /\ c.pid # 0 /\ ~(c.pid \in DOMAIN p.cells /\ p.cells[c.pid].kind = "sink")
\* A source that had a map when it lost its peer is bound again, and asks for nothing
\* until the window moves: on_map is what makes it ready.
Idle(h, r) ==
  \E i \in Sources(tun[h]) : LET c == tun[h].cells[i] IN c.rid = r /\ c.pid # 0 /\ c.map /\ ~c.req

\* What is wanted and known is got in the end, or the source is orphaned or idle.
Fetched ==
  \A h \in Hosts : \A r \in Wants[h] \intersect Knows[Other(h)] :
    <>(r \in have[h] \/ bad.before # {} \/ Orphan(h, r) \/ Idle(h, r))

\* Both ends of the tunnel come to agree on its ids, again and again, whatever was
\* lost, replaced or started again.
Meet == []<>(\A h \in Hosts : Hears(h))
=============================================================================
