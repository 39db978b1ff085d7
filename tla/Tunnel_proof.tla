---------------------------- MODULE Tunnel_proof ----------------------------
(* Proofs about Tunnel, for all resources, limits and bounds: the sessions of both ends  *)
(* and the causes of what goes wrong, whatever is lost, repeated, late or started again. *)
EXTENDS Tunnel, WellFoundedInduction, FiniteSetTheorems, SequenceTheorems, TLAPS

-----------------------------------------------------------------------------
(* The inductive invariant *)

\* A tunnel and its sessions.
SomeCell == [kind : {"source", "sink", "gone"}, rid : Rids \union {0}, pid : Nat,
             req : BOOLEAN, map : BOOLEAN]
Tunnels == [on : BOOLEAN, tid : Nat, pid : Nat, was : Nat, open : BOOLEAN, cells : Seq(SomeCell)]
Notes == {"late", "replaced", "restart", "reborn", "shared"}
Bads == [fault : BOOLEAN, wrong : BOOLEAN, before : SUBSET Notes]

\* Whether nothing has happened that makes an end of a tunnel hold slots of an old one.
Steady(b) == b \intersect {"replaced", "late", "restart", "reborn"} = {}
Pure(b) == "reborn" \notin b

\* An assertion that fails and data that is taken for another's have their causes.
Excused(x) ==
  /\ x.fault => ~Steady(x.before)
  /\ x.wrong => x.before \intersect {"shared", "reborn"} # {}

\* A tunnel of host h, whose next one gets the id n.
TunnelOK(h, t, n) ==
  /\ t \in Tunnels /\ t.tid < n
  /\ t.on = (t.tid # 0) /\ t.open = (t.pid # 0) /\ t.pid \in {0, t.was}
  /\ ~t.on => t = NoTunnel
  /\ \A i \in DOMAIN t.cells :
       /\ t.cells[i].kind = "source" => t.cells[i].rid \in Wants[h]
       /\ t.cells[i].kind # "gone" => t.cells[i].rid \in Rids

\* Slot j of tunnel q is not that of a source, and if of a sink, of one of r.
Taken(q, j, r, b) ==
  /\ j \in DOMAIN q.cells /\ q.cells[j].kind # "source"
  /\ q.cells[j].kind = "sink" /\ "shared" \notin b => q.cells[j].rid = r
\* Slot i of tunnel q is that of a source of r.
Asks(q, i, r, b) == i \in Sources(q) /\ ("shared" \notin b => q.cells[i].rid = r)

\* The sinks of t know sources of q, and its sources sinks of q; but for the sink x, which
\* is about to be bound.
SinksKnow(t, q, b, x) ==
  Pure(b) => \A j \in DOMAIN t.cells :
    t.cells[j].kind = "sink" /\ j # x => Asks(q, t.cells[j].pid, t.cells[j].rid, b)
SourcesKnow(t, q, b) ==
  Steady(b) => \A i \in Sources(t) :
    t.cells[i].pid # 0 =>
      /\ t.was # 0
      /\ t.was = q.tid => Taken(q, t.cells[i].pid, t.cells[i].rid, b)

Answers == {"BindOk", "MapOk", "DataOk"}
Requests == {"Map", "Data"}
\* What a message says of the tunnel s that has sent it under the id from,
SaidBy(m, s, from, b) ==
  /\ m.type \in {"Connect", "ConnectOk"} => m.arg = from
  /\ m.type = "Bind" /\ Pure(b) => m.arg \in Sources(s) /\ s.cells[m.arg].rid = m.rid
  /\ m.type = "BindOk" /\ Steady(b) /\ from = s.tid => Taken(s, m.arg, m.rid, b)
\* and of the tunnel q, to which it is sent under the id tid.
NoSource(q, j) == j \in DOMAIN q.cells /\ q.cells[j].kind # "source"
SaidTo(m, q, tid, b) ==
  /\ m.type \in Answers /\ Pure(b) => Asks(q, m.sid, m.rid, b)
  /\ m.type = "Bind" /\ m.sid # 0 => tid = 0
  /\ m.type \in Requests /\ m.sid # 0 /\ tid # 0 /\ tid = q.tid /\ Steady(b) => NoSource(q, m.sid)

PacketOK(p, b) ==
  /\ p.to \in Hosts /\ p.tid \in Nat /\ p.from \in Nat \ {0} /\ p.msgs \in Seq(Message)
  /\ Steady(b) => p.tid < next[p.to] /\ p.from < next[Other(p.to)]
  /\ \A k \in DOMAIN p.msgs : /\ SaidBy(p.msgs[k], tun[Other(p.to)], p.from, b)
                              /\ SaidTo(p.msgs[k], tun[p.to], p.tid, b)

HostOK(h, b) ==
  /\ TunnelOK(h, tun[h], next[h]) /\ have[h] \subseteq Wants[h]
  /\ Steady(b) => tun[h].was < next[Other(h)]
  /\ SinksKnow(tun[h], tun[Other(h)], b, 0)
  /\ SourcesKnow(tun[h], tun[Other(h)], b)

IInv ==
  /\ DOMAIN tun = Hosts /\ next \in [Hosts -> Nat \ {0}] /\ DOMAIN have = Hosts
  /\ bad \in Bads /\ Excused(bad) /\ left \in 0 .. MaxTrouble
  /\ \A h \in Hosts : HostOK(h, bad.before)
  /\ \A p \in net : PacketOK(p, bad.before)

-----------------------------------------------------------------------------
(* The world of a handler *)

Worlds == [t : Tunnels, next : Nat \ {0}, have : SUBSET Rids, bad : Bads, out : Seq(Message),
           from : Nat, recent1 : BOOLEAN, recent2 : Nat, binds : SUBSET Rids]

\* What becomes of a tunnel t, n being the id of the next: sources stay; while it is the
\* same tunnel, its slots are not given again; a new one has a new id.
Grown(t, u, n) ==
  /\ \A i \in Sources(t) : i \in Sources(u) /\ u.cells[i].rid = t.cells[i].rid
  /\ u.tid = t.tid => \A j \in DOMAIN t.cells :
       /\ j \in DOMAIN u.cells
       /\ t.cells[j].kind # "source" => u.cells[j].kind # "source"
       /\ u.cells[j].kind = "sink" => t.cells[j].kind = "sink" /\ u.cells[j].rid = t.cells[j].rid
  /\ u.tid # t.tid => u.tid = 0 \/ u.tid >= n

\* A message that is queued in tunnel t for its peer q, whatever id the packet will have.
Outward(m, t, q, b) ==
  /\ m.type \in Answers /\ Pure(b) => Asks(q, m.sid, m.rid, b)
  /\ m.type = "Bind" /\ m.sid # 0 => ~t.open
  /\ m.type \in Requests /\ m.sid # 0 /\ Steady(b) =>
       /\ \E i \in Sources(t) : t.cells[i].pid # 0
       /\ t.was = q.tid => NoSource(q, m.sid)
Queued(out, t, q, b) ==
  /\ ~t.on => out = <<>>
  /\ \A k \in DOMAIN out : SaidBy(out[k], t, t.tid, b) /\ Outward(out[k], t, q, b)

\* The world w of a handler of host h, which is about to bind the sink x (0 for none).
Calls(h, w, x) ==
  /\ w \in Worlds
  /\ TunnelOK(h, w.t, w.next) /\ w.have \subseteq Wants[h] /\ Excused(w.bad)
  /\ Grown(tun[h], w.t, next[h]) /\ next[h] <= w.next /\ bad.before \subseteq w.bad.before
  /\ Steady(w.bad.before) => w.t.was < next[Other(h)]
  /\ SinksKnow(w.t, tun[Other(h)], w.bad.before, x)
  /\ SourcesKnow(w.t, tun[Other(h)], w.bad.before)
  /\ Queued(w.out, w.t, tun[Other(h)], w.bad.before)

-----------------------------------------------------------------------------
(* The two hosts, and what lasts when a tunnel grows *)

\* There are two hosts, each the other's other.
LEMMA OtherFacts ==
  ASSUME NEW h \in Hosts
  PROVE  Other(h) \in Hosts /\ Other(h) # h /\ Other(Other(h)) = h /\ Hosts = {h, Other(h)}
  <1>1. PICK o : Hosts \ {h} = {o}
    <2>1. IsFiniteSet(Hosts \ {h}) /\ Cardinality(Hosts \ {h}) = 1
      BY TunnelAssumption, FS_RemoveElement
    <2> QED
      BY <2>1, FS_Singleton
  <1>2. Hosts = {h, o} /\ o # h /\ o \in Hosts
    BY <1>1
  <1>3. Other(h) = o
    BY <1>2 DEF Other
  <1>4. Other(o) = h
    BY <1>2 DEF Other
  <1> QED
    BY <1>2, <1>3, <1>4

\* A tunnel grows into itself.
LEMMA GrownSelf ==
  ASSUME NEW t, NEW n
  PROVE  Grown(t, t, n)
  BY DEF Grown

\* What has grown out of what has grown, has grown.
LEMMA GrownTwice ==
  ASSUME NEW h, NEW t, NEW n \in Nat, TunnelOK(h, t, n), NEW u, NEW k \in Nat, n <= k, TunnelOK(h, u, k),
         NEW l \in Nat, NEW v, TunnelOK(h, v, l), Grown(t, u, n), Grown(u, v, k)
  PROVE  Grown(t, v, n)
  <1>0. t.tid \in Nat /\ u.tid \in Nat /\ v.tid \in Nat /\ t.tid < n
    BY DEF TunnelOK, Tunnels
  <1>1. \A i \in Sources(t) : i \in Sources(v) /\ v.cells[i].rid = t.cells[i].rid
    BY DEF Grown
  <1>2. v.tid # t.tid => v.tid = 0 \/ v.tid >= n
    BY <1>0 DEF Grown
  <1>3. ASSUME v.tid = t.tid, NEW j \in DOMAIN t.cells
        PROVE  /\ j \in DOMAIN v.cells
               /\ t.cells[j].kind # "source" => v.cells[j].kind # "source"
               /\ v.cells[j].kind = "sink" => t.cells[j].kind = "sink" /\ v.cells[j].rid = t.cells[j].rid
    <2>1. CASE u.tid = t.tid
      BY <1>3, <2>1 DEF Grown
    <2>2. CASE u.tid # t.tid
      <3>1. t.tid = 0
        BY <1>0, <1>3, <2>2 DEF Grown
      <3>2. t = NoTunnel
        BY <3>1 DEF TunnelOK
      <3> QED
        BY <1>3, <3>2 DEF NoTunnel
    <2> QED
      BY <2>1, <2>2
  <1> QED
    BY <1>1, <1>2, <1>3 DEF Grown

\* Slots that are not a source's stay so while the tunnel does.
LEMMA TakenStays ==
  ASSUME NEW t, NEW u, NEW n, Grown(t, u, n), u.tid = t.tid, NEW b, NEW c, b \subseteq c,
         NEW j, NEW r, Taken(t, j, r, b)
  PROVE  Taken(u, j, r, c)
  BY DEF Grown, Taken

\* Sources stay, with their resources.
LEMMA AsksStays ==
  ASSUME NEW t, NEW u, NEW n, Grown(t, u, n), NEW b, NEW c, b \subseteq c,
         NEW i, NEW r, Asks(t, i, r, b)
  PROVE  Asks(u, i, r, c)
  BY DEF Grown, Asks

\* Fewer things have happened than in the end.
LEMMA Earlier ==
  ASSUME NEW b, NEW c, b \subseteq c
  PROVE  (Steady(c) => Steady(b)) /\ (Pure(c) => Pure(b))
  BY DEF Steady, Pure

\* The sinks and the sources of q still know t when it has grown.
LEMMA KnowStays ==
  ASSUME NEW t, NEW u, NEW n \in Nat, Grown(t, u, n), NEW b, NEW c, b \subseteq c,
         NEW q, NEW x, q.was \in Nat, Steady(c) => q.was < n, u.tid \in Nat
  PROVE  /\ SinksKnow(q, t, b, x) => SinksKnow(q, u, c, x)
         /\ SourcesKnow(q, t, b) => SourcesKnow(q, u, c)
  <1>1. SinksKnow(q, t, b, x) => SinksKnow(q, u, c, x)
    BY AsksStays, Earlier DEF SinksKnow
  <1>2. ASSUME SourcesKnow(q, t, b) PROVE SourcesKnow(q, u, c)
    <2> SUFFICES ASSUME Steady(c), NEW i \in Sources(q), q.cells[i].pid # 0
                 PROVE  q.was # 0 /\ (q.was = u.tid => Taken(u, q.cells[i].pid, q.cells[i].rid, c))
      BY DEF SourcesKnow
    <2>1. Steady(b) /\ q.was < n
      BY Earlier
    <2>2. q.was # 0 /\ (q.was = t.tid => Taken(t, q.cells[i].pid, q.cells[i].rid, b))
      BY <1>2, <2>1 DEF SourcesKnow
    <2>3. ASSUME q.was = u.tid PROVE Taken(u, q.cells[i].pid, q.cells[i].rid, c)
      <3>1. u.tid = t.tid
        BY <2>1, <2>2, <2>3 DEF Grown
      <3> QED
        BY <2>2, <2>3, <3>1, TakenStays
    <2> QED
      BY <2>2, <2>3
  <1> QED
    BY <1>1, <1>2

\* Sooner is not later: the same for the notes only.
LEMMA KnowLater ==
  ASSUME NEW t, NEW q, NEW x, NEW b, NEW c, b \subseteq c
  PROVE  /\ SinksKnow(t, q, b, x) => SinksKnow(t, q, c, x)
         /\ SourcesKnow(t, q, b) => SourcesKnow(t, q, c)
  BY DEF SinksKnow, SourcesKnow, Asks, Taken, Steady, Pure

\* What a message says of the tunnel that sent it lasts, though it grows.
LEMMA SaidByStays ==
  ASSUME NEW t, NEW u, NEW n \in Nat, Grown(t, u, n), NEW b, NEW c, b \subseteq c,
         NEW m, NEW from \in Nat, from # 0, Steady(c) => from < n, u.tid \in Nat, SaidBy(m, t, from, b)
  PROVE  SaidBy(m, u, from, c)
  <1>1. m.type = "Bind" /\ Pure(c) => m.arg \in Sources(u) /\ u.cells[m.arg].rid = m.rid
    BY Earlier DEF SaidBy, Grown
  <1>2. ASSUME m.type = "BindOk", Steady(c), from = u.tid PROVE Taken(u, m.arg, m.rid, c)
    <2>1. u.tid = t.tid /\ Steady(b)
      BY <1>2, Earlier DEF Grown
    <2>2. Taken(t, m.arg, m.rid, b)
      BY <1>2, <2>1 DEF SaidBy
    <2> QED
      BY <2>1, <2>2, TakenStays
  <1> QED
    BY <1>1, <1>2 DEF SaidBy

\* And so does what it says of the tunnel that it is sent to.
LEMMA SaidToStays ==
  ASSUME NEW t, NEW u, NEW n \in Nat, Grown(t, u, n), NEW b, NEW c, b \subseteq c,
         NEW m, NEW tid \in Nat, Steady(c) => tid < n, u.tid \in Nat, SaidTo(m, t, tid, b)
  PROVE  SaidTo(m, u, tid, c)
  <1>1. m.type \in Answers /\ Pure(c) => Asks(u, m.sid, m.rid, c)
    BY AsksStays, Earlier DEF SaidTo
  <1>2. ASSUME m.type \in Requests, m.sid # 0, tid # 0, tid = u.tid, Steady(c) PROVE NoSource(u, m.sid)
    <2>1. u.tid = t.tid /\ Steady(b)
      BY <1>2, Earlier DEF Grown
    <2>2. NoSource(t, m.sid)
      BY <1>2, <2>1 DEF SaidTo
    <2> QED
      BY <2>1, <2>2 DEF NoSource, Grown
  <1> QED
    BY <1>1, <1>2 DEF SaidTo

-----------------------------------------------------------------------------
(* What a call may do to the world *)

NoBind(out) == \A k \in DOMAIN out : out[k].type # "Bind"
\* A source of the tunnel is bound.
IsBound(t) == \E i \in Sources(t) : t.cells[i].pid # 0

\* The queue is in order as long as the tunnel stays open or closed and, while one of its
\* sources is bound, opened to the same.
LEMMA QueueStays ==
  ASSUME NEW t, NEW u, NEW n \in Nat, Grown(t, u, n), u.tid = t.tid, u.on = t.on, t.tid \in Nat, t.tid < n,
         NEW b, NEW c, b \subseteq c, NEW q, NEW out \in Seq(Message), Queued(out, t, q, b),
         u.open => t.open \/ NoBind(out),
         Steady(c) /\ IsBound(t) => IsBound(u) /\ u.was = t.was
  PROVE  Queued(out, u, q, c)
  <1>1. ~u.on => out = <<>>
    BY DEF Queued
  <1> SUFFICES ASSUME NEW k \in DOMAIN out PROVE SaidBy(out[k], u, u.tid, c) /\ Outward(out[k], u, q, c)
    BY <1>1 DEF Queued
  <1>2. out[k] \in Message /\ SaidBy(out[k], t, t.tid, b) /\ Outward(out[k], t, q, b)
    BY DEF Queued
  <1>3. SaidBy(out[k], u, u.tid, c)
    <2>1. out[k].type = "Bind" /\ Pure(c) => out[k].arg \in Sources(u) /\ u.cells[out[k].arg].rid = out[k].rid
      BY <1>2, Earlier DEF SaidBy, Grown
    <2>2. out[k].type = "BindOk" /\ Steady(c) => Taken(u, out[k].arg, out[k].rid, c)
      BY <1>2, Earlier, TakenStays DEF SaidBy
    <2> QED
      BY <1>2, <2>1, <2>2 DEF SaidBy
  <1>4. out[k].type \in Answers /\ Pure(c) => Asks(q, out[k].sid, out[k].rid, c)
    BY <1>2, Earlier DEF Outward, Asks
  <1>5. out[k].type = "Bind" /\ out[k].sid # 0 => ~u.open
    BY <1>2 DEF Outward, NoBind
  <1>6. ASSUME out[k].type \in Requests, out[k].sid # 0, Steady(c)
        PROVE  IsBound(u) /\ (u.was = q.tid => NoSource(q, out[k].sid))
    <2>1. IsBound(t) /\ (t.was = q.tid => NoSource(q, out[k].sid))
      BY <1>2, <1>6, Earlier DEF Outward, IsBound
    <2> QED
      BY <1>6, <2>1
  <1> QED
    BY <1>3, <1>4, <1>5, <1>6 DEF Outward, IsBound

\* What is known of the host before the handler.
Ground(h) ==
  h \in Hosts /\ next[h] \in Nat \ {0} /\ TunnelOK(h, tun[h], next[h]) /\ next[Other(h)] \in Nat \ {0}

\* A call that queues nothing.
LEMMA Moves ==
  ASSUME NEW h, Ground(h), NEW w, NEW x, Calls(h, w, x),
         NEW v \in Worlds, NEW y, v.out = w.out,
         TunnelOK(h, v.t, v.next), v.have \subseteq Wants[h], Excused(v.bad),
         Grown(w.t, v.t, w.next), w.next <= v.next, w.bad.before \subseteq v.bad.before,
         v.t.tid = w.t.tid, v.t.on = w.t.on,
         Steady(v.bad.before) => v.t.was < next[Other(h)],
         SinksKnow(v.t, tun[Other(h)], v.bad.before, y),
         SourcesKnow(v.t, tun[Other(h)], v.bad.before),
         v.t.open => w.t.open \/ NoBind(w.out),
         Steady(v.bad.before) /\ IsBound(w.t) => IsBound(v.t) /\ v.t.was = w.t.was
  PROVE  Calls(h, v, y)
  <1>1. w.next \in Nat /\ v.next \in Nat /\ w.t.tid \in Nat /\ w.t.tid < w.next /\ w.out \in Seq(Message)
    BY DEF Calls, Worlds, TunnelOK, Tunnels
  <1>2. Grown(tun[h], v.t, next[h])
    BY <1>1, GrownTwice DEF Calls, Ground
  <1>3. Queued(v.out, v.t, tun[Other(h)], v.bad.before)
    BY <1>1, QueueStays DEF Calls
  <1>4. next[h] <= v.next /\ bad.before \subseteq v.bad.before
    BY <1>1 DEF Calls, Ground
  <1> QED
    BY <1>2, <1>3, <1>4 DEF Calls

\* A call that leaves the tunnel and the kinds of its sessions as they are.
Same(w, v) ==
  /\ v.recent1 = w.recent1 /\ v.recent2 = w.recent2 /\ v.binds = w.binds /\ v.from = w.from /\ v.next = w.next
  /\ v.t.on = w.t.on /\ v.t.tid = w.t.tid /\ v.t.open = w.t.open /\ v.t.was = w.t.was
  /\ DOMAIN v.t.cells = DOMAIN w.t.cells /\ w.bad.before \subseteq v.bad.before
  /\ \A j \in DOMAIN w.t.cells : v.t.cells[j].kind = w.t.cells[j].kind /\ v.t.cells[j].rid = w.t.cells[j].rid
\* One that asks no sink to be bound.
Quiet(w, v) == NoBind(w.out) => NoBind(v.out)

\* Two such calls are one.
LEMMA SameTwice ==
  ASSUME NEW w, NEW v, NEW u, Same(w, v), Same(v, u)
  PROVE  Same(w, u)
  BY DEF Same

\* The same tunnel has the same sources.
LEMMA SameSources ==
  ASSUME NEW w, NEW v, Same(w, v)
  PROVE  Sources(v.t) = Sources(w.t)
  BY DEF Same, Sources

\* The world v is w, but for the cell i, which is c.
CellPut(w, i, c, v) ==
  /\ v \in Worlds /\ v.t \in Tunnels /\ v.t.cells \in Seq(SomeCell)
  /\ DOMAIN v.t.cells = DOMAIN w.t.cells /\ v.t.cells[i] = c
  /\ \A j \in DOMAIN w.t.cells : j # i => v.t.cells[j] = w.t.cells[j]
  /\ v.t.on = w.t.on /\ v.t.tid = w.t.tid /\ v.t.pid = w.t.pid /\ v.t.was = w.t.was /\ v.t.open = w.t.open
  /\ v.next = w.next /\ v.have = w.have /\ v.bad = w.bad /\ v.out = w.out /\ v.from = w.from
  /\ v.recent1 = w.recent1 /\ v.recent2 = w.recent2 /\ v.binds = w.binds

\* A cell is written, and nothing else.
LEMMA CellFacts ==
  ASSUME NEW w \in Worlds, NEW i \in DOMAIN w.t.cells, NEW c \in SomeCell, NEW v, v = [w EXCEPT !.t.cells[i] = c]
  PROVE  CellPut(w, i, c, v)
  <1>1. w.t \in Tunnels /\ w.t.cells \in Seq(SomeCell)
    BY DEF Worlds, Tunnels
  <1>2. i \in 1 .. Len(w.t.cells) /\ DOMAIN w.t.cells = 1 .. Len(w.t.cells)
    BY <1>1
  <1> DEFINE s == [w.t.cells EXCEPT ![i] = c]
  <1>3. s \in Seq(SomeCell) /\ DOMAIN s = DOMAIN w.t.cells /\ s[i] = c /\ \A j \in DOMAIN w.t.cells : j # i => s[j] = w.t.cells[j]
    BY <1>1, <1>2, ExceptSeq
  <1>4. v.t.cells = s /\ v.t = [w.t EXCEPT !.cells = s] /\ v = [w EXCEPT !.t = [w.t EXCEPT !.cells = s]]
    BY <1>1 DEF Worlds, Tunnels
  <1> HIDE DEF s
  <1>5. v.t \in Tunnels
    BY <1>1, <1>3, <1>4 DEF Tunnels
  <1> QED
    BY <1>1, <1>3, <1>4, <1>5 DEF CellPut, Worlds, Tunnels

\* So may be what a session knows of its peer, if it is true.
LEMMA CellKeeps ==
  ASSUME NEW h, Ground(h), NEW w, NEW x, Calls(h, w, x),
         NEW i \in DOMAIN w.t.cells, NEW c, NEW v, CellPut(w, i, c, v),
         c.kind = w.t.cells[i].kind, c.rid = w.t.cells[i].rid,
         NEW y, y = x \/ (y = 0 /\ x = i),
         c.kind = "sink" /\ i # y /\ Pure(w.bad.before) => Asks(tun[Other(h)], c.pid, c.rid, w.bad.before),
         c.kind = "source" /\ c.pid # 0 /\ Steady(w.bad.before) =>
           w.t.was # 0 /\ (w.t.was = tun[Other(h)].tid => Taken(tun[Other(h)], c.pid, c.rid, w.bad.before)),
         w.t.cells[i].pid # 0 => c.pid # 0
  PROVE  Calls(h, v, y) /\ Same(w, v)
  <1>0. w \in Worlds /\ w.t \in Tunnels /\ w.next \in Nat
    BY DEF Calls, Worlds
  <1>1. /\ v \in Worlds /\ v.t \in Tunnels /\ DOMAIN v.t.cells = DOMAIN w.t.cells /\ v.t.cells[i] = c
        /\ \A j \in DOMAIN w.t.cells : j # i => v.t.cells[j] = w.t.cells[j]
        /\ v.t.on = w.t.on /\ v.t.tid = w.t.tid /\ v.t.pid = w.t.pid /\ v.t.was = w.t.was /\ v.t.open = w.t.open
        /\ v.next = w.next /\ v.have = w.have /\ v.bad = w.bad /\ v.out = w.out
    BY DEF CellPut
  <1> DEFINE q == tun[Other(h)]
             b == w.bad.before
  <1> HIDE DEF q, b
  <1>2. \A j \in DOMAIN w.t.cells : v.t.cells[j].kind = w.t.cells[j].kind /\ v.t.cells[j].rid = w.t.cells[j].rid
    BY <1>1
  <1>3. Sources(v.t) = Sources(w.t)
    BY <1>1, <1>2 DEF Sources
  <1>4. Grown(w.t, v.t, w.next)
    BY <1>1, <1>2, <1>3 DEF Grown, Sources
  <1>5. TunnelOK(h, v.t, v.next)
    <2>1. TunnelOK(h, w.t, w.next)
      BY DEF Calls
    <2>2. w.t.on
      BY <2>1 DEF TunnelOK, NoTunnel
    <2> QED
      BY <1>1, <1>2, <2>1, <2>2 DEF TunnelOK
  <1>6. SinksKnow(v.t, q, b, y)
    <2> SUFFICES ASSUME Pure(b), NEW j \in DOMAIN v.t.cells, v.t.cells[j].kind = "sink", j # y
                 PROVE  Asks(q, v.t.cells[j].pid, v.t.cells[j].rid, b)
      BY DEF SinksKnow
    <2>1. CASE j = i
      BY <1>1, <2>1 DEF q, b
    <2>2. CASE j # i
      <3>1. v.t.cells[j] = w.t.cells[j] /\ j # x /\ j \in DOMAIN w.t.cells
        BY <1>1, <2>2
      <3>2. SinksKnow(w.t, q, b, x)
        BY DEF Calls, q, b
      <3> QED
        BY <3>1, <3>2 DEF SinksKnow
    <2> QED
      BY <2>1, <2>2
  <1>7. SourcesKnow(v.t, q, b)
    <2> SUFFICES ASSUME Steady(b), NEW j \in Sources(v.t), v.t.cells[j].pid # 0
                 PROVE  v.t.was # 0 /\ (v.t.was = q.tid => Taken(q, v.t.cells[j].pid, v.t.cells[j].rid, b))
      BY DEF SourcesKnow
    <2>0. j \in Sources(w.t) /\ j \in DOMAIN w.t.cells /\ v.t.cells[j].kind = "source"
      BY <1>3 DEF Sources
    <2>1. CASE j = i
      BY <1>1, <2>0, <2>1 DEF q, b
    <2>2. CASE j # i
      <3>1. v.t.cells[j] = w.t.cells[j]
        BY <1>1, <2>0, <2>2
      <3>2. SourcesKnow(w.t, q, b)
        BY DEF Calls, q, b
      <3> QED
        BY <1>1, <2>0, <3>1, <3>2 DEF SourcesKnow
    <2> QED
      BY <2>1, <2>2
  <1>8. IsBound(w.t) => IsBound(v.t)
    <2> SUFFICES ASSUME NEW j \in Sources(w.t), w.t.cells[j].pid # 0 PROVE v.t.cells[j].pid # 0 /\ j \in Sources(v.t)
      BY DEF IsBound
    <2>1. j \in DOMAIN w.t.cells
      BY DEF Sources
    <2>2. CASE j = i
      BY <1>1, <1>3, <2>2
    <2>3. CASE j # i
      BY <1>1, <1>3, <2>1, <2>3
    <2> QED
      BY <2>2, <2>3
  <1>9. Grown(w.t, v.t, w.next) /\ w.next <= v.next /\ w.bad.before \subseteq v.bad.before /\ v.have \subseteq Wants[h]
        /\ Excused(v.bad) /\ (Steady(v.bad.before) => v.t.was < next[Other(h)])
    BY <1>0, <1>1, <1>4 DEF Calls
  <1>10. Calls(h, v, y)
    BY <1>1, <1>5, <1>6, <1>7, <1>8, <1>9, Moves DEF q, b
  <1>11. Same(w, v)
    BY <1>2 DEF Same, CellPut
  <1> QED
    BY <1>10, <1>11

-----------------------------------------------------------------------------
(* What is queued *)

\* A message is queued, or dropped when the queue is full; the rest stays.
LEMMA PushFacts ==
  ASSUME NEW w \in Worlds, NEW sid, NEW type, NEW arg, NEW rid,
         [sid |-> sid, type |-> type, arg |-> arg, rid |-> rid] \in Message, NEW v, v = Push(w, sid, type, arg, rid)
  PROVE  /\ v \in Worlds /\ v.t = w.t /\ v.next = w.next /\ v.have = w.have /\ v.bad = w.bad /\ v.from = w.from
         /\ v.recent1 = w.recent1 /\ v.recent2 = w.recent2 /\ v.binds = w.binds
         /\ v.out = w.out \/ v.out = Append(w.out, [sid |-> sid, type |-> type, arg |-> arg, rid |-> rid])
  <1> DEFINE m == [sid |-> sid, type |-> type, arg |-> arg, rid |-> rid]
  <1>1. v = w \/ v = [w EXCEPT !.out = Append(w.out, m)]
    BY DEF Push
  <1>2. m \in Message
    OBVIOUS
  <1> HIDE DEF m
  <1>3. Append(w.out, m) \in Seq(Message)
    BY <1>2 DEF Worlds
  <1> QED
    BY <1>1, <1>3 DEF Worlds, m

\* A message that is true and well addressed keeps the queue in order.
LEMMA PushKeeps ==
  ASSUME NEW h, Ground(h), NEW w, NEW x, Calls(h, w, x), w.t.on,
         NEW sid, NEW type, NEW arg, NEW rid, NEW m \in Message,
         m = [sid |-> sid, type |-> type, arg |-> arg, rid |-> rid],
         SaidBy(m, w.t, w.t.tid, w.bad.before), Outward(m, w.t, tun[Other(h)], w.bad.before),
         NEW v, v = Push(w, sid, type, arg, rid)
  PROVE  Calls(h, v, x) /\ Same(w, v) /\ (type # "Bind" => Quiet(w, v)) /\ v.t = w.t /\ v.have = w.have /\ v.bad = w.bad
  <1>0. w \in Worlds /\ w.out \in Seq(Message)
    BY DEF Calls, Worlds
  <1>1. /\ v \in Worlds /\ v.t = w.t /\ v.next = w.next /\ v.have = w.have /\ v.bad = w.bad /\ v.from = w.from
        /\ v.recent1 = w.recent1 /\ v.recent2 = w.recent2 /\ v.binds = w.binds
        /\ v.out = w.out \/ v.out = Append(w.out, m)
    BY <1>0, PushFacts
  <1>2. Queued(v.out, v.t, tun[Other(h)], v.bad.before)
    <2>1. Queued(w.out, w.t, tun[Other(h)], w.bad.before)
      BY DEF Calls
    <2>2. CASE v.out = w.out
      BY <1>1, <2>1, <2>2
    <2>3. CASE v.out = Append(w.out, m)
      <3>1. \A k \in DOMAIN v.out : v.out[k] = m \/ (k \in DOMAIN w.out /\ v.out[k] = w.out[k])
        BY <1>0, <2>3
      <3> QED
        BY <1>1, <2>1, <3>1 DEF Queued
    <2> QED
      BY <1>1, <2>2, <2>3
  <1>3. Calls(h, v, x)
    BY <1>1, <1>2 DEF Calls
  <1>4. Same(w, v)
    BY <1>1 DEF Same
  <1>5. ASSUME type # "Bind", NoBind(w.out) PROVE NoBind(v.out)
    <2>1. \A k \in DOMAIN v.out : v.out[k] = m \/ (k \in DOMAIN w.out /\ v.out[k] = w.out[k])
      BY <1>0, <1>1
    <2>2. m.type # "Bind"
      BY <1>5
    <2> QED
      BY <1>5, <2>1, <2>2 DEF NoBind
  <1> QED
    BY <1>1, <1>3, <1>4, <1>5 DEF Quiet

\* The values of a cell.
LEMMA CellTypes ==
  ASSUME NEW h, NEW w, NEW x, Calls(h, w, x), NEW i \in DOMAIN w.t.cells
  PROVE  /\ w.t.on /\ w.t.cells[i] \in SomeCell /\ i \in Nat \ {0} /\ w.t.cells \in Seq(SomeCell)
         /\ w.t.cells[i].kind # "gone" => w.t.cells[i].rid \in Rids
         /\ w.t.cells[i].kind = "source" => w.t.cells[i].rid \in Wants[h]
         /\ w.t.tid \in Nat \ {0} /\ w.bad \in Bads
  <1>1. w \in Worlds /\ w.t \in Tunnels /\ w.t.cells \in Seq(SomeCell) /\ TunnelOK(h, w.t, w.next) /\ w.bad \in Bads
    BY DEF Calls, Worlds, Tunnels
  <1>2. w.t.on
    BY <1>1 DEF TunnelOK, NoTunnel
  <1>3. w.t.cells[i] \in SomeCell /\ i \in Nat \ {0}
    BY <1>1
  <1>5. w.t.tid \in Nat \ {0}
    BY <1>1, <1>2 DEF TunnelOK, Tunnels
  <1> QED
    BY <1>1, <1>2, <1>3, <1>5 DEF TunnelOK

\* A source asks its sink for the map or for the data: it is no source that is asked.
LEMMA RequestKeeps ==
  ASSUME NEW h, Ground(h), NEW w, NEW x, Calls(h, w, x), NEW i \in Sources(w.t), NEW type \in Requests,
         NEW v, v = send_msg(w, i, type, 0)
  PROVE  Calls(h, v, x) /\ Same(w, v) /\ Quiet(w, v) /\ v.t = w.t /\ v.have = w.have /\ v.bad = w.bad
  <1>1. i \in DOMAIN w.t.cells /\ w.t.cells[i].kind = "source"
    BY DEF Sources
  <1>2. w.t.on /\ w.t.cells[i] \in SomeCell /\ w.t.cells[i].rid \in Rids
    BY <1>1, CellTypes
  <1>3. w.t.cells[i].pid \in Nat
    BY <1>2 DEF SomeCell
  <1> DEFINE sid == w.t.cells[i].pid
             rid == w.t.cells[i].rid
             m == [sid |-> sid, type |-> type, arg |-> 0, rid |-> rid]
  <1>4. sid \in Nat /\ rid \in Rids /\ v = Push(w, sid, type, 0, rid)
    BY <1>2, <1>3 DEF send_msg
  <1>5. SourcesKnow(w.t, tun[Other(h)], w.bad.before)
    BY DEF Calls
  <1>6. Steady(w.bad.before) /\ sid # 0 => IsBound(w.t) /\ (w.t.was = tun[Other(h)].tid => NoSource(tun[Other(h)], sid))
    BY <1>5 DEF SourcesKnow, Taken, NoSource, IsBound
  <1> HIDE DEF sid, rid
  <1>7. m \in Message
    BY <1>4 DEF Message, MapMessage, DataMessage, Requests
  <1>8. m.type = type /\ m.sid = sid /\ type \notin Answers \union {"Bind", "Connect", "ConnectOk"}
    BY DEF Requests, Answers
  <1> HIDE DEF m
  <1>9. SaidBy(m, w.t, w.t.tid, w.bad.before)
    BY <1>8 DEF SaidBy, Answers
  <1>10. Outward(m, w.t, tun[Other(h)], w.bad.before)
    BY <1>6, <1>8 DEF Outward, IsBound
  <1>11. m = [sid |-> sid, type |-> type, arg |-> 0, rid |-> rid]
    BY DEF m
  <1> QED
    BY <1>2, <1>4, <1>7, <1>8, <1>9, <1>10, <1>11, PushKeeps

\* A source asks to be bound, as long as the tunnel is not open or it is the listener
\* that it asks.
LEMMA BindKeeps ==
  ASSUME NEW h, Ground(h), NEW w, NEW x, Calls(h, w, x), NEW i \in Sources(w.t),
         ~w.t.open \/ w.t.cells[i].pid = 0, NEW v, v = P2pSource_open(w, i)
  PROVE  Calls(h, v, x) /\ Same(w, v) /\ v.t = w.t /\ v.have = w.have /\ v.bad = w.bad
  <1>1. i \in DOMAIN w.t.cells /\ w.t.cells[i].kind = "source"
    BY DEF Sources
  <1>2. w.t.on /\ w.t.cells[i] \in SomeCell /\ w.t.cells[i].rid \in Rids /\ i \in Nat \ {0}
    BY <1>1, CellTypes
  <1>3. w.t.cells[i].pid \in Nat
    BY <1>2 DEF SomeCell
  <1> DEFINE sid == w.t.cells[i].pid
             rid == w.t.cells[i].rid
             m == [sid |-> sid, type |-> "Bind", arg |-> i, rid |-> rid]
  <1>4. sid \in Nat /\ rid \in Rids /\ v = Push(w, sid, "Bind", i, rid) /\ (sid # 0 => ~w.t.open)
    BY <1>2, <1>3 DEF P2pSource_open, send_msg
  <1>5. rid = w.t.cells[i].rid
    OBVIOUS
  <1> HIDE DEF sid, rid
  <1>7. m \in Message
    BY <1>2, <1>4 DEF Message, BindMessage
  <1>8. m.type = "Bind" /\ m.sid = sid /\ m.arg = i /\ m.rid = rid
    OBVIOUS
  <1> HIDE DEF m
  <1>9. SaidBy(m, w.t, w.t.tid, w.bad.before)
    BY <1>5, <1>8 DEF SaidBy
  <1>10. Outward(m, w.t, tun[Other(h)], w.bad.before)
    BY <1>4, <1>8 DEF Outward, Answers, Requests
  <1>11. m = [sid |-> sid, type |-> "Bind", arg |-> i, rid |-> rid]
    BY DEF m
  <1> QED
    BY <1>2, <1>4, <1>7, <1>8, <1>9, <1>10, <1>11, PushKeeps

\* A sink answers the source that it knows.
LEMMA AnswerKeeps ==
  ASSUME NEW h, Ground(h), NEW w, Calls(h, w, 0), NEW i \in DOMAIN w.t.cells, w.t.cells[i].kind = "sink",
         NEW type \in Answers, NEW arg, arg = IF type = "BindOk" THEN i ELSE 0, NEW v, v = send_msg(w, i, type, arg)
  PROVE  Calls(h, v, 0) /\ Same(w, v) /\ Quiet(w, v)
  <1>2. w.t.on /\ w.t.cells[i] \in SomeCell /\ w.t.cells[i].rid \in Rids /\ i \in Nat \ {0}
    BY CellTypes
  <1>3. w.t.cells[i].pid \in Nat
    BY <1>2 DEF SomeCell
  <1> DEFINE sid == w.t.cells[i].pid
             rid == w.t.cells[i].rid
             m == [sid |-> sid, type |-> type, arg |-> arg, rid |-> rid]
  <1>4. sid \in Nat /\ rid \in Rids /\ v = Push(w, sid, type, arg, rid)
    BY <1>2, <1>3 DEF send_msg
  <1>5. rid = w.t.cells[i].rid
    OBVIOUS
  <1>6. Pure(w.bad.before) => Asks(tun[Other(h)], sid, rid, w.bad.before)
    BY <1>2 DEF Calls, SinksKnow
  <1> HIDE DEF sid, rid
  <1>7. m \in Message
    BY <1>2, <1>4 DEF Message, BindMessage, MapMessage, DataMessage, Answers
  <1>8. m.type = type /\ m.sid = sid /\ m.arg = arg /\ m.rid = rid /\ type \notin Requests \union {"Bind", "Connect", "ConnectOk"}
    BY DEF Requests, Answers
  <1> HIDE DEF m
  <1>9. SaidBy(m, w.t, w.t.tid, w.bad.before)
    BY <1>5, <1>8 DEF SaidBy, Taken
  <1>10. Outward(m, w.t, tun[Other(h)], w.bad.before)
    BY <1>6, <1>8 DEF Outward
  <1>11. m = [sid |-> sid, type |-> type, arg |-> arg, rid |-> rid]
    BY DEF m
  <1> QED
    BY <1>2, <1>4, <1>7, <1>8, <1>9, <1>10, <1>11, PushKeeps

-----------------------------------------------------------------------------
(* P2pSource *)

\* The fields of a cell that are written.
LEMMA FieldFacts ==
  ASSUME NEW w \in Worlds, NEW i \in DOMAIN w.t.cells, NEW c, c = w.t.cells[i], NEW z
  PROVE  /\ z \in BOOLEAN => CellPut(w, i, [c EXCEPT !.req = z], [w EXCEPT !.t.cells[i].req = z])
         /\ z \in BOOLEAN => CellPut(w, i, [c EXCEPT !.map = z], [w EXCEPT !.t.cells[i].map = z])
         /\ z \in Nat => CellPut(w, i, [c EXCEPT !.pid = z], [w EXCEPT !.t.cells[i].pid = z])
  <1>1. c \in SomeCell
    BY DEF Worlds, Tunnels
  <1>2. /\ z \in BOOLEAN => [c EXCEPT !.req = z] \in SomeCell /\ [c EXCEPT !.map = z] \in SomeCell
        /\ z \in Nat => [c EXCEPT !.pid = z] \in SomeCell
    BY <1>1 DEF SomeCell
  <1>3. [w EXCEPT !.t.cells[i].req = z] = [w EXCEPT !.t.cells[i] = [c EXCEPT !.req = z]]
    OBVIOUS
  <1>4. [w EXCEPT !.t.cells[i].map = z] = [w EXCEPT !.t.cells[i] = [c EXCEPT !.map = z]]
    OBVIOUS
  <1>5. [w EXCEPT !.t.cells[i].pid = z] = [w EXCEPT !.t.cells[i] = [c EXCEPT !.pid = z]]
    OBVIOUS
  <1>6. \A d \in SomeCell : CellPut(w, i, d, [w EXCEPT !.t.cells[i] = d])
    BY CellFacts
  <1> QED
    BY <1>2, <1>3, <1>4, <1>5, <1>6

\* A source marks what it has asked for, or what it has been told.
LEMMA MarkKeeps ==
  ASSUME NEW h, Ground(h), NEW w, NEW x, Calls(h, w, x), NEW i \in Sources(w.t), NEW z \in BOOLEAN
  PROVE  /\ LET v == [w EXCEPT !.t.cells[i].req = z] IN Calls(h, v, x) /\ Same(w, v) /\ Quiet(w, v) /\ v.have = w.have /\ v.bad = w.bad
         /\ LET v == [w EXCEPT !.t.cells[i].map = z] IN Calls(h, v, x) /\ Same(w, v) /\ Quiet(w, v) /\ v.have = w.have /\ v.bad = w.bad
  <1>1. i \in DOMAIN w.t.cells /\ w.t.cells[i].kind = "source"
    BY DEF Sources
  <1> DEFINE c == w.t.cells[i]
  <1>2. c \in SomeCell /\ w \in Worlds
    BY <1>1, CellTypes DEF Calls
  <1>3. SourcesKnow(w.t, tun[Other(h)], w.bad.before)
    BY DEF Calls
  <1>4. ASSUME NEW d, d.kind = c.kind, d.rid = c.rid, d.pid = c.pid, NEW v, CellPut(w, i, d, v)
        PROVE  Calls(h, v, x) /\ Same(w, v) /\ Quiet(w, v) /\ v.have = w.have /\ v.bad = w.bad
    <2>1. d.kind # "sink" /\ d.kind = w.t.cells[i].kind /\ d.rid = w.t.cells[i].rid /\ d.pid = w.t.cells[i].pid
      BY <1>1, <1>4
    <2>2. d.pid # 0 /\ Steady(w.bad.before) =>
            w.t.was # 0 /\ (w.t.was = tun[Other(h)].tid => Taken(tun[Other(h)], d.pid, d.rid, w.bad.before))
      BY <1>3, <2>1 DEF SourcesKnow
    <2>3. d.kind = "source" /\ (w.t.cells[i].pid # 0 => d.pid # 0)
      BY <1>1, <2>1
    <2> HIDE DEF c
    <2>4. Calls(h, v, x) /\ Same(w, v)
      <3>1. i \in DOMAIN w.t.cells /\ CellPut(w, i, d, v) /\ d.kind = w.t.cells[i].kind /\ d.rid = w.t.cells[i].rid
            /\ (d.kind = "sink" /\ i # x /\ Pure(w.bad.before) => Asks(tun[Other(h)], d.pid, d.rid, w.bad.before))
        BY <1>1, <1>4, <2>1
      <3> QED
        BY <2>2, <2>3, <3>1, CellKeeps
    <2> QED
      BY <1>4, <2>4 DEF CellPut, Quiet
  <1>5. CellPut(w, i, [c EXCEPT !.req = z], [w EXCEPT !.t.cells[i].req = z])
        /\ CellPut(w, i, [c EXCEPT !.map = z], [w EXCEPT !.t.cells[i].map = z])
    BY <1>1, <1>2, FieldFacts
  <1>6. [c EXCEPT !.req = z].kind = c.kind /\ [c EXCEPT !.req = z].rid = c.rid /\ [c EXCEPT !.req = z].pid = c.pid
        /\ [c EXCEPT !.map = z].kind = c.kind /\ [c EXCEPT !.map = z].rid = c.rid /\ [c EXCEPT !.map = z].pid = c.pid
    BY <1>2 DEF SomeCell
  <1> HIDE DEF c
  <1>7. LET v == [w EXCEPT !.t.cells[i].req = z] IN Calls(h, v, x) /\ Same(w, v) /\ Quiet(w, v) /\ v.have = w.have /\ v.bad = w.bad
    BY <1>4, <1>5, <1>6
  <1>8. LET v == [w EXCEPT !.t.cells[i].map = z] IN Calls(h, v, x) /\ Same(w, v) /\ Quiet(w, v) /\ v.have = w.have /\ v.bad = w.bad
    BY <1>4, <1>5, <1>6
  <1> QED
    BY <1>7, <1>8

\* What is known outside the tunnel changes.
LEMMA NewsKeeps ==
  ASSUME NEW h, Ground(h), NEW w, NEW x, Calls(h, w, x), NEW v \in Worlds,
         v.t = w.t, v.next = w.next, v.out = w.out, v.from = w.from,
         v.recent1 = w.recent1, v.recent2 = w.recent2, v.binds = w.binds,
         v.have \subseteq Wants[h], Excused(v.bad), w.bad.before \subseteq v.bad.before
  PROVE  Calls(h, v, x) /\ Same(w, v) /\ Quiet(w, v)
  <1>1. Steady(v.bad.before) => Steady(w.bad.before)
    BY Earlier
  <1>2. w.next \in Nat /\ v.next \in Nat /\ w.next <= v.next
    BY DEF Calls, Worlds
  <1>3. Same(w, v) /\ Quiet(w, v)
    BY DEF Same, Quiet
  <1>4. Grown(w.t, v.t, w.next)
    BY GrownSelf
  <1>5. SinksKnow(v.t, tun[Other(h)], v.bad.before, x) /\ SourcesKnow(v.t, tun[Other(h)], v.bad.before)
    BY KnowLater DEF Calls
  <1>6. TunnelOK(h, v.t, v.next) /\ (Steady(v.bad.before) => v.t.was < next[Other(h)])
    BY <1>1 DEF Calls
  <1>7. Calls(h, v, x)
    BY <1>2, <1>4, <1>5, <1>6, Moves
  <1> QED
    BY <1>3, <1>7

\* The scheduler asks for what is missing.
LEMMA ReadyKeeps ==
  ASSUME NEW h, Ground(h), NEW w, NEW x, Calls(h, w, x), NEW i \in Sources(w.t), NEW v, v = on_ready(w, i)
  PROVE  Calls(h, v, x) /\ Same(w, v) /\ Quiet(w, v)
  <1> DEFINE u == [w EXCEPT !.t.cells[i].req = TRUE]
  <1>1. Calls(h, u, x) /\ Same(w, u) /\ Quiet(w, u)
    BY MarkKeeps
  <1>2. v = w \/ v = send_msg(u, i, "Data", 0)
    BY DEF on_ready
  <1> HIDE DEF u
  <1>3. CASE v = w
    BY <1>3 DEF Same, Quiet
  <1>4. CASE v = send_msg(u, i, "Data", 0)
    <2>1. i \in Sources(u.t) /\ "Data" \in Requests
      BY <1>1, SameSources DEF Requests
    <2>2. Calls(h, v, x) /\ Same(u, v) /\ Quiet(u, v)
      BY <1>1, <1>4, <2>1, RequestKeeps
    <2> QED
      BY <1>1, <2>2, SameTwice DEF Quiet
  <1> QED
    BY <1>2, <1>3, <1>4

\* A map that is missing is asked for.
LEMMA MapKeeps ==
  ASSUME NEW h, Ground(h), NEW w, NEW x, Calls(h, w, x), NEW i \in Sources(w.t), NEW v, v = req_map(w, i)
  PROVE  Calls(h, v, x) /\ Same(w, v) /\ Quiet(w, v)
  <1>1. v = w \/ v = send_msg(w, i, "Map", 0)
    BY DEF req_map
  <1>2. CASE v = w
    BY <1>2 DEF Same, Quiet
  <1>3. CASE v = send_msg(w, i, "Map", 0)
    BY <1>3, RequestKeeps DEF Requests
  <1> QED
    BY <1>1, <1>2, <1>3

\* The timer of a source.
LEMMA SourceTimerKeeps ==
  ASSUME NEW h, Ground(h), NEW w, NEW x, Calls(h, w, x), NEW i \in Sources(w.t), NEW u, u = P2pSource_on_timer(w, i)
  PROVE  Calls(h, u, x) /\ Same(w, u)
  <1> DEFINE v == req_map(w, i)
             y == [v EXCEPT !.t.cells[i].req = FALSE]
  <1>1. \/ u = w
        \/ w.t.cells[i].pid = 0 /\ u = P2pSource_open(w, i)
        \/ u = v
        \/ u = on_ready(y, i)
    BY DEF P2pSource_on_timer
  <1>2. Calls(h, v, x) /\ Same(w, v)
    BY MapKeeps
  <1>3. i \in Sources(v.t)
    BY <1>2, SameSources
  <1> HIDE DEF v
  <1>4. Calls(h, y, x) /\ Same(v, y)
    BY <1>2, <1>3, MarkKeeps
  <1>5. i \in Sources(y.t)
    BY <1>3, <1>4, SameSources
  <1> HIDE DEF y
  <1>6. CASE u = w
    BY <1>6 DEF Same
  <1>7. CASE w.t.cells[i].pid = 0 /\ u = P2pSource_open(w, i)
    BY <1>7, BindKeeps
  <1>8. CASE u = v
    BY <1>2, <1>8
  <1>9. CASE u = on_ready(y, i)
    <2>1. Calls(h, u, x) /\ Same(y, u)
      BY <1>4, <1>5, <1>9, ReadyKeeps
    <2> QED
      BY <1>2, <1>4, <2>1, SameTwice
  <1> QED
    BY <1>1, <1>6, <1>7, <1>8, <1>9

\* A map has come.
LEMMA OnMapKeeps ==
  ASSUME NEW h, Ground(h), NEW w, NEW x, Calls(h, w, x), NEW i \in Sources(w.t), NEW v, v = on_map(w, i)
  PROVE  Calls(h, v, x) /\ Same(w, v) /\ Quiet(w, v)
  <1> DEFINE u == [w EXCEPT !.t.cells[i].map = TRUE]
  <1>1. Calls(h, u, x) /\ Same(w, u) /\ Quiet(w, u)
    BY MarkKeeps
  <1>2. v = on_ready(u, i)
    BY DEF on_map
  <1> HIDE DEF u
  <1>3. i \in Sources(u.t)
    BY <1>1, SameSources
  <1>4. Calls(h, v, x) /\ Same(u, v) /\ Quiet(u, v)
    BY <1>1, <1>2, <1>3, ReadyKeeps
  <1> QED
    BY <1>1, <1>4, SameTwice DEF Quiet

\* Data has come: of the resource of the source, unless two binds have shared a packet.
LEMMA OnDataKeeps ==
  ASSUME NEW h, Ground(h), NEW w, NEW x, Calls(h, w, x), NEW i \in Sources(w.t), NEW of,
         Pure(w.bad.before) => Asks(w.t, i, of, w.bad.before), NEW v, v = on_data(w, i, of)
  PROVE  Calls(h, v, x) /\ Same(w, v) /\ Quiet(w, v)
  <1> DEFINE c == w.t.cells[i]
             u == [w EXCEPT !.t.cells[i].req = FALSE]
             z == w.bad.wrong \/ of # c.rid
             y == [w EXCEPT !.t.cells[i].req = FALSE, !.have = @ \union {c.rid}, !.bad.wrong = z]
  <1>1. Calls(h, u, x) /\ Same(w, u) /\ Quiet(w, u) /\ u.have = w.have /\ u.bad = w.bad
    BY MarkKeeps
  <1>2. v = w \/ v = on_ready(y, i)
    BY DEF on_data
  <1>3. i \in DOMAIN w.t.cells /\ c.kind = "source"
    BY DEF Sources
  <1>4. c.rid \in Wants[h] /\ c.rid \in Rids /\ w.bad \in Bads
    BY <1>3, CellTypes
  <1>5. w \in Worlds /\ w.have \subseteq Wants[h] /\ Excused(w.bad)
    BY DEF Calls
  <1>6. w.t.cells \in Seq(SomeCell) /\ w.t \in Tunnels
    BY <1>5 DEF Worlds, Tunnels
  <1>7. /\ y.t = u.t /\ y.next = u.next /\ y.out = u.out /\ y.from = u.from /\ y.recent1 = u.recent1
        /\ y.recent2 = u.recent2 /\ y.binds = u.binds
        /\ y.have = w.have \union {c.rid} /\ y.bad = [w.bad EXCEPT !.wrong = z]
        /\ y = [u EXCEPT !.have = y.have, !.bad = y.bad]
    BY <1>5 DEF Worlds
  <1>8. y.bad \in Bads /\ y.bad.before = w.bad.before /\ y.bad.fault = w.bad.fault /\ (y.bad.wrong => w.bad.wrong \/ of # c.rid)
    <2>1. z \in BOOLEAN /\ (z => w.bad.wrong \/ of # c.rid)
      OBVIOUS
    <2>2. y.bad = [w.bad EXCEPT !.wrong = z]
      BY <1>7
    <2> HIDE DEF z, y, c, u
    <2> QED
      BY <1>4, <2>1, <2>2 DEF Bads
  <1>9. of # c.rid => w.bad.before \intersect {"shared", "reborn"} # {}
    BY DEF Pure, Asks
  <1>10. Excused(y.bad)
    BY <1>5, <1>8, <1>9 DEF Excused
  <1>11. y.have \subseteq Wants[h] /\ y.have \subseteq Rids
    BY <1>4, <1>5, <1>7 DEF Worlds
  <1>12. u \in Worlds
    BY <1>1 DEF Calls
  <1> HIDE DEF c, u, y, z
  <1>13. y \in Worlds
    BY <1>7, <1>8, <1>11, <1>12 DEF Worlds
  <1>14. Calls(h, y, x) /\ Same(u, y) /\ Quiet(u, y)
    BY <1>1, <1>7, <1>8, <1>10, <1>11, <1>13, NewsKeeps
  <1>15. i \in Sources(y.t)
    BY <1>1, <1>7, SameSources
  <1>16. CASE v = w
    BY <1>16 DEF Same, Quiet
  <1>17. CASE v = on_ready(y, i)
    <2>1. Calls(h, v, x) /\ Same(y, v) /\ Quiet(y, v)
      BY <1>14, <1>15, <1>17, ReadyKeeps
    <2> QED
      BY <1>1, <1>14, <2>1, SameTwice DEF Quiet
  <1> QED
    BY <1>2, <1>16, <1>17

\* The fields of a message.
LEMMA MessageFacts ==
  ASSUME NEW m \in Message
  PROVE  /\ m.type \in {"Connect", "ConnectOk", "Bind", "BindOk", "Map", "MapOk", "Data", "DataOk"}
         /\ m.sid \in Nat /\ m.arg \in Nat
         /\ m.type \in {"Connect", "ConnectOk"} => m.sid = 0 /\ m.arg # 0
         /\ m.type \notin {"Connect", "ConnectOk"} => m.rid \in Rids
         /\ m.type \in {"Bind", "BindOk"} => m.arg # 0
  BY DEF Message, ConnectMessage, BindMessage, MapMessage, DataMessage

\* Something is noted.
LEMMA NoteKeeps ==
  ASSUME NEW h, Ground(h), NEW w, NEW x, Calls(h, w, x), NEW n \in Notes, NEW v, v = Note(w, n)
  PROVE  /\ Calls(h, v, x) /\ Same(w, v) /\ Quiet(w, v) /\ v.t = w.t /\ v.bad.before = w.bad.before \union {n}
         /\ v.out = w.out
  <1>1. w \in Worlds /\ w.bad \in Bads /\ w.have \subseteq Wants[h] /\ Excused(w.bad)
    BY DEF Calls, Worlds
  <1> DEFINE b == [w.bad EXCEPT !.before = @ \union {n}]
  <1>2. b \in Bads /\ b.fault = w.bad.fault /\ b.wrong = w.bad.wrong /\ b.before = w.bad.before \union {n}
    BY <1>1 DEF Bads
  <1>3. v = [w EXCEPT !.bad = b]
    BY DEF Note
  <1> HIDE DEF b
  <1>4. v \in Worlds /\ v.bad = b /\ v.t = w.t /\ v.next = w.next /\ v.out = w.out /\ v.from = w.from
        /\ v.recent1 = w.recent1 /\ v.recent2 = w.recent2 /\ v.binds = w.binds /\ v.have = w.have
    BY <1>1, <1>2, <1>3 DEF Worlds
  <1>5. Excused(b)
    BY <1>1, <1>2 DEF Excused, Steady
  <1>6. w.bad.before \subseteq v.bad.before
    BY <1>2, <1>4
  <1> QED
    BY <1>1, <1>2, <1>4, <1>5, <1>6, NewsKeeps

\* A source is told which sink it has got.  An answer that another tunnel of the peer has
\* sent than the one that this was opened to is noted.
LEMMA BoundKeeps ==
  ASSUME NEW h, Ground(h), NEW w, NEW x, Calls(h, w, x), NEW i \in Sources(w.t), NEW m \in Message, m.type = "BindOk",
         w.from # 0, SaidBy(m, tun[Other(h)], w.from, w.bad.before),
         Pure(w.bad.before) => Asks(w.t, i, m.rid, w.bad.before),
         NEW n, n = (IF w.from # w.t.was THEN Note(w, "late") ELSE w),
         NEW v, v = [n EXCEPT !.t.cells[i].pid = m.arg]
  PROVE  Calls(h, v, x) /\ Same(w, v) /\ Quiet(w, v)
  <1>1. i \in DOMAIN w.t.cells /\ w.t.cells[i].kind = "source" /\ m.arg \in Nat \ {0}
    BY MessageFacts DEF Sources
  <1>2. /\ Calls(h, n, x) /\ Same(w, n) /\ Quiet(w, n) /\ n.t = w.t /\ w.bad.before \subseteq n.bad.before
        /\ Steady(n.bad.before) => w.from = w.t.was
    <2>1. CASE w.from # w.t.was
      <3>0. "late" \in Notes
        BY DEF Notes
      <3>1. n = Note(w, "late")
        BY <2>1
      <3>2. Calls(h, n, x) /\ Same(w, n) /\ Quiet(w, n) /\ n.t = w.t /\ n.bad.before = w.bad.before \union {"late"}
        BY <3>0, <3>1, NoteKeeps
      <3> QED
        BY <3>2 DEF Steady
    <2>2. CASE w.from = w.t.was
      BY <2>2 DEF Same, Quiet
    <2> QED
      BY <2>1, <2>2
  <1> DEFINE c == n.t.cells[i]
             d == [c EXCEPT !.pid = m.arg]
  <1>3. c \in SomeCell /\ n \in Worlds /\ i \in DOMAIN n.t.cells
    BY <1>1, <1>2, CellTypes DEF Calls
  <1>4. d.pid = m.arg /\ d.kind = c.kind /\ d.rid = c.rid
    BY <1>3 DEF SomeCell
  <1>5. CellPut(n, i, d, v)
    BY <1>1, <1>3, FieldFacts
  <1>6. d.kind = "source" /\ d.rid = w.t.cells[i].rid /\ d.kind = n.t.cells[i].kind /\ d.rid = n.t.cells[i].rid
    BY <1>1, <1>2, <1>4
  <1> HIDE DEF d, c
  <1> DEFINE q == tun[Other(h)]
             b == n.bad.before
  <1>7. ASSUME Steady(b) PROVE n.t.was # 0 /\ (n.t.was = q.tid => Taken(q, d.pid, d.rid, b))
    <2>1. w.from = n.t.was /\ Steady(w.bad.before) /\ Pure(w.bad.before) /\ w.bad.before \subseteq b
      BY <1>2, <1>7 DEF Steady, Pure
    <2>2. Asks(w.t, i, m.rid, w.bad.before)
      BY <2>1
    <2>3. n.t.was = q.tid => Taken(q, m.arg, m.rid, w.bad.before)
      BY <2>1 DEF SaidBy
    <2> QED
      BY <1>4, <1>6, <2>1, <2>2, <2>3 DEF Taken, Asks
  <1>8. d.kind = "sink" /\ i # x /\ Pure(b) => Asks(q, d.pid, d.rid, b)
    BY <1>6
  <1>9. n.t.cells[i].pid # 0 => d.pid # 0
    BY <1>1, <1>4
  <1>10. Calls(h, v, x) /\ Same(n, v)
    BY <1>2, <1>3, <1>5, <1>6, <1>7, <1>8, <1>9, CellKeeps
  <1>11. Quiet(w, v)
    BY <1>2, <1>5 DEF Quiet, CellPut
  <1> QED
    BY <1>2, <1>10, <1>11, SameTwice

\* A message for a source: an answer, unless something has happened.
LEMMA SourceMsgKeeps ==
  ASSUME NEW h, Ground(h), NEW w, NEW x, Calls(h, w, x), NEW i \in Sources(w.t), NEW m \in Message,
         w.from # 0, SaidBy(m, tun[Other(h)], w.from, w.bad.before),
         m.type \in Answers /\ Pure(w.bad.before) => Asks(w.t, i, m.rid, w.bad.before),
         m.type \notin Answers => ~Steady(w.bad.before),
         NEW v, v = P2pSource_on_msg(w, i, m)
  PROVE  Calls(h, v, x) /\ Same(w, v) /\ Quiet(w, v)
  <1>1. CASE m.type = "BindOk"
    <2> DEFINE n == IF w.from # w.t.was THEN Note(w, "late") ELSE w
               y == [n EXCEPT !.t.cells[i].pid = m.arg]
    <2>1. v = req_map(y, i)
      BY <1>1 DEF P2pSource_on_msg
    <2>2. Pure(w.bad.before) => Asks(w.t, i, m.rid, w.bad.before)
      BY <1>1 DEF Answers
    <2>3. Calls(h, y, x) /\ Same(w, y) /\ Quiet(w, y)
      BY <1>1, <2>2, BoundKeeps
    <2> HIDE DEF n, y
    <2>4. i \in Sources(y.t)
      BY <2>3, SameSources
    <2>5. Calls(h, v, x) /\ Same(y, v) /\ Quiet(y, v)
      BY <2>1, <2>3, <2>4, MapKeeps
    <2> QED
      BY <2>3, <2>5, SameTwice DEF Quiet
  <1>2. CASE m.type = "MapOk"
    BY <1>2, OnMapKeeps DEF P2pSource_on_msg
  <1>3. CASE m.type = "DataOk"
    <2>1. v = on_data(w, i, m.rid)
      BY <1>3 DEF P2pSource_on_msg
    <2>2. Pure(w.bad.before) => Asks(w.t, i, m.rid, w.bad.before)
      BY <1>3 DEF Answers
    <2> QED
      BY <2>1, <2>2, OnDataKeeps
  <1>4. CASE m.type \notin Answers
    <2>1. v = [w EXCEPT !.bad.fault = TRUE] /\ ~Steady(w.bad.before)
      BY <1>4 DEF P2pSource_on_msg, Answers
    <2>2. w \in Worlds /\ w.bad \in Bads /\ w.have \subseteq Wants[h] /\ Excused(w.bad)
      BY DEF Calls, Worlds
    <2> DEFINE b == [w.bad EXCEPT !.fault = TRUE]
    <2>3. b \in Bads /\ b.wrong = w.bad.wrong /\ b.before = w.bad.before
      BY <2>2 DEF Bads
    <2>4. v = [w EXCEPT !.bad = b]
      BY <2>1
    <2> HIDE DEF b
    <2>5. v \in Worlds /\ v.bad = b /\ v.t = w.t /\ v.next = w.next /\ v.out = w.out /\ v.from = w.from
          /\ v.recent1 = w.recent1 /\ v.recent2 = w.recent2 /\ v.binds = w.binds /\ v.have = w.have
      BY <2>2, <2>3, <2>4 DEF Worlds
    <2>6. Excused(b)
      BY <2>1, <2>2, <2>3 DEF Excused
    <2> QED
      BY <2>2, <2>3, <2>5, <2>6, NewsKeeps
  <1> QED
    BY <1>1, <1>2, <1>3, <1>4 DEF Answers

-----------------------------------------------------------------------------
(* P2pSink *)

\* A message for a sink, which is bound to the source that has asked, and answers it.
LEMMA SinkMsgKeeps ==
  ASSUME NEW h, Ground(h), NEW w, NEW x, Calls(h, w, x), NEW i \in DOMAIN w.t.cells, w.t.cells[i].kind = "sink",
         NEW m \in Message, x = 0 \/ (x = i /\ m.type = "Bind"),
         SaidBy(m, tun[Other(h)], w.from, w.bad.before),
         m.type = "Bind" /\ "shared" \notin w.bad.before => m.rid = w.t.cells[i].rid,
         NEW v, v = P2pSink_on_msg(w, i, m)
  PROVE  Calls(h, v, 0) /\ Same(w, v) /\ Quiet(w, v)
  <1>1. CASE m.type = "Bind"
    <2> DEFINE y == [w EXCEPT !.t.cells[i].pid = m.arg]
               c == w.t.cells[i]
               d == [c EXCEPT !.pid = m.arg]
    <2>1. v = send_msg(y, i, "BindOk", i)
      BY <1>1 DEF P2pSink_on_msg
    <2>2. c \in SomeCell /\ w \in Worlds /\ m.arg \in Nat \ {0}
      BY <1>1, CellTypes, MessageFacts DEF Calls
    <2>3. d.pid = m.arg /\ d.kind = c.kind /\ d.rid = c.rid
      BY <2>2 DEF SomeCell
    <2>4. CellPut(w, i, d, y)
      BY <2>2, FieldFacts
    <2>5. d.kind = "sink" /\ d.kind = w.t.cells[i].kind /\ d.rid = w.t.cells[i].rid
      BY <2>3
    <2> HIDE DEF d, c, y
    <2>6. Pure(w.bad.before) => Asks(tun[Other(h)], d.pid, d.rid, w.bad.before)
      BY <1>1, <2>3, <2>5 DEF SaidBy, Asks
    <2>7. (0 = x \/ (0 = 0 /\ x = i)) /\ d.pid # 0
      BY <2>2, <2>3
    <2>8. d.kind # "source"
      BY <2>5
    <2>9. Calls(h, y, 0) /\ Same(w, y)
      BY <2>4, <2>5, <2>6, <2>7, <2>8, CellKeeps
    <2>10. i \in DOMAIN y.t.cells /\ y.t.cells[i].kind = "sink" /\ y.out = w.out
      BY <2>4, <2>5 DEF CellPut
    <2>11. Calls(h, v, 0) /\ Same(y, v) /\ Quiet(y, v)
      BY <2>1, <2>9, <2>10, AnswerKeeps DEF Answers
    <2> QED
      BY <2>9, <2>10, <2>11, SameTwice DEF Quiet
  <1>2. CASE m.type = "Map"
    <2>1. x = 0 /\ v = send_msg(w, i, "MapOk", 0)
      BY <1>2 DEF P2pSink_on_msg
    <2> QED
      BY <2>1, AnswerKeeps DEF Answers
  <1>3. CASE m.type = "Data"
    <2>1. x = 0 /\ v = send_msg(w, i, "DataOk", 0)
      BY <1>3 DEF P2pSink_on_msg
    <2> QED
      BY <2>1, AnswerKeeps DEF Answers
  <1>4. CASE m.type \notin {"Bind", "Map", "Data"}
    <2>1. x = 0 /\ v = w
      BY <1>4 DEF P2pSink_on_msg
    <2> QED
      BY <2>1 DEF Same, Quiet
  <1> QED
    BY <1>1, <1>2, <1>3, <1>4

\* A message for a session.
LEMMA SessionMsgKeeps ==
  ASSUME NEW h, Ground(h), NEW w, NEW x, Calls(h, w, x), NEW i, NEW m \in Message, w.from # 0,
         SaidBy(m, tun[Other(h)], w.from, w.bad.before),
         x = 0 \/ (x = i /\ m.type = "Bind" /\ i \in DOMAIN w.t.cells /\ w.t.cells[i].kind = "sink"),
         i \in DOMAIN w.t.cells /\ w.t.cells[i].kind = "sink" /\ m.type = "Bind" /\ "shared" \notin w.bad.before
           => m.rid = w.t.cells[i].rid,
         i \in Sources(w.t) /\ m.type \in Answers /\ Pure(w.bad.before) => Asks(w.t, i, m.rid, w.bad.before),
         i \in Sources(w.t) /\ m.type \notin Answers => ~Steady(w.bad.before),
         NEW v, v = Session_on_msg(w, i, m)
  PROVE  Calls(h, v, 0) /\ Same(w, v) /\ Quiet(w, v)
  <1>1. CASE i \in DOMAIN w.t.cells /\ w.t.cells[i].kind = "source"
    <2>1. x = 0 /\ i \in Sources(w.t) /\ v = P2pSource_on_msg(w, i, m)
      BY <1>1 DEF Sources, Session_on_msg
    <2> QED
      BY <2>1, SourceMsgKeeps
  <1>2. CASE i \in DOMAIN w.t.cells /\ w.t.cells[i].kind = "sink"
    <2>1. v = P2pSink_on_msg(w, i, m)
      BY <1>2 DEF Session_on_msg
    <2>2. x = 0 \/ (x = i /\ m.type = "Bind")
      OBVIOUS
    <2>3. m.type = "Bind" /\ "shared" \notin w.bad.before => m.rid = w.t.cells[i].rid
      BY <1>2
    <2> QED
      BY <1>2, <2>1, <2>2, <2>3, SinkMsgKeeps
  <1>3. CASE i \notin DOMAIN w.t.cells
    <2>1. v = w
      BY <1>3 DEF Session_on_msg
    <2>2. x = 0
      BY <1>3
    <2> QED
      BY <2>1, <2>2 DEF Same, Quiet
  <1>4. CASE i \in DOMAIN w.t.cells /\ w.t.cells[i].kind \notin {"source", "sink"}
    <2>1. v = w
      BY <1>4 DEF Session_on_msg
    <2>2. x = 0
      BY <1>4
    <2> QED
      BY <2>1, <2>2 DEF Same, Quiet
  <1> QED
    BY <1>1, <1>2, <1>3, <1>4

-----------------------------------------------------------------------------
(* New sessions and new tunnels *)

\* The world v is w with one session more, in slot i.
CellAdded(w, i, c, v) ==
  /\ v \in Worlds /\ v.t \in Tunnels /\ v.t.cells \in Seq(SomeCell) /\ i = Len(w.t.cells) + 1 /\ Len(v.t.cells) = i
  /\ DOMAIN v.t.cells = DOMAIN w.t.cells \union {i} /\ i \notin DOMAIN w.t.cells /\ v.t.cells[i] = c
  /\ \A j \in DOMAIN w.t.cells : v.t.cells[j] = w.t.cells[j]
  /\ v.t.on = w.t.on /\ v.t.tid = w.t.tid /\ v.t.pid = w.t.pid /\ v.t.was = w.t.was /\ v.t.open = w.t.open
  /\ v.next = w.next /\ v.have = w.have /\ v.bad = w.bad /\ v.out = w.out /\ v.from = w.from
  /\ v.recent1 = w.recent1 /\ v.recent2 = w.recent2 /\ v.binds = w.binds

\* A session is added, and nothing else.
LEMMA AddFacts ==
  ASSUME NEW w \in Worlds, NEW c \in SomeCell, NEW v, v = [w EXCEPT !.t.cells = Append(@, c)]
  PROVE  CellAdded(w, Len(w.t.cells) + 1, c, v)
  <1>1. w.t \in Tunnels /\ w.t.cells \in Seq(SomeCell)
    BY DEF Worlds, Tunnels
  <1> DEFINE s == Append(w.t.cells, c)
             i == Len(w.t.cells) + 1
  <1>2. s \in Seq(SomeCell) /\ Len(s) = i /\ DOMAIN s = DOMAIN w.t.cells \union {i} /\ i \notin DOMAIN w.t.cells
        /\ s[i] = c /\ \A j \in DOMAIN w.t.cells : s[j] = w.t.cells[j]
    BY <1>1
  <1>3. v.t.cells = s /\ v.t = [w.t EXCEPT !.cells = s] /\ v = [w EXCEPT !.t = [w.t EXCEPT !.cells = s]]
    BY <1>1 DEF Worlds, Tunnels
  <1> HIDE DEF s
  <1>4. v.t \in Tunnels
    BY <1>1, <1>2, <1>3 DEF Tunnels
  <1> QED
    BY <1>1, <1>2, <1>3, <1>4 DEF CellAdded, Worlds, Tunnels

\* The values of a new cell.
LEMMA NewCell ==
  ASSUME NEW kind \in {"source", "sink"}, NEW r \in Rids, NEW c, c = Cell(kind, r)
  PROVE  c \in SomeCell /\ c.kind = kind /\ c.rid = r /\ c.pid = 0
  BY DEF Cell, SomeCell

\* A new source, or a new sink that is to be bound.
LEMMA AddKeeps ==
  ASSUME NEW h, Ground(h), NEW w, Calls(h, w, 0), w.t.on, NEW kind \in {"source", "sink"}, NEW r \in Rids,
         kind = "source" => r \in Wants[h], NEW v, v = [w EXCEPT !.t.cells = Append(@, Cell(kind, r))],
         NEW i, i = Len(w.t.cells) + 1, NEW y, y = (IF kind = "sink" THEN i ELSE 0)
  PROVE  Calls(h, v, y) /\ CellAdded(w, i, Cell(kind, r), v)
  <1> DEFINE c == Cell(kind, r)
  <1>1. c \in SomeCell /\ c.kind = kind /\ c.rid = r /\ c.pid = 0
    BY NewCell
  <1>2. v = [w EXCEPT !.t.cells = Append(@, c)]
    OBVIOUS
  <1> HIDE DEF c
  <1>3. w \in Worlds /\ TunnelOK(h, w.t, w.next)
    BY DEF Calls
  <1>4. CellAdded(w, i, c, v)
    BY <1>1, <1>2, <1>3, AddFacts
  <1>5. /\ v \in Worlds /\ v.t \in Tunnels /\ DOMAIN v.t.cells = DOMAIN w.t.cells \union {i} /\ i \notin DOMAIN w.t.cells
        /\ v.t.cells[i] = c /\ \A j \in DOMAIN w.t.cells : v.t.cells[j] = w.t.cells[j]
        /\ v.t.on = w.t.on /\ v.t.tid = w.t.tid /\ v.t.pid = w.t.pid /\ v.t.was = w.t.was /\ v.t.open = w.t.open
        /\ v.next = w.next /\ v.have = w.have /\ v.bad = w.bad /\ v.out = w.out
    BY <1>4 DEF CellAdded
  <1>6. \A j \in Sources(w.t) : j \in Sources(v.t) /\ v.t.cells[j] = w.t.cells[j]
    BY <1>5 DEF Sources
  <1>7. Grown(w.t, v.t, w.next)
    BY <1>5, <1>6 DEF Grown
  <1>8. TunnelOK(h, v.t, v.next)
    BY <1>1, <1>3, <1>5 DEF TunnelOK
  <1>9. SinksKnow(v.t, tun[Other(h)], v.bad.before, y)
    <2>1. SinksKnow(w.t, tun[Other(h)], w.bad.before, 0)
      BY DEF Calls
    <2>2. ASSUME NEW j \in DOMAIN v.t.cells, v.t.cells[j].kind = "sink", j # y
          PROVE  j \in DOMAIN w.t.cells /\ j # 0 /\ v.t.cells[j] = w.t.cells[j]
      <3>1. j # i
        BY <1>1, <1>5, <2>2
      <3>2. j \in DOMAIN w.t.cells
        BY <1>5, <3>1
      <3>3. w.t.cells \in Seq(SomeCell)
        BY <1>3 DEF Worlds, Tunnels
      <3>4. j # 0
        BY <3>2, <3>3
      <3> QED
        BY <1>5, <3>2, <3>4
    <2> QED
      BY <1>5, <2>1, <2>2 DEF SinksKnow
  <1>10. SourcesKnow(v.t, tun[Other(h)], v.bad.before)
    <2>1. SourcesKnow(w.t, tun[Other(h)], w.bad.before)
      BY DEF Calls
    <2>2. ASSUME NEW j \in Sources(v.t), v.t.cells[j].pid # 0
          PROVE  j \in Sources(w.t) /\ v.t.cells[j] = w.t.cells[j]
      <3>1. j \in DOMAIN v.t.cells /\ v.t.cells[j].kind = "source"
        BY DEF Sources
      <3>2. j # i
        BY <1>1, <1>5, <2>2
      <3>3. j \in DOMAIN w.t.cells
        BY <1>5, <3>1, <3>2
      <3> QED
        BY <1>5, <3>1, <3>3 DEF Sources
    <2> QED
      BY <1>5, <2>1, <2>2 DEF SourcesKnow
  <1>11. IsBound(w.t) => IsBound(v.t)
    BY <1>6 DEF IsBound
  <1>12. w.next <= v.next /\ w.bad.before \subseteq v.bad.before /\ v.have \subseteq Wants[h] /\ Excused(v.bad)
         /\ (Steady(v.bad.before) => v.t.was < next[Other(h)])
    BY <1>3, <1>5 DEF Calls, Worlds
  <1>13. Calls(h, v, y)
    BY <1>5, <1>7, <1>8, <1>9, <1>10, <1>11, <1>12, Moves
  <1> QED
    BY <1>4, <1>13 DEF c

\* Outside the sessions, v is like w.
Alike(w, v) ==
  /\ v.out = w.out /\ v.from = w.from /\ v.recent1 = w.recent1 /\ v.recent2 = w.recent2 /\ v.binds = w.binds

\* The sink that a bind is given to is one of its resource.  When it is new, it is not
\* bound yet.
LEMMA GetSinkKeeps ==
  ASSUME NEW h, Ground(h), NEW w, Calls(h, w, 0), w.t.on, NEW r, NEW g, g = get_sink(h, w, r)
  PROVE  /\ g.slot = 0 => g.w = w
         /\ g.slot # 0 => /\ g.slot \in DOMAIN g.w.t.cells /\ g.w.t.cells[g.slot].kind = "sink" /\ g.w.t.cells[g.slot].rid = r
                          /\ Calls(h, g.w, 0) \/ Calls(h, g.w, g.slot)
         /\ Alike(w, g.w) /\ g.w.t.on /\ g.w.t.tid = w.t.tid /\ g.w.bad = w.bad /\ g.w \in Worlds
  <1>1. w \in Worlds /\ w.t.cells \in Seq(SomeCell)
    BY DEF Calls, Worlds, Tunnels
  <1> DEFINE mine == {i \in DOMAIN w.t.cells : w.t.cells[i].kind = "sink" /\ w.t.cells[i].rid = r}
  <1>2. CASE r \notin Knows[h]
    <2>1. g = [w |-> w, slot |-> 0]
      BY <1>2 DEF get_sink
    <2> QED
      BY <1>1, <2>1 DEF Alike
  <1>3. CASE r \in Knows[h] /\ mine # {}
    <2>1. g = [w |-> w, slot |-> CHOOSE i \in mine : TRUE]
      BY <1>3 DEF get_sink
    <2>2. g.w = w /\ g.slot \in mine
      BY <1>3, <2>1
    <2>3. g.slot \in DOMAIN w.t.cells /\ w.t.cells[g.slot].kind = "sink" /\ w.t.cells[g.slot].rid = r
      BY <2>2
    <2>4. g.slot # 0
      BY <1>1, <2>3
    <2> QED
      BY <1>1, <2>2, <2>3, <2>4 DEF Alike
  <1>4. CASE r \in Knows[h] /\ mine = {}
    <2> DEFINE v == [w EXCEPT !.t.cells = Append(@, Cell("sink", r))]
               i == Len(w.t.cells) + 1
    <2>1. g = [w |-> v, slot |-> i]
      BY <1>4 DEF get_sink
    <2>2. r \in Rids
      BY <1>4, TunnelAssumption DEF Ground
    <2>3. Calls(h, v, i) /\ CellAdded(w, i, Cell("sink", r), v)
      <3>1. "sink" \in {"source", "sink"} /\ ~("sink" = "source")
        OBVIOUS
      <3>2. i = IF "sink" = "sink" THEN i ELSE 0
        OBVIOUS
      <3> HIDE DEF v
      <3>3. v = [w EXCEPT !.t.cells = Append(@, Cell("sink", r))]
        BY DEF v
      <3> QED
        BY <2>2, <3>1, <3>2, <3>3, AddKeeps
    <2>4. i # 0
      BY <1>1
    <2>5. Cell("sink", r).kind = "sink" /\ Cell("sink", r).rid = r
      BY DEF Cell
    <2>6. g.w = v /\ g.slot = i
      BY <2>1
    <2> HIDE DEF v, i
    <2>7. g.slot \in DOMAIN g.w.t.cells /\ g.w.t.cells[g.slot].kind = "sink" /\ g.w.t.cells[g.slot].rid = r
      BY <2>3, <2>5, <2>6 DEF CellAdded
    <2>8. Alike(w, g.w) /\ g.w.t.on /\ g.w.t.tid = w.t.tid /\ g.w.bad = w.bad /\ g.w \in Worlds
      BY <2>3, <2>6 DEF CellAdded, Alike
    <2> QED
      BY <2>3, <2>4, <2>6, <2>7, <2>8
  <1> QED
    BY <1>2, <1>3, <1>4

\* The tunnel is opened to the tunnel id of the peer.
LEMMA RemoteKeeps ==
  ASSUME NEW h, Ground(h), NEW w, Calls(h, w, 0), w.t.on, NoBind(w.out), NEW id \in Nat \ {0},
         Steady(w.bad.before) => id < next[Other(h)], NEW v, v = set_remote(w, id)
  PROVE  /\ Calls(h, v, 0) /\ Alike(w, v) /\ v.t.on /\ v.t.tid = w.t.tid /\ v.t.cells = w.t.cells
         /\ w.bad.before \subseteq v.bad.before
  <1> DEFINE bound == w.t.open \/ \E i \in Sources(w.t) : w.t.cells[i].pid # 0
             replaced == bound /\ w.t.was \notin {0, id}
             n == IF replaced THEN Note(w, "replaced") ELSE w
             q == tun[Other(h)]
  <1>1. v = [n EXCEPT !.t.open = TRUE, !.t.pid = id, !.t.was = id]
    BY DEF set_remote
  <1>2. /\ Calls(h, n, 0) /\ n.t = w.t /\ Alike(w, n) /\ w.bad.before \subseteq n.bad.before
        /\ Steady(n.bad.before) => ~replaced
    <2>1. CASE replaced
      <3>1. n = Note(w, "replaced") /\ "replaced" \in Notes
        BY <2>1 DEF Notes
      <3> HIDE DEF n
      <3>2. Calls(h, n, 0) /\ Same(w, n) /\ n.t = w.t /\ n.bad.before = w.bad.before \union {"replaced"} /\ n.out = w.out
        BY <3>1, NoteKeeps
      <3> QED
        BY <3>2 DEF Steady, Same, Alike
    <2>2. CASE ~replaced
      BY <2>2 DEF Alike
    <2> QED
      BY <2>1, <2>2
  <1>3. Steady(n.bad.before) /\ IsBound(w.t) => w.t.was \in {0, id}
    BY <1>2 DEF IsBound
  <1> HIDE DEF n, replaced, bound
  <1>4. n \in Worlds /\ n.t \in Tunnels /\ n.next \in Nat /\ TunnelOK(h, n.t, n.next)
    BY <1>2 DEF Calls, Worlds
  <1>5. /\ v \in Worlds /\ v.t \in Tunnels /\ v.t.open = TRUE /\ v.t.pid = id /\ v.t.was = id /\ v.t.on = n.t.on
        /\ v.t.tid = n.t.tid /\ v.t.cells = n.t.cells
        /\ v.next = n.next /\ v.have = n.have /\ v.bad = n.bad /\ v.out = n.out /\ v.from = n.from
        /\ v.recent1 = n.recent1 /\ v.recent2 = n.recent2 /\ v.binds = n.binds
    <2> DEFINE t == [n.t EXCEPT !.open = TRUE, !.pid = id, !.was = id]
    <2>1. t \in Tunnels /\ t.open = TRUE /\ t.pid = id /\ t.was = id /\ t.on = n.t.on /\ t.tid = n.t.tid /\ t.cells = n.t.cells
      BY <1>4 DEF Tunnels
    <2>2. v = [n EXCEPT !.t = t]
      BY <1>1
    <2> HIDE DEF t
    <2> QED
      BY <1>4, <2>1, <2>2 DEF Worlds
  <1>6. Sources(v.t) = Sources(w.t) /\ Sources(n.t) = Sources(w.t)
    BY <1>2, <1>5 DEF Sources
  <1>7. Grown(n.t, v.t, n.next)
    BY <1>2, <1>5, <1>6 DEF Grown
  <1>8. TunnelOK(h, v.t, v.next)
    BY <1>2, <1>4, <1>5 DEF TunnelOK
  <1>9. SinksKnow(v.t, q, v.bad.before, 0)
    BY <1>2, <1>5 DEF Calls, SinksKnow
  <1>10. SourcesKnow(v.t, q, v.bad.before)
    <2> SUFFICES ASSUME Steady(v.bad.before), NEW i \in Sources(v.t), v.t.cells[i].pid # 0
                 PROVE  v.t.was # 0 /\ (v.t.was = q.tid => Taken(q, v.t.cells[i].pid, v.t.cells[i].rid, v.bad.before))
      BY DEF SourcesKnow
    <2>1. SourcesKnow(n.t, q, n.bad.before) /\ i \in Sources(n.t) /\ n.t.cells[i].pid # 0 /\ Steady(n.bad.before)
      BY <1>2, <1>5, <1>6 DEF Calls
    <2>2. n.t.was # 0 /\ (n.t.was = q.tid => Taken(q, n.t.cells[i].pid, n.t.cells[i].rid, n.bad.before))
      BY <2>1 DEF SourcesKnow
    <2>3. n.t.was = id
      BY <1>2, <1>3, <1>6, <2>1, <2>2 DEF IsBound
    <2> QED
      BY <1>5, <2>2, <2>3
  <1>11. Steady(v.bad.before) /\ IsBound(n.t) => IsBound(v.t) /\ v.t.was = n.t.was
    <2>1. SourcesKnow(n.t, q, n.bad.before)
      BY <1>2 DEF Calls
    <2> QED
      BY <1>2, <1>3, <1>5, <1>6, <2>1 DEF IsBound, SourcesKnow
  <1>12. Steady(v.bad.before) => v.t.was < next[Other(h)]
    BY <1>2, <1>5, Earlier
  <1>13. NoBind(n.out)
    BY <1>2 DEF Alike
  <1>14. n.next <= v.next /\ n.bad.before \subseteq v.bad.before /\ v.have \subseteq Wants[h] /\ Excused(v.bad)
    BY <1>2, <1>4, <1>5 DEF Calls
  <1>15. Calls(h, v, 0)
    BY <1>2, <1>5, <1>7, <1>8, <1>9, <1>10, <1>11, <1>12, <1>13, <1>14, Moves DEF q
  <1> QED
    BY <1>2, <1>5, <1>15 DEF Alike

\* The tunnel that is none.
LEMMA NoTunnelFacts ==
  /\ NoTunnel \in Tunnels /\ NoTunnel.on = FALSE /\ NoTunnel.tid = 0 /\ NoTunnel.pid = 0 /\ NoTunnel.was = 0
  /\ NoTunnel.open = FALSE /\ NoTunnel.cells = <<>>
  <1>1. <<>> \in Seq(SomeCell)
    OBVIOUS
  <1> QED
    BY <1>1 DEF NoTunnel, Tunnels

\* There is a tunnel, the one that there was or a new one.
LEMMA TunnelKeeps ==
  ASSUME NEW h, Ground(h), NEW w, Calls(h, w, 0), NEW v, v = get_tunnel(w)
  PROVE  Calls(h, v, 0) /\ v.t.on /\ Alike(w, v) /\ v.bad = w.bad /\ (w.t.on => v = w)
  <1>1. CASE w.t.on
    BY <1>1 DEF get_tunnel, Alike
  <1>2. CASE ~w.t.on
    <2>1. w \in Worlds /\ w.t = NoTunnel /\ w.next \in Nat \ {0} /\ w.out = <<>> /\ next[h] <= w.next
      BY <1>2 DEF Calls, Worlds, TunnelOK, Queued
    <2> DEFINE t == [NoTunnel EXCEPT !.on = TRUE, !.tid = w.next]
    <2>2. v = [w EXCEPT !.t = t, !.next = w.next + 1]
      BY <1>2 DEF get_tunnel
    <2>3. t \in Tunnels /\ t.on = TRUE /\ t.tid = w.next /\ t.pid = 0 /\ t.was = 0 /\ t.open = FALSE /\ t.cells = <<>>
      BY <2>1, NoTunnelFacts DEF Tunnels
    <2> HIDE DEF t
    <2>15. w.next + 1 \in Nat \ {0}
      BY <2>1
    <2>4. v \in Worlds /\ v.t = t /\ v.next = w.next + 1 /\ v.have = w.have /\ v.bad = w.bad /\ v.out = w.out /\ Alike(w, v)
      BY <2>1, <2>2, <2>3, <2>15 DEF Worlds, Alike
    <2>5. TunnelOK(h, v.t, v.next)
      <3>1. w.next < w.next + 1 /\ w.next # 0
        BY <2>1
      <3>2. DOMAIN v.t.cells = {}
        BY <2>3, <2>4
      <3>3. v.t.on = (v.t.tid # 0) /\ v.t.open = (v.t.pid # 0) /\ v.t.tid < v.next
        BY <2>3, <2>4, <3>1
      <3> QED
        BY <2>3, <2>4, <3>2, <3>3 DEF TunnelOK
    <2>6. Sources(tun[h]) = {}
      BY <2>1 DEF Calls, Grown, Sources, NoTunnel
    <2>7. Grown(tun[h], v.t, next[h])
      <3>1. tun[h].tid # v.t.tid /\ v.t.tid >= next[h]
        BY <2>1, <2>3, <2>4 DEF Ground, TunnelOK, Tunnels
      <3> QED
        BY <2>6, <3>1 DEF Grown
    <2>8. SinksKnow(v.t, tun[Other(h)], v.bad.before, 0) /\ SourcesKnow(v.t, tun[Other(h)], v.bad.before)
      BY <2>3, <2>4 DEF SinksKnow, SourcesKnow, Sources
    <2>9. Queued(v.out, v.t, tun[Other(h)], v.bad.before)
      BY <2>1, <2>4 DEF Queued
    <2>10. v.t.was < next[Other(h)] /\ next[h] <= v.next
      BY <2>1, <2>3, <2>4 DEF Ground
    <2> QED
      BY <1>2, <2>3, <2>4, <2>5, <2>7, <2>8, <2>9, <2>10 DEF Calls
  <1> QED
    BY <1>1, <1>2

-----------------------------------------------------------------------------
(* The listener *)

\* The world of a host that receives a packet.  The session that took a bind is a sink,
\* and the binds of the packet are for its resource, unless they are noted.
RecvOK(h, w) ==
  /\ Calls(h, w, 0) /\ NoBind(w.out) /\ w.from # 0
  /\ Steady(w.bad.before) => w.from < next[Other(h)]
  /\ w.recent1 => w.t.on
  /\ IsFiniteSet(w.binds)
  /\ w.recent2 # 0 =>
       /\ w.recent2 \in DOMAIN w.t.cells /\ w.t.cells[w.recent2].kind = "sink"
       /\ "shared" \notin w.bad.before => w.binds = {w.t.cells[w.recent2].rid}

\* A session that is given a message leaves the rest as it is.
LEMMA RecvSame ==
  ASSUME NEW h, NEW w, RecvOK(h, w), NEW v, Calls(h, v, 0), Same(w, v), Quiet(w, v)
  PROVE  RecvOK(h, v) /\ v.t.on = w.t.on /\ v.t.tid = w.t.tid /\ v.from = w.from /\ w.bad.before \subseteq v.bad.before
  <1>1. w.bad.before \subseteq v.bad.before /\ (Steady(v.bad.before) => Steady(w.bad.before))
    BY Earlier DEF Same
  <1>2. NoBind(v.out) /\ v.from # 0 /\ (v.recent1 => v.t.on) /\ IsFiniteSet(v.binds)
    BY DEF RecvOK, Same, Quiet
  <1>3. Steady(v.bad.before) => v.from < next[Other(h)]
    BY <1>1 DEF RecvOK, Same
  <1>4. v.recent2 # 0 =>
          /\ v.recent2 \in DOMAIN v.t.cells /\ v.t.cells[v.recent2].kind = "sink"
          /\ "shared" \notin v.bad.before => v.binds = {v.t.cells[v.recent2].rid}
    BY <1>1 DEF RecvOK, Same
  <1> QED
    BY <1>1, <1>2, <1>3, <1>4 DEF RecvOK, Same

\* A set of no more than one thing.
LEMMA OneThing ==
  ASSUME NEW S, IsFiniteSet(S), NEW r \in S, ~(Cardinality(S) > 1)
  PROVE  S = {r}
  <1>1. IsFiniteSet(S \ {r}) /\ Cardinality(S \ {r}) = Cardinality(S) - 1 /\ Cardinality(S) \in Nat
    BY FS_RemoveElement, FS_CardinalityType
  <1>2. Cardinality(S \ {r}) \in Nat
    BY <1>1, FS_CardinalityType
  <1>3. Cardinality(S \ {r}) = 0
    BY <1>1, <1>2
  <1>4. S \ {r} = {}
    BY <1>1, <1>3, FS_EmptySet
  <1> QED
    BY <1>4

\* What the listener notes for itself.
Given(w, s, B) == [w EXCEPT !.recent2 = s, !.binds = B]

\* Noting the session that a bind is given to, and the binds, changes nothing else.
LEMMA GivenKeeps ==
  ASSUME NEW h, NEW w, NEW x, Calls(h, w, x), NEW s \in Nat, NEW B \in SUBSET Rids,
         NEW v, v = Given(w, s, B)
  PROVE  /\ Calls(h, v, x) /\ v.t = w.t /\ v.out = w.out /\ v.bad = w.bad /\ v.from = w.from /\ v.recent1 = w.recent1
         /\ v.recent2 = s /\ v.binds = B
  <1>1. w \in Worlds
    BY DEF Calls
  <1>2. /\ v \in Worlds /\ v.t = w.t /\ v.next = w.next /\ v.have = w.have /\ v.bad = w.bad /\ v.out = w.out
        /\ v.from = w.from /\ v.recent1 = w.recent1 /\ v.recent2 = s /\ v.binds = B
    BY <1>1 DEF Worlds, Given
  <1> QED
    BY <1>2 DEF Calls

\* The request to connect, and its answer.
LEMMA ConnectKeeps ==
  ASSUME NEW h, Ground(h), NEW w, RecvOK(h, w), w.t.on, NEW id, id = w.from, NEW y, y = set_remote(w, id),
         NEW v, v = y \/ v = Push(y, 0, "ConnectOk", w.t.tid, 0)
  PROVE  RecvOK(h, v) /\ v.t.on /\ v.t.tid = w.t.tid /\ v.from = w.from /\ w.bad.before \subseteq v.bad.before
  <1>1. id \in Nat \ {0} /\ Calls(h, w, 0) /\ NoBind(w.out) /\ (Steady(w.bad.before) => id < next[Other(h)])
    BY DEF RecvOK, Calls, Worlds
  <1>2. /\ Calls(h, y, 0) /\ Alike(w, y) /\ y.t.on /\ y.t.tid = w.t.tid /\ y.t.cells = w.t.cells
        /\ w.bad.before \subseteq y.bad.before
    BY <1>1, RemoteKeeps
  <1>3. RecvOK(h, y)
    <2>1. Steady(y.bad.before) => Steady(w.bad.before)
      BY <1>2, Earlier
    <2> QED
      BY <1>2, <2>1 DEF RecvOK, Alike
  <1>4. CASE v = y
    BY <1>2, <1>3, <1>4 DEF Alike
  <1>5. CASE v = Push(y, 0, "ConnectOk", w.t.tid, 0)
    <2> DEFINE m == [sid |-> 0, type |-> "ConnectOk", arg |-> w.t.tid, rid |-> 0]
    <2>1. w.t.tid \in Nat \ {0}
      BY <1>1 DEF Calls, TunnelOK, Tunnels
    <2>2. m \in Message
      BY <2>1 DEF Message, ConnectMessage
    <2>3. m.type = "ConnectOk" /\ m.arg = w.t.tid
      OBVIOUS
    <2>4. m = [sid |-> 0, type |-> "ConnectOk", arg |-> w.t.tid, rid |-> 0]
      OBVIOUS
    <2> HIDE DEF m
    <2>5. SaidBy(m, y.t, y.t.tid, y.bad.before) /\ Outward(m, y.t, tun[Other(h)], y.bad.before)
      BY <1>2, <2>3 DEF SaidBy, Outward, Answers, Requests
    <2>6. Calls(h, v, 0) /\ Same(y, v) /\ Quiet(y, v)
      BY <1>2, <1>5, <2>2, <2>4, <2>5, PushKeeps
    <2>7. RecvOK(h, v) /\ v.t.on = y.t.on /\ v.t.tid = y.t.tid /\ v.from = y.from /\ y.bad.before \subseteq v.bad.before
      BY <1>3, <2>6, RecvSame
    <2> QED
      BY <1>2, <2>7 DEF Alike
  <1> QED
    BY <1>4, <1>5

\* What the listener knows of the sink that it gives a message to.
SinkFound(h, w, m, g, r) ==
  /\ g.recent2 \in DOMAIN g.t.cells /\ g.t.cells[g.recent2].kind = "sink" /\ g.t.cells[g.recent2].rid = r
  /\ Calls(h, g, 0) \/ (m.type = "Bind" /\ Calls(h, g, g.recent2))
  /\ "shared" \notin w.bad.before => r \in g.binds
  /\ m.type = "Bind" => m.rid \in g.binds

\* A message is given to a sink: the one of its resource, unless the binds are noted.
LEMMA GiveKeeps ==
  ASSUME NEW h, Ground(h), NEW w, RecvOK(h, w), NEW m \in Message, SaidBy(m, tun[Other(h)], w.from, w.bad.before),
         NEW g \in Worlds, NEW r, SinkFound(h, w, m, g, r),
         NoBind(g.out), g.from = w.from, g.recent1 = w.recent1, g.bad = w.bad, g.t.on, g.t.tid = w.t.tid, IsFiniteSet(g.binds),
         NEW told, told = IF Cardinality(g.binds) > 1 THEN Note(g, "shared") ELSE g,
         NEW v, v = Session_on_msg(told, g.recent2, m)
  PROVE  RecvOK(h, v) /\ v.t.on /\ v.t.tid = w.t.tid /\ v.from = w.from /\ w.bad.before \subseteq v.bad.before
  <1>1. PICK x : Calls(h, g, x) /\ (x = 0 \/ (x = g.recent2 /\ m.type = "Bind"))
    BY DEF SinkFound
  <1>2. /\ Calls(h, told, x) /\ Same(g, told) /\ Quiet(g, told) /\ told.t = g.t
        /\ "shared" \notin told.bad.before => ~(Cardinality(g.binds) > 1)
    <2>1. CASE Cardinality(g.binds) > 1
      <3>1. told = Note(g, "shared") /\ "shared" \in Notes
        BY <2>1 DEF Notes
      <3>2. Calls(h, told, x) /\ Same(g, told) /\ Quiet(g, told) /\ told.t = g.t /\ told.bad.before = g.bad.before \union {"shared"}
        BY <1>1, <3>1, NoteKeeps
      <3> QED
        BY <3>2
    <2>2. CASE ~(Cardinality(g.binds) > 1)
      BY <1>1, <2>2 DEF Same, Quiet
    <2> QED
      BY <2>1, <2>2
  <1>3. /\ told.from = w.from /\ told.recent1 = w.recent1 /\ told.recent2 = g.recent2 /\ told.binds = g.binds
        /\ w.bad.before \subseteq told.bad.before
    BY <1>2 DEF Same
  <1>4. "shared" \notin told.bad.before => g.binds = {r}
    <2> SUFFICES ASSUME "shared" \notin told.bad.before PROVE g.binds = {r}
      OBVIOUS
    <2>1. r \in g.binds /\ ~(Cardinality(g.binds) > 1)
      BY <1>2, <1>3 DEF SinkFound
    <2> QED
      BY <2>1, OneThing
  <1>5. SaidBy(m, tun[Other(h)], told.from, told.bad.before)
    BY <1>3, Earlier DEF SaidBy, Taken
  <1> DEFINE i == g.recent2
  <1>6. i \in DOMAIN told.t.cells /\ told.t.cells[i].kind = "sink" /\ told.t.cells[i].rid = r
    BY <1>2 DEF SinkFound
  <1>7. told.from # 0
    BY <1>3 DEF RecvOK
  <1>8. m.type = "Bind" /\ "shared" \notin told.bad.before => m.rid = r
    BY <1>4 DEF SinkFound
  <1>9. i \notin Sources(told.t)
    BY <1>6 DEF Sources
  <1> HIDE DEF i
  <1>10. x = 0 \/ (x = i /\ m.type = "Bind")
    BY <1>1 DEF i
  <1>11. v = Session_on_msg(told, i, m)
    BY DEF i
  <1>12. Calls(h, v, 0) /\ Same(told, v) /\ Quiet(told, v)
    BY <1>2, <1>5, <1>6, <1>7, <1>8, <1>9, <1>10, <1>11, SessionMsgKeeps
  <1>13. Steady(v.bad.before) => Steady(w.bad.before)
    BY <1>3, <1>12, Earlier DEF Same
  <1>14. v.recent2 = i /\ v.binds = g.binds /\ v.from = w.from /\ v.recent1 = w.recent1 /\ v.t.on /\ v.t.tid = w.t.tid
         /\ w.bad.before \subseteq v.bad.before
    BY <1>2, <1>3, <1>12 DEF Same, i
  <1>15. NoBind(v.out)
    BY <1>2, <1>12 DEF Quiet
  <1>16. i \in DOMAIN v.t.cells /\ v.t.cells[i].kind = "sink" /\ v.t.cells[i].rid = r
         /\ ("shared" \notin v.bad.before => "shared" \notin told.bad.before)
    BY <1>6, <1>12 DEF Same
  <1>17. RecvOK(h, v)
    BY <1>4, <1>12, <1>13, <1>14, <1>15, <1>16 DEF RecvOK
  <1> QED
    BY <1>14, <1>17

\* A message for the listener.
LEMMA ListenerKeeps ==
  ASSUME NEW h, Ground(h), NEW w, RecvOK(h, w), w.t.on, NEW m \in Message,
         SaidBy(m, tun[Other(h)], w.from, w.bad.before), NEW v, v = Listener_on_msg(h, w, m)
  PROVE  RecvOK(h, v) /\ v.t.on /\ v.t.tid = w.t.tid /\ v.from = w.from /\ w.bad.before \subseteq v.bad.before
  <1> DEFINE asks  == w.recent2 = 0 /\ m.type = "Bind"
             found == IF asks THEN get_sink(h, w, m.rid) ELSE [w |-> w, slot |-> w.recent2]
             B     == IF m.type = "Bind" THEN found.w.binds \union {m.rid} ELSE found.w.binds
             given == [found.w EXCEPT !.recent2 = found.slot, !.binds = B]
             told  == IF Cardinality(given.binds) > 1 THEN Note(given, "shared") ELSE given
  <1>0. Calls(h, w, 0) /\ w \in Worlds /\ w.recent2 \in Nat /\ w.binds \subseteq Rids /\ IsFiniteSet(w.binds)
    BY DEF RecvOK, Calls, Worlds
  <1>1. CASE m.type \in {"Connect", "ConnectOk"}
    <2> DEFINE y == set_remote(w, m.arg)
    <2>1. v = y \/ v = Push(y, 0, "ConnectOk", w.t.tid, 0)
      BY <1>1 DEF Listener_on_msg
    <2>2. m.arg = w.from
      BY <1>1 DEF SaidBy
    <2> HIDE DEF y
    <2>3. y = set_remote(w, m.arg)
      BY DEF y
    <2> QED
      BY <2>1, <2>2, <2>3, ConnectKeeps
  <1>2. CASE m.type \notin {"Connect", "ConnectOk"}
    <2>1. /\ Alike(w, found.w) /\ found.w.t.on /\ found.w.t.tid = w.t.tid /\ found.w.bad = w.bad
          /\ found.slot = 0 => found.w = w
          /\ found.slot # 0 =>
               /\ found.slot \in DOMAIN found.w.t.cells /\ found.w.t.cells[found.slot].kind = "sink"
               /\ Calls(h, found.w, 0) \/ (m.type = "Bind" /\ Calls(h, found.w, found.slot))
               /\ asks => found.w.t.cells[found.slot].rid = m.rid
               /\ ~asks /\ "shared" \notin w.bad.before => w.binds = {found.w.t.cells[found.slot].rid}
      <3>1. CASE asks
        <4>1. found = get_sink(h, w, m.rid)
          BY <3>1
        <4> HIDE DEF found
        <4> QED
          BY <1>0, <3>1, <4>1, GetSinkKeeps
      <3>2. CASE ~asks
        <4>1. found.w = w /\ found.slot = w.recent2
          BY <3>2
        <4> HIDE DEF found
        <4> QED
          BY <1>0, <3>2, <4>1 DEF RecvOK, Alike
      <3> QED
        BY <3>1, <3>2
    <2>2. B \in SUBSET Rids /\ IsFiniteSet(B) /\ (m.type = "Bind" => m.rid \in B) /\ w.binds \subseteq B
      <3>0. found.w.binds = w.binds
        BY <2>1 DEF Alike
      <3> HIDE DEF found
      <3>1. m.rid \in Rids
        BY <1>2, MessageFacts
      <3>2. IsFiniteSet(w.binds \union {m.rid})
        BY <1>0, FS_AddElement
      <3> QED
        BY <1>0, <3>0, <3>1, <3>2
    <2>3. v = IF found.slot = 0 THEN given ELSE Session_on_msg(told, found.slot, m)
      BY <1>2 DEF Listener_on_msg
    <2>4. asks => m.type = "Bind"
      OBVIOUS
    <2>5. given = Given(found.w, found.slot, B)
      BY DEF Given
    <2>6. told = IF Cardinality(given.binds) > 1 THEN Note(given, "shared") ELSE given
      OBVIOUS
    <2> HIDE DEF asks, found, B, told, given
    <2>7. CASE found.slot = 0
      <3>1. given = Given(w, 0, B) /\ v = given
        BY <2>1, <2>3, <2>5, <2>7
      <3>2. /\ Calls(h, v, 0) /\ v.t = w.t /\ v.out = w.out /\ v.bad = w.bad /\ v.from = w.from /\ v.recent1 = w.recent1
            /\ v.recent2 = 0 /\ v.binds = B
        BY <1>0, <2>2, <3>1, GivenKeeps
      <3> QED
        BY <2>2, <3>2 DEF RecvOK
    <2>8. CASE found.slot # 0
      <3> DEFINE x == IF Calls(h, found.w, 0) THEN 0 ELSE found.slot
                 r == found.w.t.cells[found.slot].rid
      <3>1. Calls(h, found.w, x) /\ (x # 0 => x = found.slot /\ m.type = "Bind")
        BY <2>1, <2>8
      <3>2. found.slot \in Nat
        <4>1. found.w.t.cells \in Seq(SomeCell)
          BY <3>1 DEF Calls, Worlds, Tunnels
        <4> QED
          BY <2>1, <2>8, <4>1
      <3>3. /\ Calls(h, given, x) /\ given.t = found.w.t /\ given.out = found.w.out /\ given.bad = found.w.bad
            /\ given.from = found.w.from /\ given.recent1 = found.w.recent1
            /\ given.recent2 = found.slot /\ given.binds = B
        BY <2>2, <2>5, <3>1, <3>2, GivenKeeps
      <3>4. "shared" \notin w.bad.before => r \in B
        BY <2>1, <2>2, <2>4, <2>8
      <3>5. r = found.w.t.cells[found.slot].rid
        OBVIOUS
      <3> HIDE DEF x, r
      <3>6. SinkFound(h, w, m, given, r)
        BY <2>1, <2>2, <2>8, <3>1, <3>3, <3>4, <3>5 DEF SinkFound
      <3>7. given \in Worlds
        BY <3>3 DEF Calls
      <3>8. /\ NoBind(given.out) /\ given.from = w.from /\ given.recent1 = w.recent1 /\ given.bad = w.bad
            /\ given.t.on /\ given.t.tid = w.t.tid /\ IsFiniteSet(given.binds)
        BY <2>1, <2>2, <3>3 DEF Alike, RecvOK
      <3>9. v = Session_on_msg(told, given.recent2, m)
        BY <2>3, <2>8, <3>3
      <3> QED
        BY <2>6, <3>6, <3>7, <3>8, <3>9, GiveKeeps
    <2> QED
      BY <2>7, <2>8
  <1> QED
    BY <1>1, <1>2

-----------------------------------------------------------------------------
(* Folds *)

\* A set of naturals has a least member, by induction on the numbers below one.
LEMMA Smallest ==
  ASSUME NEW T, T \subseteq Nat, T # {}
  PROVE  \E x \in T : \A y \in T : x <= y
  <1>1. PICK x \in T : \A y \in T : ~ (<<y, x>> \in OpToRel(<, Nat))
    BY NatLessThanWellFounded, WFMin
  <1>2. \A y \in T : ~ (y < x)
    BY <1>1 DEF OpToRel
  <1> QED
    BY <1>2

\* What holds of 0, and of each number up to m if of the one before it, holds of m.
LEMMA Climbs ==
  ASSUME NEW m \in Nat, NEW T, 0 \in T, \A i \in 1 .. m : i - 1 \in T => i \in T
  PROVE  \A i \in 0 .. m : i \in T
  <1> DEFINE Bad == {k \in Nat : k <= m /\ k \notin T}
  <1> SUFFICES ASSUME Bad # {} PROVE FALSE
    OBVIOUS
  <1>1. PICK k \in Bad : \A j \in Bad : k <= j
    <2>1. Bad \subseteq Nat
      OBVIOUS
    <2> HIDE DEF Bad
    <2> QED
      BY <2>1, Smallest
  <1>2. k \in Nat /\ k <= m /\ k \notin T /\ k # 0
    OBVIOUS
  <1>3. k - 1 \in Nat /\ k - 1 <= m /\ ~(k <= k - 1) /\ k \in 1 .. m
    BY <1>2
  <1>4. k - 1 \in T
    BY <1>1, <1>3
  <1> QED
    BY <1>2, <1>3, <1>4

\* The last of the numbers up to i, and of a set of them.
LEMMA MaxFacts ==
  /\ \A n \in Nat \ {0} : Max(1 .. n) = n
  /\ \A n \in Nat : \A s \in SUBSET (1 .. n) : n \in s => Max(s) = n
  <1>1. ASSUME NEW n \in Nat, NEW s \in SUBSET (1 .. n), n \in s
        PROVE  Max(s) = n
    <2>1. \A y \in s : n >= y
      OBVIOUS
    <2>2. \E x \in s : \A y \in s : x >= y
      BY <1>1, <2>1
    <2>3. Max(s) \in s /\ \A y \in s : Max(s) >= y
      BY <2>2 DEF Max
    <2>4. \A x \in s : x >= n /\ n >= x => x = n
      OBVIOUS
    <2>5. Max(s) >= n /\ n >= Max(s)
      BY <1>1, <2>1, <2>3, Zenon
    <2> QED
      BY <2>3, <2>4, <2>5, Zenon
  <1>2. \A n \in Nat \ {0} : Max(1 .. n) = n
    <2> SUFFICES ASSUME NEW n \in Nat \ {0} PROVE Max(1 .. n) = n
      OBVIOUS
    <2>1. n \in 1 .. n /\ 1 .. n \in SUBSET (1 .. n)
      OBVIOUS
    <2> QED
      BY <1>1, <2>1
  <1> QED
    BY <1>1, <1>2

\* A set of numbers up to n that is not empty has a greatest.
LEMMA MaxOfSome ==
  ASSUME NEW n \in Nat, NEW s \in SUBSET (1 .. n), s # {}
  PROVE  Max(s) \in s /\ \A y \in s : Max(s) >= y
  <1> DEFINE U == {k \in Nat : n - k \in s}
  <1>1. U \subseteq Nat /\ U # {}
    <2>1. PICK y \in s : TRUE
      OBVIOUS
    <2>2. n - y \in Nat /\ n - (n - y) = y
      OBVIOUS
    <2> QED
      BY <2>2
  <1>2. PICK k \in U : \A j \in U : k <= j
    <2> HIDE DEF U
    <2> QED
      BY <1>1, Smallest
  <1>3. \A y \in s : n - k >= y
    <2> SUFFICES ASSUME NEW y \in s PROVE n - k >= y
      OBVIOUS
    <2>1. n - y \in Nat /\ n - (n - y) = y /\ y \in Nat
      OBVIOUS
    <2>2. k <= n - y
      BY <1>2, <2>1
    <2> QED
      BY <2>1, <2>2
  <1>4. \E x \in s : \A y \in s : x >= y
    BY <1>2, <1>3
  <1> QED
    BY <1>4 DEF Max

\* g folds the members of each set of numbers up to m with step, the greatest last.
Folded(g, b, m, step) ==
  g = [s \in SUBSET (1 .. m) |-> IF s = {} THEN b ELSE step[<<g[s \ {Max(s)}], Max(s)>>]]

\* A fold over the sets of the numbers up to m, by their greatest: there is such a function,
\* as each is made for the sets of the numbers up to n from one for those up to n - 1.
LEMMA FoldExists ==
  ASSUME NEW W, NEW b \in W, NEW m \in Nat, NEW step \in [W \X (1 .. m) -> W]
  PROVE  \E g \in [SUBSET (1 .. m) -> W] : Folded(g, b, m, step)
  <1> DEFINE Folds(g, n) == \A s \in SUBSET (1 .. n) :
               g[s] = IF s = {} THEN b ELSE step[<<g[s \ {Max(s)}], Max(s)>>]
             T == {n \in 0 .. m : \E g \in [SUBSET (1 .. m) -> W] : Folds(g, n)}
  <1>1. 0 \in T
    <2> DEFINE g == [s \in SUBSET (1 .. m) |-> b]
    <2>1. g \in [SUBSET (1 .. m) -> W]
      OBVIOUS
    <2>2. \A s \in SUBSET (1 .. 0) : s = {} /\ s \in SUBSET (1 .. m)
      OBVIOUS
    <2>3. Folds(g, 0)
      BY <2>2
    <2> HIDE DEF g, Folds
    <2> QED
      BY <2>1, <2>3
  <1>2. ASSUME NEW n \in 1 .. m, n - 1 \in T PROVE n \in T
    <2> HIDE DEF Folds
    <2>1. PICK f \in [SUBSET (1 .. m) -> W] : Folds(f, n - 1)
      BY <1>2
    <2> DEFINE g == [s \in SUBSET (1 .. m) |-> IF n \in s THEN step[<<f[s \ {n}], n>>] ELSE f[s]]
    <2>2. g \in [SUBSET (1 .. m) -> W]
      <3> SUFFICES ASSUME NEW s \in SUBSET (1 .. m) PROVE (IF n \in s THEN step[<<f[s \ {n}], n>>] ELSE f[s]) \in W
        OBVIOUS
      <3>1. s \ {n} \in SUBSET (1 .. m) /\ n \in 1 .. m
        OBVIOUS
      <3>2. f[s \ {n}] \in W /\ f[s] \in W
        BY <2>1, <3>1
      <3>3. <<f[s \ {n}], n>> \in W \X (1 .. m)
        BY <3>1, <3>2
      <3> QED
        BY <3>2, <3>3
    <2>3. ASSUME NEW s \in SUBSET (1 .. n)
          PROVE  g[s] = IF s = {} THEN b ELSE step[<<g[s \ {Max(s)}], Max(s)>>]
      <3>1. s \in SUBSET (1 .. m) /\ n \in Nat
        OBVIOUS
      <3>2. CASE n \in s
        <4>1. Max(s) = n
          BY <3>1, <3>2, MaxFacts
        <4>2. s \ {n} \in SUBSET (1 .. m) /\ n \notin s \ {n} /\ s # {}
          BY <3>1, <3>2
        <4>3. g[s \ {n}] = f[s \ {n}]
          BY <4>2
        <4>4. g[s] = step[<<f[s \ {n}], n>>]
          BY <3>1, <3>2
        <4> QED
          BY <4>1, <4>2, <4>3, <4>4
      <3>3. CASE n \notin s
        <4>1. s \in SUBSET (1 .. n - 1)
          BY <3>1, <3>3
        <4>2. g[s] = f[s]
          BY <3>1, <3>3
        <4>3. f[s] = IF s = {} THEN b ELSE step[<<f[s \ {Max(s)}], Max(s)>>]
          BY <2>1, <4>1 DEF Folds
        <4>4. s \ {Max(s)} \in SUBSET (1 .. m) /\ n \notin s \ {Max(s)}
          BY <3>1, <3>3
        <4>5. g[s \ {Max(s)}] = f[s \ {Max(s)}]
          BY <4>4
        <4> QED
          BY <4>2, <4>3, <4>5
      <3> QED
        BY <3>2, <3>3
    <2> HIDE DEF g
    <2>4. Folds(g, n)
      BY <2>3 DEF Folds
    <2>5. n \in 0 .. m
      OBVIOUS
    <2> QED
      BY <2>2, <2>4, <2>5
  <1>3. m \in T
    <2> HIDE DEF T
    <2>1. \A i \in 0 .. m : i \in T
      BY <1>1, <1>2, Climbs
    <2> QED
      BY <2>1
  <1>4. PICK g \in [SUBSET (1 .. m) -> W] : Folds(g, m)
    <2> HIDE DEF Folds
    <2> QED
      BY <1>3
  <1>5. g = [s \in SUBSET (1 .. m) |-> IF s = {} THEN b ELSE step[<<g[s \ {Max(s)}], Max(s)>>]]
    BY <1>4
  <1> QED
    BY <1>5 DEF Folded

\* The numbers up to i, without their greatest.
LEMMA UpTo ==
  ASSUME NEW m \in Nat, NEW i \in 1 .. m
  PROVE  /\ 1 .. i \in SUBSET (1 .. m) /\ 1 .. i # {}
         /\ Max(1 .. i) = i /\ (1 .. i) \ {i} = 1 .. i - 1
  <1>1. i \in Nat \ {0}
    OBVIOUS
  <1>2. Max(1 .. i) = i
    BY <1>1, MaxFacts
  <1>3. 1 .. i \in SUBSET (1 .. m) /\ 1 .. i # {} /\ (1 .. i) \ {i} = 1 .. i - 1
    OBVIOUS
  <1> QED
    BY <1>2, <1>3

\* The messages q of a packet for tunnel 0 are received.
AllUnconnected(h, w, q) == FoldLeft(LAMBDA v, x : Unconnected(h, v, x), w, q)

\* What each message of a packet for tunnel 0 keeps, the packet does.
LEMMA FoldOfUnconnected ==
  ASSUME NEW h, NEW q \in Seq(Message), NEW W, NEW b \in W,
         \A v \in W : \A k \in DOMAIN q : Unconnected(h, v, q[k]) \in W
  PROVE  AllUnconnected(h, b, q) \in W
  <1> DEFINE m == Len(q)
             step == [a \in W \X (1 .. m) |-> Unconnected(h, a[1], q[a[2]])]
             Body(f) == [s \in SUBSET DOMAIN q |-> IF s = {} THEN b
                       ELSE Unconnected(h, f[s \ {Max(s)}], q[Max(s)])]
             Made(f) == [s \in SUBSET (1 .. m) |-> IF s = {} THEN b ELSE step[<<f[s \ {Max(s)}], Max(s)>>]]
  <1>1. m \in Nat /\ DOMAIN q = 1 .. m /\ \A v \in W : \A k \in 1 .. m : Unconnected(h, v, q[k]) \in W
    OBVIOUS
  <1>2. step \in [W \X (1 .. m) -> W]
    BY <1>1
  <1>3. ASSUME NEW v \in W, NEW k \in 1 .. m PROVE step[<<v, k>>] = Unconnected(h, v, q[k])
    OBVIOUS
  <1>4. FoldLeft(LAMBDA v, x : Unconnected(h, v, x), b, q) = (CHOOSE f : f = Body(f))[DOMAIN q]
    BY DEF FoldLeft, MapThenFoldSet
  <1> HIDE DEF m, step
  <1>5. ASSUME NEW f \in [SUBSET (1 .. m) -> W] PROVE Made(f) = Body(f)
    <2> SUFFICES ASSUME NEW s \in SUBSET (1 .. m), s # {}
                 PROVE  step[<<f[s \ {Max(s)}], Max(s)>>] = Unconnected(h, f[s \ {Max(s)}], q[Max(s)])
      BY <1>1
    <2>1. Max(s) \in s
      BY <1>1, MaxOfSome
    <2>2. s \ {Max(s)} \in SUBSET (1 .. m)
      OBVIOUS
    <2>3. f[s \ {Max(s)}] \in W
      BY <2>2
    <2>4. Max(s) \in 1 .. m
      BY <2>1
    <2> QED
      BY <1>3, <2>3, <2>4
  <1>6. PICK g \in [SUBSET (1 .. m) -> W] : g = Made(g)
    <2>1. m \in Nat
      BY <1>1
    <2>2. \E g \in [SUBSET (1 .. m) -> W] : Folded(g, b, m, step)
      BY <1>2, <2>1, FoldExists
    <2> QED
      BY <2>2 DEF Folded
  <1> DEFINE c == CHOOSE f : f = Body(f)
  <1>7. c = Body(c)
    <2>1. g = Body(g)
      BY <1>5, <1>6
    <2> HIDE DEF Body
    <2> QED
      BY <2>1
  <1> HIDE DEF c
  <1>8. \A s \in SUBSET (1 .. m) : c[s] = IF s = {} THEN b ELSE Unconnected(h, c[s \ {Max(s)}], q[Max(s)])
    BY <1>1, <1>7, Zenon
  <1> DEFINE T == {k \in 0 .. m : c[1 .. k] \in W}
  <1>9. 0 \in T
    <2>1. 1 .. 0 = {} /\ {} \in SUBSET (1 .. m) /\ 0 \in 0 .. m
      BY <1>1
    <2>2. c[{}] = b
      BY <1>8, <2>1
    <2> QED
      BY <2>1, <2>2
  <1>10. ASSUME NEW k \in 1 .. m, k - 1 \in T PROVE k \in T
    <2>1. 1 .. k \in SUBSET (1 .. m) /\ 1 .. k # {} /\ Max(1 .. k) = k /\ (1 .. k) \ {k} = 1 .. k - 1
      BY <1>1, UpTo
    <2>2. c[1 .. k] = Unconnected(h, c[(1 .. k) \ {Max(1 .. k)}], q[Max(1 .. k)])
      BY <1>8, <2>1
    <2>3. c[1 .. k - 1] \in W
      BY <1>10
    <2>4. c[1 .. k] = Unconnected(h, c[1 .. k - 1], q[k])
      BY <2>1, <2>2
    <2>5. c[1 .. k] \in W
      BY <1>1, <2>3, <2>4
    <2>6. k \in 0 .. m
      OBVIOUS
    <2> QED
      BY <2>5, <2>6
  <1>11. m \in T
    <2> HIDE DEF T
    <2>1. \A k \in 0 .. m : k \in T
      BY <1>1, <1>9, <1>10, Climbs
    <2>2. m \in 0 .. m
      BY <1>1
    <2> QED
      BY <2>1, <2>2
  <1>12. c[1 .. m] \in W
    BY <1>11
  <1>13. FoldLeft(LAMBDA v, x : Unconnected(h, v, x), b, q) = c[1 .. m]
    BY <1>1, <1>4, Zenon DEF c
  <1> QED
    BY <1>12, <1>13, Zenon DEF AllUnconnected

\* The messages q of a packet for the tunnel are received.
AllConnected(h, w, q) == FoldLeft(LAMBDA v, x : Connected(h, v, x), w, q)

\* What each message of a packet for the tunnel keeps, the packet does.
LEMMA FoldOfConnected ==
  ASSUME NEW h, NEW q \in Seq(Message), NEW W, NEW b \in W,
         \A v \in W : \A k \in DOMAIN q : Connected(h, v, q[k]) \in W
  PROVE  AllConnected(h, b, q) \in W
  <1> DEFINE m == Len(q)
             step == [a \in W \X (1 .. m) |-> Connected(h, a[1], q[a[2]])]
             Body(f) == [s \in SUBSET DOMAIN q |-> IF s = {} THEN b ELSE Connected(h, f[s \ {Max(s)}], q[Max(s)])]
             Made(f) == [s \in SUBSET (1 .. m) |-> IF s = {} THEN b ELSE step[<<f[s \ {Max(s)}], Max(s)>>]]
  <1>1. m \in Nat /\ DOMAIN q = 1 .. m /\ \A v \in W : \A k \in 1 .. m : Connected(h, v, q[k]) \in W
    OBVIOUS
  <1>2. step \in [W \X (1 .. m) -> W]
    BY <1>1
  <1>3. ASSUME NEW v \in W, NEW k \in 1 .. m PROVE step[<<v, k>>] = Connected(h, v, q[k])
    OBVIOUS
  <1>4. FoldLeft(LAMBDA v, x : Connected(h, v, x), b, q) = (CHOOSE f : f = Body(f))[DOMAIN q]
    BY DEF FoldLeft, MapThenFoldSet
  <1> HIDE DEF m, step
  <1>5. ASSUME NEW f \in [SUBSET (1 .. m) -> W] PROVE Made(f) = Body(f)
    <2> SUFFICES ASSUME NEW s \in SUBSET (1 .. m), s # {}
                 PROVE  step[<<f[s \ {Max(s)}], Max(s)>>] = Connected(h, f[s \ {Max(s)}], q[Max(s)])
      BY <1>1
    <2>1. Max(s) \in s
      BY <1>1, MaxOfSome
    <2>2. s \ {Max(s)} \in SUBSET (1 .. m)
      OBVIOUS
    <2>3. f[s \ {Max(s)}] \in W
      BY <2>2
    <2>4. Max(s) \in 1 .. m
      BY <2>1
    <2> QED
      BY <1>3, <2>3, <2>4
  <1>6. PICK g \in [SUBSET (1 .. m) -> W] : g = Made(g)
    <2>1. m \in Nat
      BY <1>1
    <2>2. \E g \in [SUBSET (1 .. m) -> W] : Folded(g, b, m, step)
      BY <1>2, <2>1, FoldExists
    <2> QED
      BY <2>2 DEF Folded
  <1> DEFINE c == CHOOSE f : f = Body(f)
  <1>7. c = Body(c)
    <2>1. g = Body(g)
      BY <1>5, <1>6
    <2> HIDE DEF Body
    <2> QED
      BY <2>1
  <1> HIDE DEF c
  <1>8. \A s \in SUBSET (1 .. m) : c[s] = IF s = {} THEN b ELSE Connected(h, c[s \ {Max(s)}], q[Max(s)])
    BY <1>1, <1>7, Zenon
  <1> DEFINE T == {k \in 0 .. m : c[1 .. k] \in W}
  <1>9. 0 \in T
    <2>1. 1 .. 0 = {} /\ {} \in SUBSET (1 .. m) /\ 0 \in 0 .. m
      BY <1>1
    <2>2. c[{}] = b
      BY <1>8, <2>1
    <2> QED
      BY <2>1, <2>2
  <1>10. ASSUME NEW k \in 1 .. m, k - 1 \in T PROVE k \in T
    <2>1. 1 .. k \in SUBSET (1 .. m) /\ 1 .. k # {} /\ Max(1 .. k) = k /\ (1 .. k) \ {k} = 1 .. k - 1
      BY <1>1, UpTo
    <2>2. c[1 .. k] = Connected(h, c[(1 .. k) \ {Max(1 .. k)}], q[Max(1 .. k)])
      BY <1>8, <2>1
    <2>3. c[1 .. k - 1] \in W
      BY <1>10
    <2>4. c[1 .. k] = Connected(h, c[1 .. k - 1], q[k])
      BY <2>1, <2>2
    <2>5. c[1 .. k] \in W
      BY <1>1, <2>3, <2>4
    <2>6. k \in 0 .. m
      OBVIOUS
    <2> QED
      BY <2>5, <2>6
  <1>11. m \in T
    <2> HIDE DEF T
    <2>1. \A k \in 0 .. m : k \in T
      BY <1>1, <1>9, <1>10, Climbs
    <2>2. m \in 0 .. m
      BY <1>1
    <2> QED
      BY <2>1, <2>2
  <1>12. c[1 .. m] \in W
    BY <1>11
  <1>13. FoldLeft(LAMBDA v, x : Connected(h, v, x), b, q) = c[1 .. m]
    BY <1>1, <1>4, Zenon DEF c
  <1> QED
    BY <1>12, <1>13, Zenon DEF AllConnected

\* The sources in the slots are opened, one after the other.
AllOpened(w, slots, d) == FoldLeft(LAMBDA v, i : IF i \in slots THEN P2pSource_open(v, i) ELSE v, w, d)

\* What each source that is opened keeps, all do.
LEMMA FoldOfAllOpened ==
  ASSUME NEW slots, NEW cells \in Seq(SomeCell), NEW d, d = [i \in DOMAIN cells |-> i], NEW W, NEW b \in W,
         \A v \in W : \A i \in slots : P2pSource_open(v, i) \in W
  PROVE  AllOpened(b, slots, d) \in W
  <1> DEFINE m == Len(cells)
             step == [a \in W \X (1 .. m) |-> (IF d[a[2]] \in slots THEN P2pSource_open(a[1], d[a[2]]) ELSE a[1])]
             Body(f) == [s \in SUBSET DOMAIN d |-> IF s = {} THEN b
                       ELSE (IF d[Max(s)] \in slots THEN P2pSource_open(f[s \ {Max(s)}], d[Max(s)])
                           ELSE f[s \ {Max(s)}])]
             Made(f) == [s \in SUBSET (1 .. m) |-> IF s = {} THEN b ELSE step[<<f[s \ {Max(s)}], Max(s)>>]]
  <1>1. m \in Nat /\ DOMAIN d = 1 .. m /\ \A v \in W : \A k \in 1 .. m : (IF d[k] \in slots THEN P2pSource_open(v, d[k])
            ELSE v) \in W
    OBVIOUS
  <1>2. step \in [W \X (1 .. m) -> W]
    BY <1>1
  <1>3. ASSUME NEW v \in W, NEW k \in 1 .. m PROVE step[<<v, k>>]
            = (IF d[k] \in slots THEN P2pSource_open(v, d[k]) ELSE v)
    OBVIOUS
  <1>4. FoldLeft(LAMBDA v, i : IF i \in slots THEN P2pSource_open(v, i) ELSE v, b, d)
            = (CHOOSE f : f = Body(f))[DOMAIN d]
    BY DEF FoldLeft, MapThenFoldSet
  <1> HIDE DEF m, step
  <1>5. ASSUME NEW f \in [SUBSET (1 .. m) -> W] PROVE Made(f) = Body(f)
    <2> SUFFICES ASSUME NEW s \in SUBSET (1 .. m), s # {}
                 PROVE  step[<<f[s \ {Max(s)}], Max(s)>>]
                           = (IF d[Max(s)] \in slots THEN P2pSource_open(f[s \ {Max(s)}], d[Max(s)])
                               ELSE f[s \ {Max(s)}])
      BY <1>1
    <2>1. Max(s) \in s
      BY <1>1, MaxOfSome
    <2>2. s \ {Max(s)} \in SUBSET (1 .. m)
      OBVIOUS
    <2>3. f[s \ {Max(s)}] \in W
      BY <2>2
    <2>4. Max(s) \in 1 .. m
      BY <2>1
    <2> QED
      BY <1>3, <2>3, <2>4
  <1>6. PICK g \in [SUBSET (1 .. m) -> W] : g = Made(g)
    <2>1. m \in Nat
      BY <1>1
    <2>2. \E g \in [SUBSET (1 .. m) -> W] : Folded(g, b, m, step)
      BY <1>2, <2>1, FoldExists
    <2> QED
      BY <2>2 DEF Folded
  <1> DEFINE c == CHOOSE f : f = Body(f)
  <1>7. c = Body(c)
    <2>1. g = Body(g)
      BY <1>5, <1>6
    <2> HIDE DEF Body
    <2> QED
      BY <2>1
  <1> HIDE DEF c
  <1>8. \A s \in SUBSET (1 .. m) : c[s] = IF s = {} THEN b
            ELSE (IF d[Max(s)] \in slots THEN P2pSource_open(c[s \ {Max(s)}], d[Max(s)]) ELSE c[s \ {Max(s)}])
    BY <1>1, <1>7, Zenon
  <1> DEFINE T == {k \in 0 .. m : c[1 .. k] \in W}
  <1>9. 0 \in T
    <2>1. 1 .. 0 = {} /\ {} \in SUBSET (1 .. m) /\ 0 \in 0 .. m
      BY <1>1
    <2>2. c[{}] = b
      BY <1>8, <2>1
    <2> QED
      BY <2>1, <2>2
  <1>10. ASSUME NEW k \in 1 .. m, k - 1 \in T PROVE k \in T
    <2>1. 1 .. k \in SUBSET (1 .. m) /\ 1 .. k # {} /\ Max(1 .. k) = k /\ (1 .. k) \ {k} = 1 .. k - 1
      BY <1>1, UpTo
    <2>2. c[1 .. k] = (IF d[Max(1 .. k)] \in slots THEN P2pSource_open(c[(1 .. k) \ {Max(1 .. k)}], d[Max(1 .. k)])
              ELSE c[(1 .. k) \ {Max(1 .. k)}])
      BY <1>8, <2>1
    <2>3. c[1 .. k - 1] \in W
      BY <1>10
    <2>4. c[1 .. k] = (IF d[k] \in slots THEN P2pSource_open(c[1 .. k - 1], d[k]) ELSE c[1 .. k - 1])
      BY <2>1, <2>2
    <2>5. c[1 .. k] \in W
      BY <1>1, <2>3, <2>4
    <2>6. k \in 0 .. m
      OBVIOUS
    <2> QED
      BY <2>5, <2>6
  <1>11. m \in T
    <2> HIDE DEF T
    <2>1. \A k \in 0 .. m : k \in T
      BY <1>1, <1>9, <1>10, Climbs
    <2>2. m \in 0 .. m
      BY <1>1
    <2> QED
      BY <2>1, <2>2
  <1>12. c[1 .. m] \in W
    BY <1>11
  <1>13. FoldLeft(LAMBDA v, i : IF i \in slots THEN P2pSource_open(v, i) ELSE v, b, d) = c[1 .. m]
    BY <1>1, <1>4, Zenon DEF c
  <1> QED
    BY <1>12, <1>13, Zenon DEF AllOpened

\* The sources in the slots are told of their timer, one after the other.
AllTimed(w, slots, d) == FoldLeft(LAMBDA v, i : IF i \in slots THEN P2pSource_on_timer(v, i) ELSE v, w, d)

\* What each source that is told of its timer keeps, all do.
LEMMA FoldOfAllTimed ==
  ASSUME NEW slots, NEW cells \in Seq(SomeCell), NEW d, d = [i \in DOMAIN cells |-> i], NEW W, NEW b \in W,
         \A v \in W : \A i \in slots : P2pSource_on_timer(v, i) \in W
  PROVE  AllTimed(b, slots, d) \in W
  <1> DEFINE m == Len(cells)
             step == [a \in W \X (1 .. m) |-> (IF d[a[2]] \in slots THEN P2pSource_on_timer(a[1], d[a[2]])
                       ELSE a[1])]
             Body(f) == [s \in SUBSET DOMAIN d |-> IF s = {} THEN b
                       ELSE (IF d[Max(s)] \in slots THEN P2pSource_on_timer(f[s \ {Max(s)}], d[Max(s)])
                           ELSE f[s \ {Max(s)}])]
             Made(f) == [s \in SUBSET (1 .. m) |-> IF s = {} THEN b ELSE step[<<f[s \ {Max(s)}], Max(s)>>]]
  <1>1. m \in Nat /\ DOMAIN d = 1 .. m /\ \A v \in W : \A k \in 1 .. m : (IF d[k] \in slots THEN P2pSource_on_timer(v, d[k])
            ELSE v) \in W
    OBVIOUS
  <1>2. step \in [W \X (1 .. m) -> W]
    BY <1>1
  <1>3. ASSUME NEW v \in W, NEW k \in 1 .. m PROVE step[<<v, k>>]
            = (IF d[k] \in slots THEN P2pSource_on_timer(v, d[k]) ELSE v)
    OBVIOUS
  <1>4. FoldLeft(LAMBDA v, i : IF i \in slots THEN P2pSource_on_timer(v, i) ELSE v, b, d)
            = (CHOOSE f : f = Body(f))[DOMAIN d]
    BY DEF FoldLeft, MapThenFoldSet
  <1> HIDE DEF m, step
  <1>5. ASSUME NEW f \in [SUBSET (1 .. m) -> W] PROVE Made(f) = Body(f)
    <2> SUFFICES ASSUME NEW s \in SUBSET (1 .. m), s # {}
                 PROVE  step[<<f[s \ {Max(s)}], Max(s)>>]
                           = (IF d[Max(s)] \in slots THEN P2pSource_on_timer(f[s \ {Max(s)}], d[Max(s)])
                               ELSE f[s \ {Max(s)}])
      BY <1>1
    <2>1. Max(s) \in s
      BY <1>1, MaxOfSome
    <2>2. s \ {Max(s)} \in SUBSET (1 .. m)
      OBVIOUS
    <2>3. f[s \ {Max(s)}] \in W
      BY <2>2
    <2>4. Max(s) \in 1 .. m
      BY <2>1
    <2> QED
      BY <1>3, <2>3, <2>4
  <1>6. PICK g \in [SUBSET (1 .. m) -> W] : g = Made(g)
    <2>1. m \in Nat
      BY <1>1
    <2>2. \E g \in [SUBSET (1 .. m) -> W] : Folded(g, b, m, step)
      BY <1>2, <2>1, FoldExists
    <2> QED
      BY <2>2 DEF Folded
  <1> DEFINE c == CHOOSE f : f = Body(f)
  <1>7. c = Body(c)
    <2>1. g = Body(g)
      BY <1>5, <1>6
    <2> HIDE DEF Body
    <2> QED
      BY <2>1
  <1> HIDE DEF c
  <1>8. \A s \in SUBSET (1 .. m) : c[s] = IF s = {} THEN b
            ELSE (IF d[Max(s)] \in slots THEN P2pSource_on_timer(c[s \ {Max(s)}], d[Max(s)]) ELSE c[s \ {Max(s)}])
    BY <1>1, <1>7, Zenon
  <1> DEFINE T == {k \in 0 .. m : c[1 .. k] \in W}
  <1>9. 0 \in T
    <2>1. 1 .. 0 = {} /\ {} \in SUBSET (1 .. m) /\ 0 \in 0 .. m
      BY <1>1
    <2>2. c[{}] = b
      BY <1>8, <2>1
    <2> QED
      BY <2>1, <2>2
  <1>10. ASSUME NEW k \in 1 .. m, k - 1 \in T PROVE k \in T
    <2>1. 1 .. k \in SUBSET (1 .. m) /\ 1 .. k # {} /\ Max(1 .. k) = k /\ (1 .. k) \ {k} = 1 .. k - 1
      BY <1>1, UpTo
    <2>2. c[1 .. k] = (IF d[Max(1 .. k)] \in slots THEN P2pSource_on_timer(c[(1 .. k) \ {Max(1 .. k)}], d[Max(1 .. k)])
              ELSE c[(1 .. k) \ {Max(1 .. k)}])
      BY <1>8, <2>1
    <2>3. c[1 .. k - 1] \in W
      BY <1>10
    <2>4. c[1 .. k] = (IF d[k] \in slots THEN P2pSource_on_timer(c[1 .. k - 1], d[k]) ELSE c[1 .. k - 1])
      BY <2>1, <2>2
    <2>5. c[1 .. k] \in W
      BY <1>1, <2>3, <2>4
    <2>6. k \in 0 .. m
      OBVIOUS
    <2> QED
      BY <2>5, <2>6
  <1>11. m \in T
    <2> HIDE DEF T
    <2>1. \A k \in 0 .. m : k \in T
      BY <1>1, <1>9, <1>10, Climbs
    <2>2. m \in 0 .. m
      BY <1>1
    <2> QED
      BY <2>1, <2>2
  <1>12. c[1 .. m] \in W
    BY <1>11
  <1>13. FoldLeft(LAMBDA v, i : IF i \in slots THEN P2pSource_on_timer(v, i) ELSE v, b, d) = c[1 .. m]
    BY <1>1, <1>4, Zenon DEF c
  <1> QED
    BY <1>12, <1>13, Zenon DEF AllTimed

-----------------------------------------------------------------------------
(* What is received *)

\* What a message says holds also when more has happened.
LEMMA SaidLater ==
  ASSUME NEW b, NEW c, b \subseteq c, NEW m, NEW t, NEW id
  PROVE  (SaidBy(m, t, id, b) => SaidBy(m, t, id, c)) /\ (SaidTo(m, t, id, b) => SaidTo(m, t, id, c))
  BY Earlier DEF SaidBy, SaidTo, Taken, Asks

\* A packet p is received by host h: of what its messages say.
Received(h, p) ==
  /\ p.tid \in Nat /\ p.from \in Nat \ {0} /\ p.msgs \in Seq(Message)
  /\ p.tid # 0 => tun[h].on /\ p.tid = tun[h].tid
  /\ \A k \in DOMAIN p.msgs : /\ SaidBy(p.msgs[k], tun[Other(h)], p.from, bad.before)
                              /\ SaidTo(p.msgs[k], tun[h], p.tid, bad.before)
\* The worlds in which it is.
Receiving(h, p) ==
  {w \in Worlds : RecvOK(h, w) /\ w.from = p.from /\ (p.tid # 0 => w.t.on /\ w.t.tid = p.tid)}

\* A message of a packet for tunnel 0.
LEMMA UnconnectedKeeps ==
  ASSUME NEW h, Ground(h), NEW p, Received(h, p), p.tid = 0, NEW w \in Receiving(h, p), NEW k \in DOMAIN p.msgs,
         NEW u, u = Unconnected(h, w, p.msgs[k])
  PROVE  u \in Receiving(h, p)
  <1> DEFINE m == p.msgs[k]
             g == get_tunnel(w)
             v == IF m.type = "Connect" /\ m.sid = 0 THEN [g EXCEPT !.recent1 = TRUE] ELSE w
  <1>1. m \in Message /\ SaidBy(m, tun[Other(h)], p.from, bad.before)
    BY DEF Received
  <1>2. w \in Worlds /\ RecvOK(h, w) /\ w.from = p.from /\ Calls(h, w, 0)
    BY DEF Receiving, RecvOK
  <1>3. u = IF m.sid = 0 /\ v.recent1 THEN Listener_on_msg(h, v, m) ELSE v
    BY DEF Unconnected
  <1>4. RecvOK(h, v) /\ v.from = p.from /\ v.bad = w.bad
    <2>1. CASE m.type = "Connect" /\ m.sid = 0
      <3>1. v = [g EXCEPT !.recent1 = TRUE]
        BY <2>1
      <3>2. Calls(h, g, 0) /\ g.t.on /\ Alike(w, g) /\ g.bad = w.bad /\ (w.t.on => g = w)
        BY <1>2, TunnelKeeps
      <3> HIDE DEF g, v
      <3>3. g \in Worlds
        BY <3>2 DEF Calls
      <3>4. /\ v \in Worlds /\ v.t = g.t /\ v.next = g.next /\ v.have = g.have /\ v.bad = g.bad /\ v.out = g.out
            /\ v.from = g.from /\ v.recent1 = TRUE /\ v.recent2 = g.recent2 /\ v.binds = g.binds
        BY <3>1, <3>3 DEF Worlds
      <3>5. Calls(h, v, 0)
        BY <3>2, <3>4 DEF Calls
      <3>6. w.recent2 # 0 => g = w
        <4>1. ~w.t.on => DOMAIN w.t.cells = {}
          <5>1. ~w.t.on => w.t = NoTunnel
            BY <1>2 DEF Calls, TunnelOK
          <5>2. DOMAIN NoTunnel.cells = {}
            BY NoTunnelFacts
          <5> QED
            BY <5>1, <5>2
        <4>2. w.recent2 # 0 => w.t.on
          BY <1>2, <4>1 DEF RecvOK
        <4> QED
          BY <3>2, <4>2
      <3>7. RecvOK(h, v)
        BY <1>2, <3>2, <3>4, <3>5, <3>6 DEF RecvOK, Alike
      <3> QED
        BY <1>2, <3>2, <3>4, <3>7 DEF Alike
    <2>2. CASE ~(m.type = "Connect" /\ m.sid = 0)
      BY <1>2, <2>2
    <2> QED
      BY <2>1, <2>2
  <1> HIDE DEF m, v
  <1>5. SaidBy(m, tun[Other(h)], v.from, v.bad.before)
    BY <1>1, <1>2, <1>4, SaidLater DEF Calls
  <1>6. CASE m.sid = 0 /\ v.recent1
    <2>1. v.t.on /\ u = Listener_on_msg(h, v, m)
      BY <1>3, <1>4, <1>6 DEF RecvOK
    <2>2. RecvOK(h, u) /\ u.from = v.from
      BY <1>1, <1>4, <1>5, <2>1, ListenerKeeps
    <2> QED
      BY <1>4, <2>2 DEF Receiving, RecvOK, Calls
  <1>7. CASE ~(m.sid = 0 /\ v.recent1)
    BY <1>3, <1>4, <1>7 DEF Receiving, RecvOK, Calls
  <1> QED
    BY <1>6, <1>7

\* A message of a packet for the tunnel.
LEMMA ConnectedKeeps ==
  ASSUME NEW h, Ground(h), NEW p, Received(h, p), p.tid # 0, NEW w \in Receiving(h, p), NEW k \in DOMAIN p.msgs,
         NEW u, u = Connected(h, w, p.msgs[k])
  PROVE  u \in Receiving(h, p)
  <1> DEFINE m == p.msgs[k]
             i == m.sid
  <1>1. m \in Message /\ SaidBy(m, tun[Other(h)], p.from, bad.before) /\ SaidTo(m, tun[h], p.tid, bad.before)
    BY DEF Received
  <1>2. w \in Worlds /\ RecvOK(h, w) /\ w.from = p.from /\ Calls(h, w, 0) /\ w.t.on /\ w.t.tid = p.tid /\ w.from # 0
        /\ p.tid = tun[h].tid
    BY DEF Receiving, RecvOK, Received
  <1>3. u = IF i = 0 THEN Listener_on_msg(h, w, m) ELSE Session_on_msg(w, i, m)
    BY DEF Connected
  <1>4. i = m.sid
    OBVIOUS
  <1> HIDE DEF m, i
  <1>5. bad.before \subseteq w.bad.before /\ Grown(tun[h], w.t, next[h])
    BY <1>2 DEF Calls
  <1>6. SaidBy(m, tun[Other(h)], w.from, w.bad.before)
    BY <1>1, <1>2, <1>5, SaidLater
  <1>7. CASE i = 0
    <2>1. RecvOK(h, u) /\ u.t.on /\ u.t.tid = w.t.tid /\ u.from = w.from
      BY <1>1, <1>2, <1>3, <1>6, <1>7, ListenerKeeps
    <2> QED
      BY <1>2, <2>1 DEF Receiving, RecvOK, Calls
  <1>8. CASE i # 0
    <2>1. m.type # "Bind"
      BY <1>1, <1>4, <1>8 DEF SaidTo
    <2>2. m.type \in Answers /\ Pure(w.bad.before) => Asks(w.t, i, m.rid, w.bad.before)
      <3> SUFFICES ASSUME m.type \in Answers, Pure(w.bad.before) PROVE Asks(w.t, i, m.rid, w.bad.before)
        OBVIOUS
      <3>1. Pure(bad.before)
        BY <1>5, Earlier
      <3>2. Asks(tun[h], i, m.rid, bad.before)
        BY <1>1, <1>4, <3>1 DEF SaidTo
      <3> QED
        BY <1>5, <3>2, AsksStays
    <2>3. i \in Sources(w.t) /\ m.type \notin Answers => ~Steady(w.bad.before)
      <3> SUFFICES ASSUME i \in Sources(w.t), m.type \notin Answers, Steady(w.bad.before) PROVE FALSE
        OBVIOUS
      <3>1. m.type \in Requests
        BY <1>1, <1>4, <1>8, <2>1, MessageFacts DEF Requests, Answers
      <3>2. Steady(bad.before)
        BY <1>5, Earlier
      <3>3. NoSource(tun[h], i)
        BY <1>1, <1>2, <1>4, <1>8, <3>1, <3>2 DEF SaidTo
      <3>4. w.t.cells[i].kind # "source"
        BY <1>2, <1>5, <3>3 DEF Grown, NoSource
      <3> QED
        BY <3>4 DEF Sources
    <2>4. u = Session_on_msg(w, i, m)
      BY <1>3, <1>8
    <2>5. Calls(h, u, 0) /\ Same(w, u) /\ Quiet(w, u)
      BY <1>1, <1>2, <1>6, <2>1, <2>2, <2>3, <2>4, SessionMsgKeeps
    <2>6. RecvOK(h, u) /\ u.t.on = w.t.on /\ u.t.tid = w.t.tid /\ u.from = w.from
      BY <1>2, <2>5, RecvSame
    <2> QED
      BY <1>2, <2>5, <2>6 DEF Receiving, Calls
  <1> QED
    BY <1>7, <1>8

\* What is known of a host, and its world before the handler.
LEMMA WorldFacts ==
  ASSUME IInv, NEW h \in Hosts
  PROVE  /\ Ground(h) /\ Calls(h, World(h), 0) /\ World(h).out = <<>> /\ World(h).t = tun[h] /\ World(h) \in Worlds
         /\ World(h).recent1 = FALSE /\ World(h).recent2 = 0 /\ World(h).binds = {} /\ World(h).bad = bad
  <1> DEFINE w == World(h)
  <1>1. /\ w.out = <<>> /\ w.t = tun[h] /\ w.next = next[h] /\ w.have = have[h] /\ w.bad = bad /\ w.from = 0
        /\ w.recent1 = FALSE /\ w.recent2 = 0 /\ w.binds = {}
    BY DEF World
  <1>2. HostOK(h, bad.before) /\ next[h] \in Nat \ {0} /\ bad \in Bads /\ Excused(bad)
    BY DEF IInv
  <1>3. Other(h) \in Hosts /\ next[Other(h)] \in Nat \ {0}
    BY OtherFacts DEF IInv
  <1>4. Ground(h)
    BY <1>2, <1>3 DEF Ground, HostOK
  <1>5. <<>> \in Seq(Message) /\ have[h] \in SUBSET Rids
    <2>1. <<>> \in Seq(Message)
      OBVIOUS
    <2>2. Wants[h] \subseteq Rids
      BY TunnelAssumption
    <2> QED
      BY <1>2, <2>1, <2>2 DEF HostOK
  <1>6. w \in Worlds
    <2>1. tun[h] \in Tunnels
      BY <1>2 DEF HostOK, TunnelOK
    <2> QED
      BY <1>2, <1>5, <2>1 DEF World, Worlds
  <1> HIDE DEF w
  <1>7. Queued(w.out, w.t, tun[Other(h)], w.bad.before)
    BY <1>1 DEF Queued
  <1>8. Calls(h, w, 0)
    BY <1>1, <1>2, <1>6, <1>7, GrownSelf DEF Calls, HostOK
  <1> QED
    BY <1>1, <1>4, <1>6, <1>8 DEF w

\* A packet is received.
LEMMA RecvKeeps ==
  ASSUME IInv, NEW p \in net
  PROVE  p.to \in Hosts /\ Calls(p.to, on_recv(p.to, p), 0)
  <1> DEFINE h == p.to
             w == [World(h) EXCEPT !.from = p.from]
  <1>1. PacketOK(p, bad.before)
    BY DEF IInv
  <1>2. h \in Hosts /\ p.from \in Nat \ {0} /\ p.msgs \in Seq(Message) /\ p.tid \in Nat
    BY <1>1 DEF PacketOK
  <1>3. on_recv(h, p) = CASE p.tid = 0 -> AllUnconnected(h, w, p.msgs)
                          [] w.t.on /\ p.tid = w.t.tid -> AllConnected(h, w, p.msgs)
                          [] OTHER -> w
    BY DEF on_recv, AllUnconnected, AllConnected
  <1> HIDE DEF h, w
  <1>4. /\ Ground(h) /\ Calls(h, World(h), 0) /\ World(h).out = <<>> /\ World(h).t = tun[h] /\ World(h) \in Worlds
        /\ World(h).recent1 = FALSE /\ World(h).recent2 = 0 /\ World(h).binds = {} /\ World(h).bad = bad
    BY <1>2, WorldFacts
  <1>5. /\ w \in Worlds /\ w.t = tun[h] /\ w.next = World(h).next /\ w.have = World(h).have /\ w.bad = bad /\ w.out = <<>>
        /\ w.from = p.from /\ w.recent1 = FALSE /\ w.recent2 = 0 /\ w.binds = {}
    BY <1>2, <1>4 DEF w, Worlds
  <1>6. Calls(h, w, 0)
    BY <1>4, <1>5 DEF Calls
  <1>7. RecvOK(h, w)
    <2>1. NoBind(w.out)
      BY <1>5 DEF NoBind
    <2>2. IsFiniteSet(w.binds)
      BY <1>5, FS_EmptySet
    <2>3. Other(Other(h)) = h
      BY <1>2, OtherFacts
    <2>4. Steady(w.bad.before) => w.from < next[Other(h)]
      BY <1>1, <1>5 DEF PacketOK, h
    <2> QED
      BY <1>2, <1>5, <1>6, <2>1, <2>2, <2>4 DEF RecvOK
  <1>8. \A k \in DOMAIN p.msgs : /\ SaidBy(p.msgs[k], tun[Other(h)], p.from, bad.before)
                                 /\ SaidTo(p.msgs[k], tun[h], p.tid, bad.before)
    BY <1>1 DEF PacketOK, h
  <1>9. CASE p.tid = 0
    <2>1. on_recv(h, p) = AllUnconnected(h, w, p.msgs)
      <3>1. ~(w.t.on /\ p.tid = w.t.tid)
        BY <1>6, <1>9 DEF Calls, TunnelOK
      <3> QED
        BY <1>3, <1>9, <3>1
    <2>2. Received(h, p)
      BY <1>2, <1>8, <1>9 DEF Received
    <2>3. w \in Receiving(h, p)
      BY <1>5, <1>7, <1>9 DEF Receiving
    <2>4. \A v \in Receiving(h, p) : \A k \in DOMAIN p.msgs : Unconnected(h, v, p.msgs[k]) \in Receiving(h, p)
      BY <1>4, <1>9, <2>2, UnconnectedKeeps
    <2>5. on_recv(h, p) \in Receiving(h, p)
      BY <1>2, <2>1, <2>3, <2>4, FoldOfUnconnected
    <2> QED
      BY <1>2, <2>5 DEF Receiving, RecvOK, h
  <1>10. CASE p.tid # 0 /\ w.t.on /\ p.tid = w.t.tid
    <2>1. on_recv(h, p) = AllConnected(h, w, p.msgs)
      BY <1>3, <1>10
    <2>2. Received(h, p)
      BY <1>2, <1>5, <1>8, <1>10 DEF Received
    <2>3. w \in Receiving(h, p)
      BY <1>5, <1>7, <1>10 DEF Receiving
    <2>4. \A v \in Receiving(h, p) : \A k \in DOMAIN p.msgs : Connected(h, v, p.msgs[k]) \in Receiving(h, p)
      BY <1>4, <1>10, <2>2, ConnectedKeeps
    <2>5. on_recv(h, p) \in Receiving(h, p)
      BY <1>2, <2>1, <2>3, <2>4, FoldOfConnected
    <2> QED
      BY <1>2, <2>5 DEF Receiving, RecvOK, h
  <1>11. CASE p.tid # 0 /\ ~(w.t.on /\ p.tid = w.t.tid)
    <2>1. on_recv(h, p) = w
      BY <1>3, <1>11
    <2> QED
      BY <1>2, <1>6, <2>1 DEF h
  <1> QED
    BY <1>9, <1>10, <1>11

-----------------------------------------------------------------------------
(* The timers *)

\* A world is like itself.
LEMMA SameSelf ==
  ASSUME NEW w
  PROVE  Same(w, w)
  BY DEF Same

\* Each of the sources is asked to be bound, by a tunnel that is not open.
LEMMA OpenAll ==
  ASSUME NEW h, Ground(h), NEW w, Calls(h, w, 0), ~w.t.open, NEW slots, slots = Sources(w.t)
  PROVE  Calls(h, Each(w, slots, P2pSource_open), 0)
  <1> DEFINE W == {v \in Worlds : Calls(h, v, 0) /\ Same(w, v)}
             d == [i \in DOMAIN w.t.cells |-> i]
  <1>1. w \in W /\ w.t.cells \in Seq(SomeCell)
    BY SameSelf DEF Calls, Worlds, Tunnels
  <1>2. ASSUME NEW v \in W, NEW i \in slots PROVE P2pSource_open(v, i) \in W
    <2>1. Calls(h, v, 0) /\ Same(w, v)
      OBVIOUS
    <2>2. i \in Sources(v.t) /\ ~v.t.open
      BY <2>1, SameSources DEF Same
    <2> DEFINE u == P2pSource_open(v, i)
    <2>3. u = P2pSource_open(v, i)
      OBVIOUS
    <2> HIDE DEF u
    <2>4. Calls(h, u, 0) /\ Same(v, u)
      BY <2>1, <2>2, <2>3, BindKeeps
    <2>5. u \in W
      BY <2>1, <2>4, SameTwice DEF Calls
    <2> QED
      BY <2>5 DEF u
  <1>3. Each(w, slots, P2pSource_open) = AllOpened(w, slots, d)
    BY Zenon DEF Each, FoldLeftDomain, AllOpened
  <1>4. d = [i \in DOMAIN w.t.cells |-> i]
    OBVIOUS
  <1> DEFINE e == AllOpened(w, slots, d)
  <1>5. \A v \in W : \A i \in slots : P2pSource_open(v, i) \in W
    BY <1>2
  <1> HIDE DEF W, d
  <1>6. e \in W
    BY <1>1, <1>4, <1>5, FoldOfAllOpened
  <1>7. Calls(h, e, 0)
    BY <1>6 DEF W
  <1> HIDE DEF e
  <1>8. Each(w, slots, P2pSource_open) = e
    BY <1>3, Zenon DEF e
  <1> QED
    BY <1>7, <1>8, Zenon

\* Each of the sources runs its timer.
LEMMA TimeAll ==
  ASSUME NEW h, Ground(h), NEW w, Calls(h, w, 0), NEW slots, slots = Sources(w.t)
  PROVE  Calls(h, Each(w, slots, P2pSource_on_timer), 0)
  <1> DEFINE W == {v \in Worlds : Calls(h, v, 0) /\ Same(w, v)}
             d == [i \in DOMAIN w.t.cells |-> i]
  <1>1. w \in W /\ w.t.cells \in Seq(SomeCell)
    BY SameSelf DEF Calls, Worlds, Tunnels
  <1>2. ASSUME NEW v \in W, NEW i \in slots PROVE P2pSource_on_timer(v, i) \in W
    <2>1. Calls(h, v, 0) /\ Same(w, v)
      OBVIOUS
    <2>2. i \in Sources(v.t)
      BY <2>1, SameSources
    <2> DEFINE u == P2pSource_on_timer(v, i)
    <2>3. u = P2pSource_on_timer(v, i)
      OBVIOUS
    <2> HIDE DEF u
    <2>4. Calls(h, u, 0) /\ Same(v, u)
      BY <2>1, <2>2, <2>3, SourceTimerKeeps
    <2>5. u \in W
      BY <2>1, <2>4, SameTwice DEF Calls
    <2> QED
      BY <2>5 DEF u
  <1>3. Each(w, slots, P2pSource_on_timer) = AllTimed(w, slots, d)
    BY Zenon DEF Each, FoldLeftDomain, AllTimed
  <1>4. d = [i \in DOMAIN w.t.cells |-> i]
    OBVIOUS
  <1> DEFINE e == AllTimed(w, slots, d)
  <1>5. \A v \in W : \A i \in slots : P2pSource_on_timer(v, i) \in W
    BY <1>2
  <1> HIDE DEF W, d
  <1>6. e \in W
    BY <1>1, <1>4, <1>5, FoldOfAllTimed
  <1>7. Calls(h, e, 0)
    BY <1>6 DEF W
  <1> HIDE DEF e
  <1>8. Each(w, slots, P2pSource_on_timer) = e
    BY <1>3, Zenon DEF e
  <1> QED
    BY <1>7, <1>8, Zenon

\* The listener connects.
LEMMA ConnectSends ==
  ASSUME NEW h, Ground(h), NEW w, Calls(h, w, 0), w.t.on, ~w.t.open
  PROVE  Calls(h, connect(w), 0)
  <1> DEFINE m == [sid |-> 0, type |-> "Connect", arg |-> w.t.tid, rid |-> 0]
             v == Push(w, 0, "Connect", w.t.tid, 0)
  <1>1. w.t.tid \in Nat \ {0}
    BY DEF Calls, TunnelOK, Tunnels
  <1>2. m \in Message
    BY <1>1 DEF Message, ConnectMessage
  <1>3. m.type = "Connect" /\ m.arg = w.t.tid
    OBVIOUS
  <1>4. m = [sid |-> 0, type |-> "Connect", arg |-> w.t.tid, rid |-> 0] /\ v = Push(w, 0, "Connect", w.t.tid, 0)
    OBVIOUS
  <1>5. connect(w) = Each(v, Sources(w.t), P2pSource_open)
    BY DEF connect
  <1> HIDE DEF m, v
  <1>6. SaidBy(m, w.t, w.t.tid, w.bad.before) /\ Outward(m, w.t, tun[Other(h)], w.bad.before)
    BY <1>3 DEF SaidBy, Outward, Answers, Requests
  <1>7. Calls(h, v, 0) /\ Same(w, v) /\ v.t = w.t
    BY <1>2, <1>4, <1>6, PushKeeps
  <1> DEFINE slots == Sources(w.t)
  <1>8. slots = Sources(v.t) /\ ~v.t.open
    BY <1>7
  <1>9. connect(w) = Each(v, slots, P2pSource_open)
    BY <1>5
  <1> HIDE DEF slots
  <1>10. Calls(h, Each(v, slots, P2pSource_open), 0)
    BY <1>7, <1>8, OpenAll
  <1> QED
    BY <1>9, <1>10, Zenon

\* The world w, before anything is sent, with the tunnel t of the same id, which has the same
\* sources and no sink.
LEMMA EmptyKeeps ==
  ASSUME NEW h, Ground(h), NEW w \in Worlds, Calls(h, w, 0), w.out = <<>>, w.t = tun[h], NEW t, NEW v,
         v = [w EXCEPT !.t = t], TunnelOK(h, t, w.next), Grown(w.t, t, w.next), t.was \in {0, w.t.was},
         \A i \in DOMAIN t.cells : t.cells[i].kind # "sink" /\ t.cells[i].pid = 0
  PROVE  Calls(h, v, 0) /\ v.t = t /\ v \in Worlds
  <1>1. t \in Tunnels
    BY DEF TunnelOK
  <1>2. /\ v \in Worlds /\ v.t = t /\ v.next = w.next /\ v.have = w.have /\ v.bad = w.bad /\ v.out = w.out
    BY <1>1 DEF Worlds
  <1>3. Queued(v.out, v.t, tun[Other(h)], v.bad.before)
    BY <1>2 DEF Queued
  <1>4. SinksKnow(v.t, tun[Other(h)], v.bad.before, 0) /\ SourcesKnow(v.t, tun[Other(h)], v.bad.before)
    BY <1>2 DEF SinksKnow, SourcesKnow, Sources
  <1>5. Steady(v.bad.before) => v.t.was < next[Other(h)]
    <2>1. 0 < next[Other(h)]
      BY DEF Ground
    <2> QED
      BY <1>2, <2>1 DEF Calls
  <1>6. w.next \in Nat /\ next[h] \in Nat
    BY DEF Ground, Worlds
  <1>7. Grown(tun[h], v.t, next[h])
    <2>1. v.t.tid # tun[h].tid => v.t.tid = 0 \/ v.t.tid >= next[h]
      BY <1>1, <1>2, <1>6 DEF Grown, Calls, Tunnels
    <2> QED
      BY <1>2, <2>1 DEF Grown
  <1> QED
    BY <1>2, <1>3, <1>4, <1>5, <1>7 DEF Calls

\* The listener has heard nothing.
LEMMA SilenceKeeps ==
  ASSUME NEW h, Ground(h), NEW w \in Worlds, Calls(h, w, 0), w.out = <<>>, w.t = tun[h], w.t.on
  PROVE  Calls(h, Listener_silence(w), 0)
  <1> DEFINE s == [i \in DOMAIN w.t.cells |-> Disconnected(w.t.cells[i])]
             t == [w.t EXCEPT !.pid = 0, !.cells = s, !.open = FALSE]
             v == [w EXCEPT !.t = t]
  <1>0. w.t \in Tunnels /\ w.t.cells \in Seq(SomeCell) /\ TunnelOK(h, w.t, w.next)
    BY DEF Calls, Worlds, Tunnels
  <1>1. Listener_silence(w) = connect(v)
    <2>1. [on_disconnect(w) EXCEPT !.t.open = FALSE] = v
      BY <1>0 DEF on_disconnect, Worlds, Tunnels
    <2> QED
      BY <2>1 DEF Listener_silence
  <1>2. ASSUME NEW c \in SomeCell
        PROVE  /\ Disconnected(c) \in SomeCell /\ Disconnected(c).pid = 0
               /\ c.kind = "source" => Disconnected(c).kind = "source" /\ Disconnected(c).rid = c.rid
               /\ c.kind # "source" => Disconnected(c).kind = "gone"
    <2>1. Gone \in SomeCell /\ Gone.kind = "gone" /\ Gone.pid = 0
      BY DEF Gone, Cell, SomeCell
    <2>2. [c EXCEPT !.pid = 0, !.req = FALSE] \in SomeCell /\ [c EXCEPT !.pid = 0, !.req = FALSE].pid = 0
          /\ [c EXCEPT !.pid = 0, !.req = FALSE].kind = c.kind /\ [c EXCEPT !.pid = 0, !.req = FALSE].rid = c.rid
      BY DEF SomeCell
    <2>3. CASE c.kind = "source"
      <3>1. Disconnected(c) = [c EXCEPT !.pid = 0, !.req = FALSE]
        BY <2>3 DEF Disconnected
      <3> QED
        BY <2>2, <2>3, <3>1
    <2>4. CASE c.kind # "source"
      <3>1. Disconnected(c) = Gone
        BY <2>4 DEF Disconnected
      <3> QED
        BY <2>1, <2>4, <3>1
    <2> QED
      BY <2>3, <2>4
  <1>3. DOMAIN s = DOMAIN w.t.cells /\ s \in Seq(SomeCell)
        /\ \A i \in DOMAIN w.t.cells : w.t.cells[i] \in SomeCell /\ s[i] = Disconnected(w.t.cells[i])
    <2>1. \A i \in DOMAIN w.t.cells : w.t.cells[i] \in SomeCell
      BY <1>0
    <2>2. DOMAIN w.t.cells = 1 .. Len(w.t.cells) /\ Len(w.t.cells) \in Nat
      BY <1>0
    <2>3. s \in [1 .. Len(w.t.cells) -> SomeCell]
      BY <1>2, <2>1, <2>2
    <2>4. s \in Seq(SomeCell)
      BY <2>2, <2>3
    <2> QED
      BY <2>1, <2>4
  <1> HIDE DEF s
  <1>4. t \in Tunnels /\ t.on = w.t.on /\ t.tid = w.t.tid /\ t.pid = 0 /\ t.was = w.t.was /\ t.open = FALSE /\ t.cells = s
    BY <1>0, <1>3 DEF Tunnels
  <1> HIDE DEF t
  <1>5. \A i \in DOMAIN t.cells : t.cells[i].kind # "sink" /\ t.cells[i].pid = 0
    BY <1>2, <1>3, <1>4
  <1>6. Grown(w.t, t, w.next)
    BY <1>2, <1>3, <1>4 DEF Grown, Sources
  <1>7. TunnelOK(h, t, w.next)
    <2>1. ASSUME NEW i \in DOMAIN t.cells
          PROVE  /\ t.cells[i].kind = "source" => t.cells[i].rid \in Wants[h]
                 /\ t.cells[i].kind # "gone" => t.cells[i].rid \in Rids
      <3>1. i \in DOMAIN w.t.cells /\ t.cells[i] = Disconnected(w.t.cells[i]) /\ w.t.cells[i] \in SomeCell
        BY <1>3, <1>4
      <3>2. CASE w.t.cells[i].kind = "source"
        <4>1. w.t.cells[i].rid \in Wants[h] /\ w.t.cells[i].rid \in Rids
          BY <1>0, <3>1, <3>2 DEF TunnelOK
        <4> QED
          BY <1>2, <3>1, <3>2, <4>1
      <3>3. CASE w.t.cells[i].kind # "source"
        BY <1>2, <3>1, <3>3
      <3> QED
        BY <3>2, <3>3
    <2>2. t.tid < w.next /\ t.on = (t.tid # 0) /\ t.open = (t.pid # 0) /\ t.pid \in {0, t.was} /\ t.on
      BY <1>0, <1>4 DEF TunnelOK
    <2> QED
      BY <1>4, <2>1, <2>2 DEF TunnelOK
  <1>8. v = [w EXCEPT !.t = t]
    OBVIOUS
  <1> HIDE DEF v
  <1>9. Calls(h, v, 0) /\ v.t = t
    <2>1. t.was \in {0, w.t.was}
      BY <1>4
    <2> QED
      BY <1>5, <1>6, <1>7, <1>8, <2>1, EmptyKeeps
  <1>10. Calls(h, connect(v), 0)
    BY <1>4, <1>9, ConnectSends
  <1> QED
    BY <1>1, <1>10

\* The listener tries again, or goes when it is alone.
LEMMA RetryKeeps ==
  ASSUME NEW h, Ground(h), NEW w \in Worlds, Calls(h, w, 0), w.out = <<>>, w.t = tun[h], w.t.on, ~w.t.open
  PROVE  Calls(h, Listener_retry(w), 0)
  <1>1. CASE Live(w.t) = {}
    <2> DEFINE v == [w EXCEPT !.t = NoTunnel]
    <2>1. Listener_retry(w) = v
      BY <1>1 DEF Listener_retry
    <2>2. w.t.tid \in Nat \ {0} /\ w.next \in Nat \ {0}
      BY DEF Calls, TunnelOK, Tunnels, Worlds
    <2>3. Sources(w.t) = {}
      BY <1>1 DEF Live, Sources
    <2>4. DOMAIN NoTunnel.cells = {}
      BY NoTunnelFacts
    <2>5. TunnelOK(h, NoTunnel, w.next)
      <3>1. 0 < w.next
        BY <2>2
      <3> QED
        BY <2>4, <3>1, NoTunnelFacts DEF TunnelOK
    <2>6. Grown(w.t, NoTunnel, w.next)
      BY <2>2, <2>3, NoTunnelFacts DEF Grown
    <2>7. v = [w EXCEPT !.t = NoTunnel]
      OBVIOUS
    <2> HIDE DEF v
    <2>8. Calls(h, v, 0)
      BY <2>4, <2>5, <2>6, <2>7, NoTunnelFacts, EmptyKeeps
    <2> QED
      BY <2>1, <2>8
  <1>2. CASE Live(w.t) # {}
    <2>1. Listener_retry(w) = connect(w)
      BY <1>2 DEF Listener_retry
    <2> QED
      BY <2>1, ConnectSends
  <1> QED
    BY <1>1, <1>2

\* The timer of the socket.
LEMMA TimerKeeps ==
  ASSUME IInv, NEW h \in Hosts, tun[h].on
  PROVE  Calls(h, handle_timer(h), 0)
  <1> DEFINE w == World(h)
             v == IF ~w.t.open THEN Listener_retry(w) ELSE IF ~Hears(h) THEN Listener_silence(w) ELSE w
             slots == Sources(v.t)
  <1>1. handle_timer(h) = IF v.out # <<>> \/ ~v.t.on THEN v ELSE Each(v, slots, P2pSource_on_timer)
    BY DEF handle_timer
  <1>2. Ground(h) /\ Calls(h, w, 0) /\ w.out = <<>> /\ w.t = tun[h] /\ w \in Worlds
    BY WorldFacts
  <1> HIDE DEF w
  <1>3. Calls(h, v, 0)
    <2>1. CASE ~w.t.open
      BY <1>2, <2>1, RetryKeeps
    <2>2. CASE w.t.open /\ ~Hears(h)
      BY <1>2, <2>2, SilenceKeeps
    <2>3. CASE w.t.open /\ Hears(h)
      BY <1>2, <2>3
    <2> QED
      BY <2>1, <2>2, <2>3
  <1>4. slots = Sources(v.t)
    OBVIOUS
  <1> HIDE DEF v, slots
  <1>5. Calls(h, Each(v, slots, P2pSource_on_timer), 0)
    BY <1>2, <1>3, <1>4, TimeAll
  <1>6. CASE v.out # <<>> \/ ~v.t.on
    <2>1. handle_timer(h) = v
      BY <1>1, <1>6, Zenon
    <2> QED
      BY <1>3, <2>1
  <1>7. CASE ~(v.out # <<>> \/ ~v.t.on)
    <2>1. handle_timer(h) = Each(v, slots, P2pSource_on_timer)
      BY <1>1, <1>7, Zenon
    <2> QED
      BY <1>5, <2>1, Zenon
  <1> QED
    BY <1>6, <1>7
\* A host without a tunnel is a good host, with every number still to give.
LEMMA NoTunnelOK == ASSUME NEW h PROVE TunnelOK(h, NoTunnel, 1)
  <1>1. DOMAIN NoTunnel.cells = {}
    BY NoTunnelFacts
  <1>2. NoTunnel.tid < 1
    BY NoTunnelFacts
  <1>3. NoTunnel.on = (NoTunnel.tid # 0) /\ NoTunnel.open = (NoTunnel.pid # 0)
    BY NoTunnelFacts
  <1> QED
    BY <1>1, <1>2, <1>3, NoTunnelFacts DEF TunnelOK


-----------------------------------------------------------------------------
(* The steps *)

\* The packet that a handler sends is in order.
SentOK(p, h, w) ==
  /\ p.to = Other(h) /\ p.tid \in Nat /\ p.from \in Nat \ {0} /\ p.msgs \in Seq(Message)
  /\ Steady(w.bad.before) => p.tid < next[Other(h)] /\ p.from < w.next
  /\ \A k \in DOMAIN p.msgs : /\ SaidBy(p.msgs[k], w.t, p.from, w.bad.before)
                              /\ SaidTo(p.msgs[k], tun[Other(h)], p.tid, w.bad.before)

\* What is queued is true of the tunnel under whose id it leaves.
LEMMA SendKeeps ==
  ASSUME NEW h, Ground(h), NEW w, Calls(h, w, 0), NEW p \in on_send(h, w)
  PROVE  SentOK(p, h, w)
  <1>1. p = [to |-> Other(h), tid |-> w.t.pid, from |-> w.t.tid, msgs |-> w.out] /\ w.t.on
    BY DEF on_send
  <1>2. p.to = Other(h) /\ p.tid = w.t.pid /\ p.from = w.t.tid /\ p.msgs = w.out
    BY <1>1
  <1>3. w.t \in Tunnels /\ TunnelOK(h, w.t, w.next) /\ w.out \in Seq(Message)
    BY DEF Calls, Worlds
  <1>4. w.t.pid \in Nat /\ w.t.tid \in Nat \ {0} /\ w.t.tid < w.next /\ w.t.pid \in {0, w.t.was} /\ w.t.open = (w.t.pid # 0)
    BY <1>1, <1>3 DEF TunnelOK, Tunnels
  <1>5. Steady(w.bad.before) => w.t.pid < next[Other(h)]
    <2>1. 0 < next[Other(h)]
      BY DEF Ground
    <2> QED
      BY <1>4, <2>1 DEF Calls
  <1>6. ASSUME NEW k \in DOMAIN w.out
        PROVE  SaidBy(w.out[k], w.t, w.t.tid, w.bad.before) /\ SaidTo(w.out[k], tun[Other(h)], w.t.pid, w.bad.before)
    <2>1. SaidBy(w.out[k], w.t, w.t.tid, w.bad.before) /\ Outward(w.out[k], w.t, tun[Other(h)], w.bad.before)
      BY DEF Calls, Queued
    <2>2. SaidTo(w.out[k], tun[Other(h)], w.t.pid, w.bad.before)
      BY <1>4, <2>1 DEF Outward, SaidTo
    <2> QED
      BY <2>1, <2>2
  <1> QED
    BY <1>2, <1>3, <1>4, <1>5, <1>6 DEF SentOK

\* A handler runs to its end.
LEMMA BecomeKeeps ==
  ASSUME IInv, NEW h \in Hosts, NEW w, Calls(h, w, 0), NEW n \in SUBSET net, Become(h, w, n), left' \in 0 .. MaxTrouble
  PROVE  IInv'
  <1> DEFINE o == Other(h)
             b == w.bad.before
  <1>1. o \in Hosts /\ o # h /\ Other(o) = h /\ Hosts = {h, o}
    BY OtherFacts
  <1>2. DOMAIN tun = Hosts /\ next \in [Hosts -> Nat \ {0}] /\ DOMAIN have = Hosts
    BY DEF IInv
  <1>3. w \in Worlds /\ w.next \in Nat \ {0} /\ w.bad \in Bads /\ next[h] <= w.next /\ bad.before \subseteq b
        /\ Excused(w.bad) /\ TunnelOK(h, w.t, w.next) /\ w.have \subseteq Wants[h] /\ Grown(tun[h], w.t, next[h])
        /\ w.t.tid \in Nat
    BY DEF Calls, Worlds, TunnelOK, Tunnels
  <1>4. tun' = [tun EXCEPT ![h] = w.t] /\ next' = [next EXCEPT ![h] = w.next] /\ have' = [have EXCEPT ![h] = w.have]
        /\ bad' = w.bad /\ net' = n \union on_send(h, w)
    BY DEF Become
  <1>5. tun'[h] = w.t /\ tun'[o] = tun[o] /\ next'[h] = w.next /\ next'[o] = next[o] /\ have'[h] = w.have /\ have'[o] = have[o]
        /\ bad'.before = b
    BY <1>1, <1>2, <1>4
  <1>6. DOMAIN tun' = Hosts /\ next' \in [Hosts -> Nat \ {0}] /\ DOMAIN have' = Hosts /\ bad' \in Bads /\ Excused(bad')
    BY <1>2, <1>3, <1>4
  <1>7. HostOK(h, bad.before) /\ HostOK(o, bad.before) /\ Ground(h) /\ next[h] \in Nat /\ next[o] \in Nat
    BY <1>1, WorldFacts DEF IInv
  <1> HIDE DEF o, b
  <1>8. HostOK(h, bad.before)'
    <2>1. Steady(b) => w.t.was < next[o]
      BY DEF Calls, o, b
    <2>2. SinksKnow(w.t, tun[o], b, 0) /\ SourcesKnow(w.t, tun[o], b)
      BY DEF Calls, o, b
    <2> QED
      BY <1>1, <1>3, <1>5, <2>1, <2>2 DEF HostOK, o
  <1>9. HostOK(o, bad.before)'
    <2>1. Steady(b) => tun[o].was < next[h]
      BY <1>1, <1>3, <1>7, Earlier DEF HostOK
    <2>2. tun[o].was \in Nat
      BY <1>7 DEF HostOK, TunnelOK, Tunnels
    <2>3. SinksKnow(tun[o], tun[h], bad.before, 0) /\ SourcesKnow(tun[o], tun[h], bad.before)
      BY <1>1, <1>7 DEF HostOK
    <2>4. SinksKnow(tun[o], w.t, b, 0) /\ SourcesKnow(tun[o], w.t, b)
      BY <1>3, <1>7, <2>1, <2>2, <2>3, KnowStays
    <2>5. Steady(b) => tun[o].was < w.next
      BY <1>3, <1>7, <2>1, <2>2
    <2>6. TunnelOK(o, tun[o], next[o]) /\ have[o] \subseteq Wants[o]
      BY <1>7 DEF HostOK
    <2> QED
      BY <1>1, <1>5, <2>4, <2>5, <2>6 DEF HostOK
  <1>10. ASSUME NEW p \in n PROVE PacketOK(p, bad.before)'
    <2>1. PacketOK(p, bad.before)
      BY DEF IInv
    <2>2. p.to \in Hosts /\ p.tid \in Nat /\ p.from \in Nat \ {0} /\ p.msgs \in Seq(Message)
      BY <2>1 DEF PacketOK
    <2>3. Steady(b) => p.tid < next[p.to] /\ p.from < next[Other(p.to)]
      BY <1>3, <2>1, Earlier DEF PacketOK
    <2>4. \A k \in DOMAIN p.msgs : /\ SaidBy(p.msgs[k], tun[Other(p.to)], p.from, bad.before)
                                   /\ SaidTo(p.msgs[k], tun[p.to], p.tid, bad.before)
      BY <2>1 DEF PacketOK
    <2>5. CASE p.to = h
      <3>1. Steady(b) => p.tid < next[h] /\ p.from < next[o]
        BY <2>3, <2>5 DEF o
      <3>2. \A k \in DOMAIN p.msgs : /\ SaidBy(p.msgs[k], tun[o], p.from, bad.before)
                                     /\ SaidTo(p.msgs[k], tun[h], p.tid, bad.before)
        BY <2>4, <2>5 DEF o
      <3>3. ASSUME NEW k \in DOMAIN p.msgs
            PROVE  SaidBy(p.msgs[k], tun[o], p.from, b) /\ SaidTo(p.msgs[k], w.t, p.tid, b)
        <4>1. SaidBy(p.msgs[k], tun[o], p.from, b)
          BY <1>3, <3>2, SaidLater
        <4>2. SaidTo(p.msgs[k], w.t, p.tid, b)
          BY <1>3, <1>7, <2>2, <3>1, <3>2, SaidToStays
        <4> QED
          BY <4>1, <4>2
      <3>4. Steady(b) => p.tid < w.next /\ p.from < next[o]
        BY <1>3, <1>7, <2>2, <3>1
      <3>5. tun'[p.to] = w.t /\ tun'[Other(p.to)] = tun[o] /\ next'[p.to] = w.next /\ next'[Other(p.to)] = next[o]
        BY <1>5, <2>5 DEF o
      <3> QED
        BY <1>5, <2>2, <3>3, <3>4, <3>5 DEF PacketOK
    <2>6. CASE p.to = o
      <3>1. Steady(b) => p.tid < next[o] /\ p.from < next[h]
        BY <1>1, <2>3, <2>6
      <3>2. \A k \in DOMAIN p.msgs : /\ SaidBy(p.msgs[k], tun[h], p.from, bad.before)
                                     /\ SaidTo(p.msgs[k], tun[o], p.tid, bad.before)
        BY <1>1, <2>4, <2>6
      <3>3. ASSUME NEW k \in DOMAIN p.msgs
            PROVE  SaidBy(p.msgs[k], w.t, p.from, b) /\ SaidTo(p.msgs[k], tun[o], p.tid, b)
        <4>1. SaidTo(p.msgs[k], tun[o], p.tid, b)
          BY <1>3, <3>2, SaidLater
        <4>2. SaidBy(p.msgs[k], w.t, p.from, b)
          BY <1>3, <1>7, <2>2, <3>1, <3>2, SaidByStays
        <4> QED
          BY <4>1, <4>2
      <3>4. Steady(b) => p.tid < next[o] /\ p.from < w.next
        BY <1>3, <1>7, <2>2, <3>1
      <3>5. tun'[p.to] = tun[o] /\ tun'[Other(p.to)] = w.t /\ next'[p.to] = next[o] /\ next'[Other(p.to)] = w.next
        BY <1>1, <1>5, <2>6
      <3> QED
        BY <1>5, <2>2, <3>3, <3>4, <3>5 DEF PacketOK
    <2> QED
      BY <1>1, <2>2, <2>5, <2>6
  <1>11. ASSUME NEW p \in on_send(h, w) PROVE PacketOK(p, bad.before)'
    <2>1. SentOK(p, h, w)
      BY <1>7, SendKeeps
    <2>2. /\ p.to = o /\ p.tid \in Nat /\ p.from \in Nat \ {0} /\ p.msgs \in Seq(Message)
          /\ Steady(b) => p.tid < next[o] /\ p.from < w.next
          /\ \A k \in DOMAIN p.msgs : SaidBy(p.msgs[k], w.t, p.from, b) /\ SaidTo(p.msgs[k], tun[o], p.tid, b)
      BY <2>1 DEF SentOK, o, b
    <2>3. tun'[p.to] = tun[o] /\ tun'[Other(p.to)] = w.t /\ next'[p.to] = next[o] /\ next'[Other(p.to)] = w.next
      BY <1>1, <1>5, <2>2
    <2> QED
      BY <1>1, <1>5, <2>2, <2>3 DEF PacketOK
  <1>12. \A p \in net' : PacketOK(p, bad.before)'
    BY <1>4, <1>10, <1>11
  <1>13. \A x \in Hosts : HostOK(x, bad.before)'
    BY <1>1, <1>8, <1>9
  <1> QED
    BY <1>6, <1>12, <1>13 DEF IInv

\* How many things may go wrong.
LEMMA LeftKeeps ==
  ASSUME IInv, Free \/ Spend
  PROVE  left' \in 0 .. MaxTrouble
  <1>1. left \in 0 .. MaxTrouble /\ MaxTrouble \in Nat
    BY TunnelAssumption DEF IInv
  <1> QED
    BY <1>1 DEF Free, Spend

\* A peer is found.
LEMMA FoundKeeps ==
  ASSUME IInv, NEW h \in Hosts, NEW r \in Wants[h], Found(h, r)
  PROVE  IInv'
  <1> DEFINE w == get_tunnel(World(h))
             v == [w EXCEPT !.t.cells = Append(@, Cell("source", r))]
             i == Len(v.t.cells)
             u == IF v.t.open THEN P2pSource_open(v, i) ELSE v
  <1>1. Become(h, u, net) /\ Free
    BY DEF Found
  <1>2. Ground(h) /\ Calls(h, World(h), 0)
    BY WorldFacts
  <1>3. Calls(h, w, 0) /\ w.t.on
    BY <1>2, TunnelKeeps
  <1> HIDE DEF w
  <1>4. r \in Rids
    BY TunnelAssumption
  <1> DEFINE j == Len(w.t.cells) + 1
  <1>5. Calls(h, v, 0) /\ CellAdded(w, j, Cell("source", r), v)
    <2>1. v = [w EXCEPT !.t.cells = Append(@, Cell("source", r))] /\ "source" \in {"source", "sink"}
          /\ 0 = IF "source" = "sink" THEN j ELSE 0
      OBVIOUS
    <2> HIDE DEF v, j
    <2>2. j = Len(w.t.cells) + 1
      BY DEF j
    <2> QED
      BY <1>2, <1>3, <1>4, <2>1, <2>2, AddKeeps
  <1> HIDE DEF v, j
  <1>6. i = j /\ i \in DOMAIN v.t.cells /\ v.t.cells[i] = Cell("source", r)
    BY <1>5 DEF CellAdded
  <1>7. Cell("source", r).kind = "source" /\ Cell("source", r).pid = 0
    BY <1>4, NewCell
  <1>8. i \in Sources(v.t) /\ v.t.cells[i].pid = 0
    BY <1>6, <1>7 DEF Sources
  <1> HIDE DEF i
  <1>9. Calls(h, u, 0)
    BY <1>2, <1>5, <1>8, BindKeeps
  <1>10. left' \in 0 .. MaxTrouble
    BY <1>1, LeftKeeps
  <1> HIDE DEF u
  <1> QED
    BY <1>1, <1>9, <1>10, BecomeKeeps

\* A handler of host h has run, which has received the packets that are not in n.
LEMMA HandlerKeeps ==
  ASSUME IInv, NEW h \in Hosts, NEW w, Calls(h, w, 0), NEW n \in SUBSET net, Become(h, w, n), Free \/ Spend
  PROVE  IInv'
  BY LeftKeeps, BecomeKeeps

\* A source is asked by the scheduler.
LEMMA AskedKeeps ==
  ASSUME IInv, NEW h \in Hosts, NEW i, Asked(h, i)
  PROVE  IInv'
  <1> DEFINE w == World(h)
  <1>1. Ground(h) /\ Calls(h, w, 0) /\ w.t = tun[h]
    BY WorldFacts
  <1>2. i \in Sources(tun[h]) /\ Become(h, on_ready(w, i), net) /\ Free
    BY DEF Asked
  <1> HIDE DEF w
  <1>3. Calls(h, on_ready(w, i), 0)
    BY <1>1, <1>2, ReadyKeeps
  <1> QED
    BY <1>2, <1>3, HandlerKeeps

\* A packet is received, once or again, or lost.
LEMMA PacketKeeps ==
  ASSUME IInv, NEW p \in net, Receive(p) \/ ReceiveAgain(p) \/ Lose(p)
  PROVE  IInv'
  <1>1. p.to \in Hosts /\ Calls(p.to, on_recv(p.to, p), 0)
    BY RecvKeeps
  <1>2. CASE Receive(p)
    <2>1. net \ {p} \in SUBSET net
      OBVIOUS
    <2> QED
      BY <1>1, <1>2, <2>1, HandlerKeeps DEF Receive
  <1>3. CASE ReceiveAgain(p)
    BY <1>1, <1>3, HandlerKeeps DEF ReceiveAgain, Trouble
  <1>4. CASE Lose(p)
    <2>1. left' \in 0 .. MaxTrouble
      BY <1>4, LeftKeeps DEF Lose, Trouble
    <2>2. net' \subseteq net /\ tun' = tun /\ next' = next /\ have' = have /\ bad' = bad
      BY <1>4 DEF Lose
    <2>3. ASSUME NEW q \in net PROVE PacketOK(q, bad.before)'
      <3>1. PacketOK(q, bad.before)
        BY DEF IInv
      <3> QED
        BY <2>2, <3>1 DEF PacketOK
    <2>4. ASSUME NEW h \in Hosts PROVE HostOK(h, bad.before)'
      <3>1. HostOK(h, bad.before)
        BY DEF IInv
      <3> QED
        BY <2>2, <3>1 DEF HostOK
    <2> QED
      BY <2>1, <2>2, <2>3, <2>4 DEF IInv
  <1> QED
    BY <1>2, <1>3, <1>4

\* A timer runs, when it is due or too soon.
LEMMA TimersKeep ==
  ASSUME IInv, NEW h \in Hosts, NEW i, Timer(h) \/ Silence(h) \/ Hasty(h, i)
  PROVE  IInv'
  <1> DEFINE w == World(h)
  <1>1. Ground(h) /\ Calls(h, w, 0) /\ w.out = <<>> /\ w.t = tun[h] /\ w \in Worlds
    BY WorldFacts
  <1>2. CASE Timer(h)
    BY <1>2, TimerKeeps, HandlerKeeps DEF Timer
  <1>3. CASE Silence(h)
    <2>1. tun[h].on /\ Become(h, Listener_silence(w), net) /\ Spend
      BY <1>3 DEF Silence, Trouble
    <2> HIDE DEF w
    <2>2. Calls(h, Listener_silence(w), 0)
      BY <1>1, <2>1, SilenceKeeps
    <2> QED
      BY <2>1, <2>2, HandlerKeeps
  <1>4. CASE Hasty(h, i)
    <2>1. /\ tun[h].on /\ Spend
          /\ \/ ~tun[h].open /\ Become(h, Listener_retry(w), net)
             \/ i \in Sources(tun[h]) /\ Become(h, P2pSource_on_timer(w, i), net)
      BY <1>4 DEF Hasty, Trouble
    <2> HIDE DEF w
    <2>2. CASE ~tun[h].open /\ Become(h, Listener_retry(w), net)
      <3>1. Calls(h, Listener_retry(w), 0)
        BY <1>1, <2>1, <2>2, RetryKeeps
      <3> QED
        BY <2>1, <2>2, <3>1, HandlerKeeps
    <2>3. CASE i \in Sources(tun[h]) /\ Become(h, P2pSource_on_timer(w, i), net)
      <3>1. Calls(h, P2pSource_on_timer(w, i), 0)
        BY <1>1, <2>3, SourceTimerKeeps
      <3> QED
        BY <2>1, <2>3, <3>1, HandlerKeeps
    <2> QED
      BY <2>1, <2>2, <2>3
  <1> QED
    BY <1>2, <1>3, <1>4

\* A host is started again.  The slots of one that downloads are given again, which is
\* noted; the other had no sources that somebody could know.
LEMMA RestartKeeps ==
  ASSUME IInv, NEW h \in Hosts, Restart(h)
  PROVE  IInv'
  <1> DEFINE o == Other(h)
             b == bad'.before
  <1>1. o \in Hosts /\ o # h /\ Other(o) = h /\ Hosts = {h, o}
    BY OtherFacts
  <1>2. DOMAIN tun = Hosts /\ next \in [Hosts -> Nat \ {0}] /\ DOMAIN have = Hosts /\ bad \in Bads /\ Excused(bad)
    BY DEF IInv
  <1>3. tun' = [tun EXCEPT ![h] = NoTunnel] /\ next' = [next EXCEPT ![h] = 1] /\ have' = [have EXCEPT ![h] = {}] /\ net' = net
        /\ bad' = [bad EXCEPT !.before = @ \union {IF Wants[h] = {} THEN "restart" ELSE "reborn"}]
    BY DEF Restart
  <1>4. tun'[h] = NoTunnel /\ tun'[o] = tun[o] /\ next'[h] = 1 /\ next'[o] = next[o] /\ have'[h] = {} /\ have'[o] = have[o]
    BY <1>1, <1>2, <1>3
  <1>5. /\ bad' \in Bads /\ bad'.fault = bad.fault /\ bad'.wrong = bad.wrong
        /\ b = bad.before \union {IF Wants[h] = {} THEN "restart" ELSE "reborn"}
    <2> DEFINE s == IF Wants[h] = {} THEN "restart" ELSE "reborn"
    <2>1. s \in Notes
      BY DEF Notes
    <2>2. bad' = [bad EXCEPT !.before = @ \union {s}]
      BY <1>3
    <2>3. b = bad'.before
      OBVIOUS
    <2> HIDE DEF s
    <2>4. bad' \in Bads /\ bad'.fault = bad.fault /\ bad'.wrong = bad.wrong /\ bad'.before = bad.before \union {s}
      BY <1>2, <2>1, <2>2 DEF Bads
    <2> QED
      BY <2>3, <2>4 DEF s
  <1>6. ~Steady(b) /\ (Pure(b) => Pure(bad.before) /\ Wants[h] = {}) /\ bad.before \subseteq b
    BY <1>5 DEF Steady, Pure
  <1>7. Excused(bad')
    BY <1>2, <1>5, <1>6 DEF Excused
  <1>8. HostOK(h, bad.before) /\ HostOK(o, bad.before)
    BY <1>1 DEF IInv
  <1>9. Wants[h] = {} => Sources(tun[h]) = {}
    BY <1>8 DEF HostOK, TunnelOK, Sources
  <1>10. \A i, r : ~(Pure(b) /\ Asks(tun[h], i, r, bad.before))
    BY <1>6, <1>9 DEF Asks
  <1>11. DOMAIN NoTunnel.cells = {}
    BY NoTunnelFacts
  <1>20. b = bad'.before
    OBVIOUS
  <1> HIDE DEF o, b
  <1>12. HostOK(h, bad.before)'
    <2>1. TunnelOK(h, NoTunnel, 1)
      BY NoTunnelOK
    <2>2. SinksKnow(NoTunnel, tun[o], b, 0) /\ SourcesKnow(NoTunnel, tun[o], b)
      BY <1>11 DEF SinksKnow, SourcesKnow, Sources
    <2>3. tun'[Other(h)] = tun[o]
      BY <1>4 DEF o
    <2> QED
      BY <1>4, <1>6, <1>20, <2>1, <2>2, <2>3 DEF HostOK
  <1>13. HostOK(o, bad.before)'
    <2>1. TunnelOK(o, tun[o], next[o]) /\ have[o] \subseteq Wants[o] /\ SinksKnow(tun[o], tun[h], bad.before, 0)
      BY <1>1, <1>8 DEF HostOK
    <2>2. SinksKnow(tun[o], NoTunnel, b, 0)
      BY <1>6, <1>10, <2>1 DEF SinksKnow
    <2>3. SourcesKnow(tun[o], NoTunnel, b)
      BY <1>6 DEF SourcesKnow
    <2>4. tun'[Other(o)] = NoTunnel
      BY <1>1, <1>4
    <2> QED
      BY <1>4, <1>6, <1>20, <2>1, <2>2, <2>3, <2>4 DEF HostOK
  <1>14. ASSUME NEW p \in net PROVE PacketOK(p, bad.before)'
    <2>1. PacketOK(p, bad.before)
      BY DEF IInv
    <2>2. p.to \in Hosts /\ p.tid \in Nat /\ p.from \in Nat \ {0} /\ p.msgs \in Seq(Message)
      BY <2>1 DEF PacketOK
    <2>3. \A k \in DOMAIN p.msgs : /\ SaidBy(p.msgs[k], tun[Other(p.to)], p.from, bad.before)
                                   /\ SaidTo(p.msgs[k], tun[p.to], p.tid, bad.before)
      BY <2>1 DEF PacketOK
    <2>4. CASE p.to = h
      <3>1. ASSUME NEW k \in DOMAIN p.msgs
            PROVE  SaidBy(p.msgs[k], tun[o], p.from, b) /\ SaidTo(p.msgs[k], NoTunnel, p.tid, b)
        <4>1. SaidBy(p.msgs[k], tun[o], p.from, bad.before) /\ SaidTo(p.msgs[k], tun[h], p.tid, bad.before)
          BY <2>3, <2>4 DEF o
        <4>2. SaidBy(p.msgs[k], tun[o], p.from, b)
          BY <1>6, <4>1, SaidLater
        <4>3. SaidTo(p.msgs[k], NoTunnel, p.tid, b)
          BY <1>6, <1>10, <4>1 DEF SaidTo
        <4> QED
          BY <4>2, <4>3
      <3>2. tun'[p.to] = NoTunnel /\ tun'[Other(p.to)] = tun[o]
        BY <1>4, <2>4 DEF o
      <3> QED
        BY <1>6, <1>20, <2>2, <3>1, <3>2 DEF PacketOK
    <2>5. CASE p.to = o
      <3>1. ASSUME NEW k \in DOMAIN p.msgs
            PROVE  SaidBy(p.msgs[k], NoTunnel, p.from, b) /\ SaidTo(p.msgs[k], tun[o], p.tid, b)
        <4>1. SaidBy(p.msgs[k], tun[h], p.from, bad.before) /\ SaidTo(p.msgs[k], tun[o], p.tid, bad.before)
          BY <1>1, <2>3, <2>5
        <4>2. SaidTo(p.msgs[k], tun[o], p.tid, b)
          BY <1>6, <4>1, SaidLater
        <4>3. SaidBy(p.msgs[k], NoTunnel, p.from, b)
          BY <1>6, <1>9, <4>1 DEF SaidBy
        <4> QED
          BY <4>2, <4>3
      <3>2. tun'[p.to] = tun[o] /\ tun'[Other(p.to)] = NoTunnel
        BY <1>1, <1>4, <2>5
      <3> QED
        BY <1>6, <1>20, <2>2, <3>1, <3>2 DEF PacketOK
    <2> QED
      BY <1>1, <2>2, <2>4, <2>5
  <1>15. left' \in 0 .. MaxTrouble
    BY LeftKeeps DEF Restart
  <1>16. DOMAIN tun' = Hosts /\ next' \in [Hosts -> Nat \ {0}] /\ DOMAIN have' = Hosts
    BY <1>2, <1>3
  <1>17. \A x \in Hosts : HostOK(x, bad.before)'
    BY <1>1, <1>12, <1>13
  <1>18. \A p \in net' : PacketOK(p, bad.before)'
    BY <1>3, <1>14
  <1> QED
    BY <1>5, <1>7, <1>15, <1>16, <1>17, <1>18 DEF IInv

-----------------------------------------------------------------------------
(* The theorems *)

\* Nothing is wrong at the start.
LEMMA InitIInv == Init => IInv
  <1> SUFFICES ASSUME Init PROVE IInv
    OBVIOUS
  <1>1. tun = [h \in Hosts |-> NoTunnel] /\ next = [h \in Hosts |-> 1] /\ net = {} /\ have = [h \in Hosts |-> {}]
        /\ left = MaxTrouble /\ bad = [fault |-> FALSE, wrong |-> FALSE, before |-> {}]
    BY DEF Init
  <1>2. bad \in Bads /\ Excused(bad)
    BY <1>1 DEF Bads, Excused
  <1>3. DOMAIN NoTunnel.cells = {}
    BY NoTunnelFacts
  <1>4. ASSUME NEW h \in Hosts PROVE HostOK(h, bad.before)
    <2>1. Other(h) \in Hosts
      BY OtherFacts
    <2>2. TunnelOK(h, NoTunnel, 1) /\ NoTunnel.was < 1
      BY NoTunnelOK, NoTunnelFacts
    <2>3. SinksKnow(NoTunnel, NoTunnel, bad.before, 0) /\ SourcesKnow(NoTunnel, NoTunnel, bad.before)
      BY <1>3 DEF SinksKnow, SourcesKnow, Sources
    <2> QED
      BY <1>1, <2>1, <2>2, <2>3 DEF HostOK
  <1>5. left \in 0 .. MaxTrouble
    BY <1>1, TunnelAssumption
  <1> QED
    BY <1>1, <1>2, <1>4, <1>5 DEF IInv

\* Every step keeps the invariant.
LEMMA NextIInv == IInv /\ [Next]_vars => IInv'
  <1> SUFFICES ASSUME IInv, [Next]_vars PROVE IInv'
    OBVIOUS
  <1>1. CASE Next
    <2>1. CASE \E h \in Hosts : \E r \in Wants[h] : Found(h, r)
      BY <2>1, FoundKeeps
    <2>2. CASE \E p \in net : Receive(p) \/ ReceiveAgain(p) \/ Lose(p)
      BY <2>2, PacketKeeps
    <2>3. CASE \E h \in Hosts : Timer(h) \/ Silence(h)
      BY <2>3, TimersKeep
    <2>4. CASE \E h \in Restarting : Restart(h)
      BY <2>4, RestartKeeps, TunnelAssumption
    <2>5. CASE \E h \in Hosts : \E i \in 0 .. Len(tun[h].cells) : Hasty(h, i) \/ Asked(h, i)
      BY <2>5, TimersKeep, AskedKeeps
    <2> QED
      BY <1>1, <2>1, <2>2, <2>3, <2>4, <2>5 DEF Next
  <1>2. CASE UNCHANGED vars
    <2>1. tun' = tun /\ next' = next /\ net' = net /\ have' = have /\ left' = left /\ bad' = bad
      BY <1>2 DEF vars
    <2>2. ASSUME NEW q \in net PROVE PacketOK(q, bad.before)'
      <3>1. PacketOK(q, bad.before)
        BY DEF IInv
      <3> QED
        BY <2>1, <3>1 DEF PacketOK
    <2>3. ASSUME NEW h \in Hosts PROVE HostOK(h, bad.before)'
      <3>1. HostOK(h, bad.before)
        BY DEF IInv
      <3> QED
        BY <2>1, <3>1 DEF HostOK
    <2> QED
      BY <2>1, <2>2, <2>3 DEF IInv
  <1> QED
    BY <1>1, <1>2

\* The invariant says that the sessions of both ends are in order.
LEMMA IInvSessions == IInv => SessionsInv
  <1> SUFFICES ASSUME IInv PROVE SessionsInv
    OBVIOUS
  <1>1. TypeOK
    <2>1. ASSUME NEW h \in Hosts
          PROVE  /\ tun[h].tid < next[h] /\ tun[h].on = (tun[h].tid # 0) /\ tun[h].open = (tun[h].pid # 0)
                 /\ \A i \in DOMAIN tun[h].cells : tun[h].cells[i].kind \in {"source", "sink", "gone"}
                 /\ have[h] \subseteq Wants[h]
      <3>1. TunnelOK(h, tun[h], next[h]) /\ have[h] \subseteq Wants[h]
        BY DEF IInv, HostOK
      <3>2. tun[h].cells \in Seq(SomeCell)
        BY <3>1 DEF TunnelOK, Tunnels
      <3>3. \A i \in DOMAIN tun[h].cells : tun[h].cells[i] \in SomeCell
        BY <3>2
      <3> QED
        BY <3>1, <3>3 DEF TunnelOK, SomeCell
    <2>2. \A p \in net : p.msgs \in Seq(Message)
      BY DEF IInv, PacketOK
    <2>3. left \in 0 .. MaxTrouble
      BY DEF IInv
    <2> QED
      BY <2>1, <2>2, <2>3 DEF TypeOK
  <1>2. BoundToItsSink
    <2> DEFINE p(h) == tun[Other(h)]
               c(h, i) == tun[h].cells[i]
    <2>1. ASSUME NEW h \in Hosts, NEW i \in Sources(tun[h]), bad.before = {}, tun[h].pid = p(h).tid,
                 c(h, i).pid \in DOMAIN p(h).cells
          PROVE  \/ p(h).cells[c(h, i).pid].kind = "gone"
                 \/ p(h).cells[c(h, i).pid].kind = "sink" /\ p(h).cells[c(h, i).pid].rid = c(h, i).rid
      <3>1. Other(h) \in Hosts
        BY OtherFacts
      <3>2. HostOK(h, bad.before) /\ HostOK(Other(h), bad.before)
        BY <3>1 DEF IInv
      <3>3. TunnelOK(h, tun[h], next[h]) /\ TunnelOK(Other(h), p(h), next[Other(h)]) /\ SourcesKnow(tun[h], p(h), bad.before)
        BY <3>2 DEF HostOK
      <3>4. p(h).cells \in Seq(SomeCell)
        BY <3>3 DEF TunnelOK, Tunnels
      <3>5. c(h, i).pid # 0
        BY <2>1, <3>4
      <3>6. Steady(bad.before)
        BY <2>1 DEF Steady
      <3>7. p(h).tid # 0
        <4>1. ASSUME p(h).tid = 0 PROVE FALSE
          <5>1. p(h) = NoTunnel
            BY <3>3, <4>1 DEF TunnelOK
          <5> QED
            BY <2>1, <5>1, NoTunnelFacts
        <4> QED
          BY <4>1
      <3>8. tun[h].was = p(h).tid
        BY <2>1, <3>3, <3>7 DEF TunnelOK
      <3>9. Taken(p(h), c(h, i).pid, c(h, i).rid, bad.before)
        BY <3>3, <3>5, <3>6, <3>8 DEF SourcesKnow
      <3>10. p(h).cells[c(h, i).pid] \in SomeCell
        BY <2>1, <3>4
      <3> QED
        BY <2>1, <3>9, <3>10 DEF Taken, SomeCell
    <2> QED
      BY <2>1 DEF BoundToItsSink
  <1> QED
    BY <1>1, <1>2 DEF SessionsInv

\* The sessions of both ends of a tunnel are in order, whatever is lost, repeated or late: each
\* source that is bound is bound to the sink of its resource, or to a slot that is free, until
\* something has happened that is noted (UdpTunnel, UdpSessionListener, P2pSource, P2pSink).
THEOREM SessionsAgree == Spec => []SessionsInv
  <1>1. Init => IInv
    BY InitIInv
  <1>2. IInv /\ [Next]_vars => IInv'
    BY NextIInv
  <1>3. IInv => SessionsInv
    BY IInvSessions
  <1> QED
    BY <1>1, <1>2, <1>3, PTL DEF Spec

\* An assertion fails, and data is taken for that of another resource, only after one of the
\* things that are noted (P2pSource::on_msg, UdpSessionListener::on_msg).
THEOREM CausesAreKnown == Spec => []FaultsHaveCauses
  <1>1. Init => IInv
    BY InitIInv
  <1>2. IInv /\ [Next]_vars => IInv'
    BY NextIInv
  <1>3. IInv => FaultsHaveCauses
    BY DEF IInv, Excused, Steady, FaultsHaveCauses
  <1> QED
    BY <1>1, <1>2, <1>3, PTL DEF Spec
=============================================================================
