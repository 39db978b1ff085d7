--------------------------------- MODULE Bus ---------------------------------
(***************************************************************************)
(* The bus of the UDP socket (net/, udp/, timer/): slots for the tunnels,  *)
(* the tunnels that have something to send, the slots that rest after a    *)
(* tunnel has gone, the statistics, and the ticks that drive all of it.    *)
(*                                                                         *)
(* The cell of a slot is a UdpTunnel, here its sessions beside the         *)
(* listener and the Fifo of what they have pushed (for each message the    *)
(* session that did).  Slot 0 is the tunnel that listens; it neither sends *)
(* nor ends.  A handler of the socket ends with UdpSocket::send, one step  *)
(* for each packet while sending is set; nothing else runs meanwhile.      *)
(*                                                                         *)
(* Times are relative to the time of the last tick, in units of which      *)
(* Second make a second; so a time that has come is zero or negative.      *)
(***************************************************************************)
EXTENDS Integers, FiniteSets, SequencesExt

CONSTANTS
  Limit,      \* how many slots are used before one that rests is taken: 0xffff
  Second,     \* the units of a second
  TimeWait,   \* how long a slot rests: 600 s
  Periods,    \* the periods of the ticks: 10 ms, 100 ms, 1 s, 10 s
  Lates,      \* how late the timer may be
  FifoLimit,  \* the limit of the Fifo of a tunnel: 16
  Capacity,   \* how many messages a packet takes
  MaxOwn      \* bound: how many sources and finders this host makes

VARIABLES
  slots,   \* array_: the flags of a slot and timeo, the seconds from its expiry to the next
  next,    \* next_id_
  tmwait,  \* tmwait_slots_
  base,    \* time_base_: when the first of them expires (0 while there is none)
  tail,    \* time_tail_: when the last does
  signals, \* signal_slots_
  cells,   \* the tunnel of a slot
  due,     \* expire_10ms_, expire_100ms_, ...
  stat,    \* of the socket: time_next_ and time_last_
  sending, \* whether UdpSocket::send is running
  age,     \* for how long a slot rests or has rested, for the properties
  fault    \* "none", the assertion that failed, or the division by zero

vars == <<slots, next, tmwait, base, tail, signals, cells, due, stat, sending, age, fault>>

Ids  == 0 .. Limit
Ticks == DOMAIN Periods

ASSUME BusAssumption ==
  /\ {Limit, Second, TimeWait, FifoLimit, Capacity, MaxOwn} \subseteq Nat \ {0} /\ Lates \subseteq Nat
  /\ Periods \in Seq(Nat \ {0}) /\ Periods # <<>>
  /\ \A k \in DOMAIN Periods \ {1} : Periods[k] >= 2 * Periods[k - 1]

Slot   == [flags |-> {}, timeo |-> 0]
NoCell == [sessions |-> {}, open |-> FALSE, queue |-> <<>>]
Tunnel(sessions) == [NoCell EXCEPT !.sessions = sessions]

World == [slots |-> slots, next |-> next, tmwait |-> tmwait, base |-> base, tail |-> tail,
          signals |-> signals, cells |-> cells, age |-> age, fault |-> fault]
Become(w) ==
  /\ slots' = w.slots /\ next' = w.next /\ tmwait' = w.tmwait /\ base' = w.base /\ tail' = w.tail
  /\ signals' = w.signals /\ cells' = w.cells /\ age' = w.age /\ fault' = w.fault

Active(w) == {i \in Ids : "active" \in w.slots[i].flags}
Used(w)   == {i \in Ids : w.slots[i] # Slot}

-----------------------------------------------------------------------------
(* Slots.                                                                    *)

\* Mutant of Awake: the time of the next slot is not worked out.
Awake_Stale(w) ==
  LET i == Head(w.tmwait)
      rest == Tail(w.tmwait)
  IN  [w EXCEPT !.tmwait = rest, !.slots[i].timeo = 0,
                !.base = IF rest = <<>> THEN 0 ELSE @,
                !.tail = IF rest = <<>> THEN 0 ELSE @]
\* The slot that has rested longest rests no more.
Awake(w) ==
  LET i == Head(w.tmwait)
      rest == Tail(w.tmwait)
  IN  [w EXCEPT !.tmwait = rest, !.slots[i].timeo = 0,
                !.base = IF rest = <<>> THEN 0 ELSE @ + Second * w.slots[i].timeo,
                !.tail = IF rest = <<>> THEN 0 ELSE @]
slot_free(w, i) == [w EXCEPT !.slots[i] = Slot]

slot_alloc(w) ==
  LET empty == {k \in Ids : w.slots[(w.next + k) % (Limit + 1)] = Slot}
      id == (w.next + CHOOSE k \in empty : \A j \in empty : k <= j) % (Limit + 1)
  IN  IF Cardinality(Used(w)) < Limit
      THEN [w |-> [w EXCEPT !.next = (id + 1) % (Limit + 1), !.slots[id].flags = {"used"}], id |-> id]
      ELSE IF w.tmwait # <<>> THEN [w |-> Awake(w), id |-> Head(w.tmwait)]
      ELSE [w |-> [w EXCEPT !.fault = "full"], id |-> 0]

\* Cell::attach: add and slot_attach.
add(w, tunnel) ==
  LET a == slot_alloc(w)
  IN  IF a.w.fault # "none" THEN a
      ELSE [w |-> [a.w EXCEPT !.slots[a.id].flags = @ \union {"active"}, !.cells[a.id] = tunnel], id |-> a.id]

\* slot_detach: the expiry of the slot is kept as whole seconds after that of the
\* slot before it.  The slot stays in signals if it is there.
\* Mutant of slot_detach: the tail is the exact expiry.
slot_detach_Drift(w, i) ==
  LET alone == w.tmwait = <<>>
      timeo == (TimeWait - w.tail) \div Second
      gone  == [w EXCEPT !.slots[i] = [flags |-> {"used"}, timeo |-> 0], !.cells[i] = NoCell,
                         !.tmwait = Append(@, i), !.age[i] = 0, !.tail = TimeWait]
  IN  IF alone THEN [gone EXCEPT !.base = TimeWait]
      ELSE [gone EXCEPT !.slots[Last(w.tmwait)].timeo = timeo]
slot_detach(w, i) ==
  LET alone == w.tmwait = <<>>
      timeo == (TimeWait - w.tail) \div Second
      gone  == [w EXCEPT !.slots[i] = [flags |-> {"used"}, timeo |-> 0], !.cells[i] = NoCell,
                         !.tmwait = Append(@, i), !.age[i] = 0]
  IN  IF alone THEN [gone EXCEPT !.base = TimeWait, !.tail = TimeWait]
      ELSE [gone EXCEPT !.slots[Last(w.tmwait)].timeo = timeo, !.tail = @ + Second * timeo]

\* The second half of on_timer: one slot after the other, while the first has expired.
Released(v) == IF v.tmwait # <<>> /\ v.base < 0 THEN slot_free(Awake(v), Head(v.tmwait)) ELSE v
Release(w) ==
  LET v[n \in 0 .. Len(w.tmwait)] == IF n = 0 THEN w ELSE Released(v[n - 1])
  IN  v[Len(w.tmwait)]

-----------------------------------------------------------------------------
(* Queues and signals.                                                       *)

\* Bus::signal
signal(w, i) ==
  IF "signal" \in w.slots[i].flags THEN w
  ELSE [w EXCEPT !.slots[i].flags = @ \union {"signal"}, !.signals = Append(@, i)]

\* Cell::push: a message that finds the Fifo full is lost.
push(w, i, who) ==
  IF Len(w.cells[i].queue) >= FifoLimit THEN w
  ELSE signal([w EXCEPT !.cells[i].queue = Append(@, who)], i)

\* UdpTunnel::on_send: a packet of what there is.
on_send(w, i) == [w EXCEPT !.cells[i].queue = SubSeq(@, Capacity + 1, Len(@))]

\* Mutant of send_signal: a tunnel that has more to send is not kept.
send_signal_Once(w) ==
  LET i == Head(w.signals)
      v == on_send([w EXCEPT !.signals = Tail(@)], i)
  IN  IF "signal" \notin w.slots[i].flags THEN [w EXCEPT !.fault = "signal"]
      ELSE IF w.cells[i].queue = <<>> THEN [w EXCEPT !.fault = "empty"]
      ELSE [v EXCEPT !.slots[i].flags = @ \ {"signal"}]
\* send_signal: the first tunnel in the line sends, and goes to its end if it has more.
send_signal(w) ==
  LET i == Head(w.signals)
      v == on_send([w EXCEPT !.signals = Tail(@)], i)
  IN  IF "signal" \notin w.slots[i].flags THEN [w EXCEPT !.fault = "signal"]
      ELSE IF w.cells[i].queue = <<>> THEN [w EXCEPT !.fault = "empty"]
      ELSE IF v.cells[i].queue = <<>> THEN [v EXCEPT !.slots[i].flags = @ \ {"signal"}]
      ELSE [v EXCEPT !.signals = Append(@, i)]

-----------------------------------------------------------------------------
(* The timer of a tunnel, when that of its listener is due.                  *)

\* UdpSessionListener::connect, and the sessions that hear of it.
connect(w, i) ==
  LET c == push(w, i, "other")
  IN  IF w.cells[i].sessions \intersect {"source", "finder"} # {} THEN push(c, i, "other") ELSE c

\* P2pUdpFinder::on_tunnel_connecting, when the tracker has not answered: the finder
\* leaves for the tunnel of the next, a new one if that has gone.
rotate(w, i, to) ==
  LET left == [push(w, i, "other") EXCEPT !.cells[i].sessions = @ \ {"finder"}]
  IN  IF to \in Active(w) \ {0} THEN [left EXCEPT !.cells[to].sessions = @ \union {"finder"}]
      ELSE add(left, Tunnel({"finder"})).w

\* UdpSessionListener::on_timer of a tunnel that is not open: the tunnel goes when
\* there is nobody else in it.
Listener_retry(w, i, to) ==
  IF w.cells[i].sessions = {} THEN slot_detach(w, i)
  ELSE IF to # 0 /\ "finder" \in w.cells[i].sessions THEN rotate(w, i, to)
  ELSE connect(w, i)

\* The peer has not been heard for thirty seconds: the sinks are deleted.
Listener_silence(w, i) ==
  connect([w EXCEPT !.cells[i].open = FALSE, !.cells[i].sessions = @ \ {"sink"}], i)

\* UdpTunnel::on_timer; the tunnels whose turn is to come see what has become of them.
Tunnel_on_timer(w, i, silent, to) ==
  IF i \notin Active(w) THEN w
  ELSE IF ~w.cells[i].open THEN Listener_retry(w, i, to)
  ELSE IF silent THEN Listener_silence(w, i)
  ELSE push(w, i, "other")          \* ping

-----------------------------------------------------------------------------
(* The ticks.                                                                *)

\* A time that has come, moved on by the period until it has not.
\* Mutant of Advance: moved on once.
Advance_Once(t, p) == t + p
Advance(t, p) == IF t > 0 THEN t ELSE t + p * ((-t) \div p + 1)

\* TimerManager::handle_tick: a tick is looked at when the one before it is due.
handle_tick(t) ==
  [k \in Ticks |-> IF \A j \in 1 .. k : t[j] <= 0 THEN Advance(t[k], Periods[k]) ELSE t[k]]

\* Stat::on_timer: the interval that calc divides by is the time since the last one.
Stat_on_timer(s) == IF s.next <= 0 THEN [next |-> s.next + Second, last |-> 0] ELSE s
Divides0(s) == s.next <= 0 /\ s.last = 0

\* Time passes.
Later(w, d) ==
  [w EXCEPT !.base = IF w.tmwait = <<>> THEN 0 ELSE @ - d, !.tail = IF w.tmwait = <<>> THEN 0 ELSE @ - d,
            !.age = [i \in Ids |-> IF \E k \in DOMAIN w.tmwait : w.tmwait[k] = i THEN @[i] + d ELSE 0]]

\* UdpSocket::handle_timer: the slots in their order.  Slot 0 has no timer of this kind.
Turn(v, i, timers, silent, to) ==
  IF i \in timers /\ v.fault = "none" THEN Tunnel_on_timer(v, i, i \in silent, to) ELSE v
on_timer(w, timers, silent, to) ==
  LET v[i \in Ids] == IF i = 0 THEN w ELSE Turn(v[i - 1], i, timers, silent, to)
  IN  Release(v[Limit])

-----------------------------------------------------------------------------
\* Slot 0 is used when the socket is made.
Init ==
  /\ slots = [i \in Ids |-> IF i = 0 THEN [flags |-> {"used", "active"}, timeo |-> 0] ELSE Slot]
  /\ next = 1 /\ tmwait = <<>> /\ base = 0 /\ tail = 0 /\ signals = <<>>
  /\ cells = [i \in Ids |-> NoCell]
  /\ due = Periods
  /\ stat = [next |-> Second, last |-> 0]
  /\ sending = FALSE /\ age = [i \in Ids |-> 0] /\ fault = "none"

Waiting(w) == w.signals # <<>>

\* Where a finder goes that gives its tracker up: nowhere, or to the tunnel of the next.
Targets(timers) ==
  {0} \union (IF \E i \in timers : ~cells[i].open /\ "finder" \in cells[i].sessions
              THEN {i \in Ids \ {0} : cells[i] = NoCell} ELSE {})

\* The timer runs, late or not; a late one is not late again before the statistics
\* have caught up (a bound).
Tick ==
  /\ ~sending
  /\ \E late \in IF stat.next <= 0 THEN {0} ELSE Lates, timers \in SUBSET (Active(World) \ {0}) :
       \E silent \in SUBSET {i \in timers : cells[i].open}, to \in Targets(timers) :
         LET d == due[1] + late
             s == [next |-> stat.next - d, last |-> stat.last - d]
             w == on_timer(Later(World, d), timers, silent, to)
         IN  /\ due' = handle_tick([k \in Ticks |-> due[k] - d]) /\ stat' = Stat_on_timer(s)
             /\ Become(IF Divides0(s) THEN [w EXCEPT !.fault = "division"] ELSE w)
             /\ sending' = Waiting(w)

\* A handler of received packets that pushes what w has pushed, and sends it.
Received(w) == ~sending /\ Become(w) /\ sending' = Waiting(w) /\ UNCHANGED <<due, stat>>

\* A peer connects: UdpTunnelListener finds it, or makes its tunnel.
Accept == LET a == add(World, [NoCell EXCEPT !.open = TRUE])
          IN  Received(IF a.w.fault = "none" THEN push(a.w, a.id, "other") ELSE a.w)
\* The answer to a request to connect, or a request of the peer.
Connected(i) == ~cells[i].open /\ Received([World EXCEPT !.cells[i].open = TRUE])
Asked(i) == ~cells[i].open /\ Received(push([World EXCEPT !.cells[i].open = TRUE], i, "other"))
\* A session of the peer is bound to a sink, and asks it for two pieces.
Bound(i) == cells[i].open /\ "finder" \notin cells[i].sessions /\ Received(push([World EXCEPT !.cells[i].sessions = @ \union {"sink"}], i, "sink"))
Data(i)  == cells[i].open /\ "sink" \in cells[i].sessions /\ Received(push(push(World, i, "sink"), i, "sink"))
\* An answer makes a source ask for more.
Answer(i) == cells[i].open /\ "source" \in cells[i].sessions /\ Received(push(World, i, "other"))

\* Handlers of others than the socket: what they push waits for the next of its own.
Outside(w) == ~sending /\ Become(w) /\ UNCHANGED <<due, stat, sending>>
\* A source is made, or the finder is, for a peer that has a tunnel or not.
Attach(who) ==
  /\ Cardinality({i \in Active(World) : cells[i].sessions \intersect {"source", "finder"} # {}}) < MaxOwn
  /\ \/ \E i \in Active(World) \ {0} :
          LET w == [World EXCEPT !.cells[i].sessions = @ \union {who}]
          IN  Outside(IF cells[i].open THEN push(w, i, "other") ELSE w)
     \/ Outside(add(World, Tunnel({who})).w)
\* P2pSource::seek and request, of a sink that moves.
Seek(i) == "source" \in cells[i].sessions /\ Outside(push(World, i, "other"))

\* UdpSocket::send, one packet.
Send == sending /\ LET w == send_signal(World) IN Become(w) /\ sending' = Waiting(w) /\ UNCHANGED <<due, stat>>

Next ==
  /\ fault = "none"
  /\ \/ Tick \/ Accept \/ Send \/ Attach("source") \/ Attach("finder")
     \/ \E i \in Active(World) \ {0} : Connected(i) \/ Asked(i) \/ Bound(i) \/ Data(i) \/ Answer(i) \/ Seek(i)

CanTick == fault = "none" /\ ~sending /\ signals # <<>>
CanSend == fault = "none" /\ sending
\* Only Tick changes due and stat.
Ticked == due' # due \/ stat' # stat
Fairness == /\ []<>~CanTick \/ []<><<Ticked>>_vars
            /\ []<>~CanSend \/ []<><<Send>>_vars

Spec == Init /\ [][Next]_vars /\ Fairness

-----------------------------------------------------------------------------
TypeOK ==
  /\ \A i \in Ids : /\ slots[i].flags \in {{}, {"used"}, {"used", "active"}, {"used", "active", "signal"}}
                    /\ "active" \notin slots[i].flags => cells[i] = NoCell
                    /\ Len(cells[i].queue) <= FifoLimit
  /\ next \in Ids /\ Cardinality(Used(World)) <= Limit
  /\ sending => signals # <<>>

\* What can fail is that every slot has a tunnel (Bus.cpp:184): no tunnel without a
\* flag is asked to send, no packet is empty, and no interval of the statistics is zero,
\* however late the timer is.
FaultsHaveCauses ==
  /\ fault \in {"none", "full"}
  /\ fault = "full" => Cardinality(Active(World)) = Limit

\* The tunnels in the line are those that have something to send, once each, and
\* a session outlives what it has pushed: detaching a slot leaves it in the line
\* (Bus.cpp:211), so no tunnel and no sink may go before its Fifo has been sent.
SignalsAreLive ==
  /\ IsInjective(signals)
  /\ ToSet(signals) = {i \in Ids : cells[i].queue # <<>>}
  /\ \A i \in Ids : /\ ("signal" \in slots[i].flags) = (cells[i].queue # <<>>)
                    /\ "sink" \in ToSet(cells[i].queue) => "sink" \in cells[i].sessions

\* The slots that rest are those that are used without a tunnel, each once.
Rests == /\ IsInjective(tmwait)
         /\ ToSet(tmwait) = {i \in Ids : slots[i].flags = {"used"}}

\* A slot expires less than a second before its ten minutes are over and not after
\* them, though all but the first expiry are sums of whole seconds.
Expiry[k \in DOMAIN tmwait] ==
  IF k = 1 THEN base ELSE Expiry[k - 1] + Second * slots[tmwait[k - 1]].timeo
ExpiryIsClose ==
  \A k \in DOMAIN tmwait : TimeWait - age[tmwait[k]] - Expiry[k] \in 0 .. Second - 1

\* The slots as a whole: in use, in the line or at rest.
SlotsInv == TypeOK /\ FaultsHaveCauses /\ SignalsAreLive /\ Rests /\ ExpiryIsClose

\* The slot of a tunnel that has gone is not free before that time, and is given to
\* another one only when all slots are used: what comes late for the old tunnel finds
\* nobody.
Given(i) == i \in ToSet(tmwait) /\ i \notin ToSet(tmwait')
RestIsRespected ==
  [][\A i \in Ids : Given(i) =>
       IF "active" \in slots'[i].flags THEN Cardinality(Used(World)) >= Limit
       ELSE age'[i] > TimeWait - Second]_vars

\* No event of the timer is a whole period late, however late the timer itself has
\* been: the next tick lies in the future, and a coarse event waits for a finer one.
TimersKeepUp == due[1] > 0 /\ \A k \in Ticks : due[k] > -Periods[k]

\* What is pushed is sent: by the handler that pushed it, or by the next; unless the
\* program has ended.
Sent == \A i \in Ids \ {0} : cells[i].queue # <<>> ~> cells[i].queue = <<>> \/ fault # "none"
=============================================================================
