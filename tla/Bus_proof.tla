------------------------------ MODULE Bus_proof ------------------------------
(* Proofs about Bus, for every number of slots, all periods and however late the timer is. *)
EXTENDS Bus, WellFoundedInduction, FiniteSetTheorems, SequenceTheorems, TLAPS

-----------------------------------------------------------------------------
(* Numbers *)

\* Every set of numbers has a smallest: what induction comes down to.
LEMMA Smallest ==
  ASSUME NEW T, T \subseteq Nat, T # {}
  PROVE  \E x \in T : \A y \in T : x <= y
  <1>1. PICK x \in T : \A y \in T : ~ (<<y, x>> \in OpToRel(<, Nat))
    BY NatLessThanWellFounded, WFMin
  <1>2. \A y \in T : ~ (y < x)
    BY <1>1 DEF OpToRel
  <1> QED
    BY <1>2

\* What is there for 0, and for m + 1 if it is there for m, is there for all.
LEMMA Induct ==
  ASSUME NEW T, 0 \in T, \A m \in Nat : m \in T => m + 1 \in T
  PROVE  Nat \subseteq T
  <1>1. SUFFICES ASSUME Nat \ T # {} PROVE FALSE
    OBVIOUS
  <1>2. PICK m \in Nat \ T : \A y \in Nat \ T : m <= y
    BY <1>1, Smallest
  <1>3. m # 0 /\ m - 1 \in Nat
    BY <1>2
  <1>4. m - 1 \in T
    BY <1>2, <1>3
  <1> QED
    BY <1>2, <1>3, <1>4

\* A walk of m steps: step n takes w[n - 1], which is in G[n - 1], to w[n] in G[n].
Steps(w, g, G, w0, W, m) ==
  /\ w \in [0 .. m -> W] /\ w[0] = w0
  /\ \A n \in 0 .. m : w[n] \in G[n]
  /\ \A n \in 1 .. m : w[n] = g[n][w[n - 1]]

\* A series exists of which every member comes from the one before, by induction on its length.
LEMMA StepsAreThere ==
  ASSUME NEW N \in Nat, NEW W, NEW G, NEW g, NEW w0,
         \A n \in 0 .. N : G[n] \subseteq W, w0 \in G[0],
         \A n \in 1 .. N : \A x \in G[n - 1] : g[n][x] \in G[n]
  PROVE  \E w : Steps(w, g, G, w0, W, N)
  <1> DEFINE T == {m \in Nat : m <= N => \E w : Steps(w, g, G, w0, W, m)}
  <1>1. 0 \in T
    <2>1. w0 \in W
      OBVIOUS
    <2>2. Steps([n \in 0 .. 0 |-> w0], g, G, w0, W, 0)
      BY <2>1 DEF Steps
    <2> QED
      BY <2>2
  <1>2. ASSUME NEW m \in Nat, m \in T PROVE m + 1 \in T
    <2> SUFFICES ASSUME m + 1 <= N
                 PROVE  \E w : Steps(w, g, G, w0, W, m + 1)
      OBVIOUS
    <2>1. m <= N /\ m + 1 \in 1 .. N /\ m + 1 \in 0 .. N /\ (m + 1) - 1 = m /\ m \in 0 .. m
      OBVIOUS
    <2>2. PICK w : Steps(w, g, G, w0, W, m)
      BY <1>2, <2>1
    <2> DEFINE x == g[m + 1][w[m]]
               v == [n \in 0 .. m + 1 |-> IF n = m + 1 THEN x ELSE w[n]]
    <2>3. w[m] \in G[m]
      BY <2>1, <2>2 DEF Steps
    <2>4. x \in G[m + 1] /\ x \in W
      BY <2>1, <2>3
    <2> HIDE DEF x
    <2>5. v \in [0 .. m + 1 -> W] /\ v[0] = w0 /\ v[m + 1] = x /\ \A n \in 0 .. m : v[n] = w[n]
      BY <2>2, <2>4 DEF Steps
    <2> HIDE DEF v
    <2>6. ASSUME NEW n \in 1 .. m + 1
          PROVE  v[n] = g[n][v[n - 1]]
      <3>1. CASE n = m + 1
        BY <2>1, <2>5, <3>1 DEF x
      <3>2. CASE n # m + 1
        <4>1. n \in 1 .. m /\ n \in 0 .. m /\ n - 1 \in 0 .. m
          BY <3>2
        <4> QED
          BY <2>2, <2>5, <4>1 DEF Steps
      <3> QED
        BY <3>1, <3>2
    <2>7. ASSUME NEW n \in 0 .. m + 1
          PROVE  v[n] \in G[n]
      <3>1. CASE n = m + 1
        BY <2>4, <2>5, <3>1
      <3>2. CASE n # m + 1
        <4>1. n \in 0 .. m
          BY <3>2
        <4> QED
          BY <2>2, <2>5, <4>1 DEF Steps
      <3> QED
        BY <3>1, <3>2
    <2>8. Steps(v, g, G, w0, W, m + 1)
      BY <2>5, <2>6, <2>7 DEF Steps
    <2> QED
      BY <2>8
  <1> HIDE DEF T
  <1>3. N \in T
    BY <1>1, <1>2, Induct
  <1> QED
    BY <1>3 DEF T

\* An expiry that is due is moved on to the first that is not.
LEMMA AdvanceFacts ==
  ASSUME NEW t \in Int, NEW p \in Nat \ {0}
  PROVE  /\ Advance(t, p) \in Int /\ Advance(t, p) > 0
         /\ t <= 0 => Advance(t, p) <= p
         /\ t > 0 => Advance(t, p) = t
  <1>1. CASE t > 0
    BY <1>1 DEF Advance
  <1>2. CASE t <= 0
    <2> DEFINE q == (-t) \div p
    <2>1. q \in Nat /\ p * q <= -t /\ -t < p * q + p /\ p * q \in Int
      BY <1>2
    <2>2. p * (q + 1) = p * q + p
      BY <2>1
    <2>3. Advance(t, p) = t + p * (q + 1)
      BY <1>2 DEF Advance
    <2> HIDE DEF q
    <2> QED
      BY <1>2, <2>1, <2>2, <2>3
  <1> QED
    BY <1>1, <1>2

-----------------------------------------------------------------------------
(* The ticks *)

\* Each event is at most one period away, and falls behind the finer one before it by less
\* than the period of that: it is looked at whenever that is raised.
TimersInv ==
  /\ due \in [Ticks -> Int]
  /\ due[1] > 0
  /\ \A k \in Ticks : due[k] <= Periods[k]
  /\ \A k \in Ticks \ {1} : due[k] > due[k - 1] - Periods[k - 1]

\* The assumptions on the periods, one by one.
LEMMA TickFacts ==
  /\ 1 \in Ticks /\ Ticks \subseteq Nat \ {0}
  /\ \A k \in Ticks \ {1} : k - 1 \in Ticks
  /\ \A k \in Ticks : Periods[k] \in Nat \ {0}
  /\ \A k \in Ticks \ {1} : Periods[k] >= 2 * Periods[k - 1]
  <1>1. Periods \in Seq(Nat \ {0}) /\ Periods # <<>>
    BY BusAssumption
  <1>2. Ticks = 1 .. Len(Periods) /\ Len(Periods) \in Nat /\ Len(Periods) # 0
    BY <1>1 DEF Ticks
  <1> QED
    BY <1>1, <1>2, BusAssumption DEF Ticks

\* handle_tick, at a moment when the finest event is due.
LEMMA TickInv ==
  ASSUME NEW t \in [Ticks -> Int], t[1] <= 0,
         \A k \in Ticks : t[k] <= Periods[k],
         \A k \in Ticks \ {1} : t[k] > t[k - 1] - Periods[k - 1],
         due' = handle_tick(t)
  PROVE  TimersInv'
  <1> DEFINE Looked(k) == \A j \in 1 .. k : t[j] <= 0
  <1>1. due' = [k \in Ticks |-> IF Looked(k) THEN Advance(t[k], Periods[k]) ELSE t[k]]
    BY DEF handle_tick
  <1>2. \A k \in Ticks \ {1} : Looked(k) <=> Looked(k - 1) /\ t[k] <= 0
    <2>1. \A k \in Ticks \ {1} : k - 1 \in Nat /\ 1 .. k = (1 .. k - 1) \union {k}
      BY TickFacts
    <2> QED
      BY <2>1
  <1>3. Looked(1)
    OBVIOUS
  <1> HIDE DEF Looked
  <1>4. \A k \in Ticks : /\ due'[k] \in Int
                         /\ ~Looked(k) => due'[k] = t[k]
                         /\ Looked(k) => due'[k] > 0 /\ due'[k] = Advance(t[k], Periods[k])
    BY <1>1, TickFacts, AdvanceFacts
  <1>5. \A k \in Ticks : t[k] <= 0 /\ Looked(k) => due'[k] <= Periods[k]
    BY <1>4, TickFacts, AdvanceFacts
  <1>6. \A k \in Ticks : t[k] > 0 => due'[k] = t[k]
    <2>1. \A k \in Ticks : t[k] \in Int /\ Periods[k] \in Nat \ {0}
      BY TickFacts
    <2>2. \A k \in Ticks : t[k] > 0 => Advance(t[k], Periods[k]) = t[k]
      BY <2>1, AdvanceFacts
    <2> QED
      BY <1>4, <2>2
  <1>7. \A k \in Ticks : due'[k] <= Periods[k]
    BY <1>4, <1>5, <1>6, TickFacts
  <1>8. ASSUME NEW k \in Ticks \ {1}
        PROVE  due'[k] > due'[k - 1] - Periods[k - 1]
    <2>1. k - 1 \in Ticks /\ k \in Ticks /\ Periods[k - 1] \in Nat /\ t[k] \in Int /\ t[k - 1] \in Int
      BY TickFacts
    <2>2. CASE Looked(k - 1)
      <3>1. due'[k] > 0
        BY <1>2, <1>4, <1>6, <2>1, <2>2
      <3> QED
        BY <1>4, <1>7, <2>1, <3>1
    <2>3. CASE ~Looked(k - 1)
      <3>1. ~Looked(k)
        BY <1>2, <2>3
      <3> QED
        BY <1>4, <2>1, <2>3, <3>1
    <2> QED
      BY <2>2, <2>3
  <1> QED
    BY <1>1, <1>3, <1>4, <1>7, <1>8, TickFacts DEF TimersInv

\* How far an event is behind adds up over the finer ones, whose periods together are
\* shorter than its own.
LEMMA NeverAPeriodLate ==
  ASSUME TimersInv
  PROVE  TimersKeepUp
  <1> DEFINE T == {k \in Ticks : due[k] <= -Periods[k]}
  <1>1. CASE T = {}
    <2>1. \A k \in Ticks : due[k] > -Periods[k]
      BY <1>1, TickFacts DEF TimersInv
    <2> QED
      BY <2>1 DEF TimersInv, TimersKeepUp
  <1>2. CASE T # {}
    <2>1. T \subseteq Nat
      BY TickFacts
    <2>2. PICK k \in T : \A j \in T : k <= j
      BY <1>2, <2>1, Smallest
    <2>3. k \in Ticks /\ due[k] <= -Periods[k] /\ Periods[k] \in Nat \ {0} /\ due[k] \in Int
      BY <2>2, TickFacts DEF TimersInv
    <2>4. k # 1
      BY <2>3 DEF TimersInv
    <2>5. k - 1 \in Ticks /\ k - 1 \notin T /\ k - 1 \in Nat
      BY <2>2, <2>3, <2>4, TickFacts
    <2>6. due[k - 1] > -Periods[k - 1] /\ Periods[k - 1] \in Nat
      BY <2>5, TickFacts DEF TimersInv
    <2>7. due[k] > due[k - 1] - Periods[k - 1] /\ Periods[k] >= 2 * Periods[k - 1] /\ due[k - 1] \in Int
      BY <2>3, <2>4, <2>5, TickFacts DEF TimersInv
    <2> QED
      BY <2>3, <2>6, <2>7
  <1> QED
    BY <1>1, <1>2

\* No timer is late at the start.
LEMMA InitTimers ==
  ASSUME Init
  PROVE  TimersInv
  <1>1. due = Periods /\ Periods \in Seq(Nat \ {0})
    BY BusAssumption DEF Init
  <1>2. due \in [Ticks -> Nat \ {0}]
    BY <1>1 DEF Ticks
  <1> QED
    BY <1>1, <1>2, TickFacts DEF TimersInv

\* Every step keeps the invariant of the timers.
LEMMA NextTimers ==
  ASSUME TimersInv, [Next]_vars
  PROVE  TimersInv'
  <1>1. CASE Tick
    <2>1. PICK late \in IF stat.next <= 0 THEN {0} ELSE Lates :
            due' = handle_tick([k \in Ticks |-> due[k] - (due[1] + late)])
      BY <1>1 DEF Tick
    <2>2. late \in Nat
      BY <2>1, BusAssumption
    <2> DEFINE t == [k \in Ticks |-> due[k] - (due[1] + late)]
    <2>3. /\ t \in [Ticks -> Int] /\ t[1] <= 0
          /\ \A k \in Ticks : t[k] <= Periods[k]
          /\ \A k \in Ticks \ {1} : t[k] > t[k - 1] - Periods[k - 1]
      BY <2>2, TickFacts DEF TimersInv
    <2>4. due' = handle_tick(t)
      BY <2>1
    <2> HIDE DEF t
    <2> QED
      BY <2>3, <2>4, TickInv
  <1>2. CASE UNCHANGED due
    BY <1>2 DEF TimersInv
  <1>3. CASE UNCHANGED vars
    BY <1>2, <1>3 DEF vars
  <1>4. CASE Next /\ ~Tick
    <2>1. UNCHANGED due
      BY <1>4 DEF Next, Accept, Send, Attach, Connected, Asked, Bound, Data, Answer, Seek, Received, Outside
    <2> QED
      BY <1>2, <2>1
  <1> QED
    BY <1>1, <1>3, <1>4

\* However late the timer is, no event is a whole period late, as each period is at least
\* twice the one before it (TimerManager.cpp:95); the periods need not divide each other.
THEOREM TimersAreInTime == Spec => []TimersKeepUp
  <1>1. Init => TimersInv
    BY InitTimers
  <1>2. TimersInv /\ [Next]_vars => TimersInv'
    BY NextTimers
  <1>3. TimersInv => TimersKeepUp
    BY NeverAPeriodLate
  <1> QED
    BY <1>1, <1>2, <1>3, PTL DEF Spec
-----------------------------------------------------------------------------
(* Slots.  The lemmas are about a record w of what the handlers change. *)

Senders == {"other", "sink"}
Slots   == [flags : SUBSET {"used", "active", "signal"}, timeo : Int]
Tunnels == [sessions : SUBSET {"source", "finder", "sink"}, open : BOOLEAN, queue : Seq(Senders)]
Worlds  ==
  [slots : [Ids -> Slots], next : Ids, tmwait : Seq(Ids), base : Int, tail : Int, signals : Seq(Ids),
   cells : [Ids -> Tunnels], age : [Ids -> Int], fault : {"none", "full", "signal", "empty", "division"}]

\* What the flags say of a slot, and that one is left.
Flagged(w) ==
  \A i \in Ids : LET s == w.slots[i]
                 IN  /\ "signal" \in s.flags => "active" \in s.flags
                     /\ "active" \in s.flags => "used" \in s.flags
                     /\ "used" \notin s.flags => s = Slot
                     /\ "active" \notin s.flags => w.cells[i] = NoCell
InUse(w) ==
  /\ Flagged(w)
  /\ Cardinality(Used(w)) <= Limit
  /\ w.fault \in {"none", "full"} /\ (w.fault = "full" => Cardinality(Active(w)) = Limit)

Lively(w) ==
  /\ IsInjective(w.signals)
  /\ \A i \in Ids : LET c == w.cells[i]
                    IN  /\ "signal" \in w.slots[i].flags <=> i \in ToSet(w.signals)
                        /\ "signal" \in w.slots[i].flags <=> c.queue # <<>>
                        /\ Len(c.queue) <= FifoLimit
                        /\ "sink" \in ToSet(c.queue) => "sink" \in c.sessions

Resting(w) ==
  /\ IsInjective(w.tmwait)
  /\ \A i \in Ids : i \in ToSet(w.tmwait) <=> "used" \in w.slots[i].flags /\ "active" \notin w.slots[i].flags

\* e are the times at which the slots of the line expire.
Line(w, e) ==
  /\ e \in [DOMAIN w.tmwait -> Int]
  /\ w.tmwait # <<>> => e[1] = w.base /\ e[Len(w.tmwait)] = w.tail
  /\ \A k \in DOMAIN w.tmwait \ {1} : e[k] = e[k - 1] + Second * w.slots[w.tmwait[k - 1]].timeo
  /\ \A k \in DOMAIN w.tmwait : /\ TimeWait - w.age[w.tmwait[k]] - e[k] >= 0
                                /\ TimeWait - w.age[w.tmwait[k]] - e[k] < Second
Close(w) == \E e : Line(w, e)

Good(w) == w \in Worlds /\ InUse(w) /\ Lively(w) /\ Resting(w) /\ Close(w)

\* The assumptions on the numbers.
LEMMA Numbers ==
  /\ Limit \in Nat \ {0} /\ Second \in Nat \ {0} /\ TimeWait \in Nat \ {0} /\ FifoLimit \in Nat \ {0}
  /\ Capacity \in Nat \ {0} /\ MaxOwn \in Nat \ {0}
  BY BusAssumption

\* What is left of a sequence without repetitions when its head is taken.
LEMMA Tails ==
  ASSUME NEW S, NEW s \in Seq(S), s # <<>>, IsInjective(s)
  PROVE  /\ Tail(s) \in Seq(S) /\ IsInjective(Tail(s))
         /\ Head(s) \in S /\ Head(s) \in ToSet(s) /\ ToSet(Tail(s)) = ToSet(s) \ {Head(s)}
         /\ Len(Tail(s)) = Len(s) - 1 /\ \A k \in DOMAIN Tail(s) : Tail(s)[k] = s[k + 1]
  <1>1. Len(s) \in Nat \ {0} /\ DOMAIN s = 1 .. Len(s) /\ Head(s) = s[1] /\ \A k \in 1 .. Len(s) : s[k] \in S
    OBVIOUS
  <1>2. /\ Tail(s) \in Seq(S) /\ Len(Tail(s)) = Len(s) - 1 /\ DOMAIN Tail(s) = 1 .. Len(s) - 1
        /\ \A k \in 1 .. Len(s) - 1 : Tail(s)[k] = s[k + 1]
    BY <1>1
  <1> DEFINE t == Tail(s)
  <1>3. /\ Len(s) \in Nat \ {0} /\ DOMAIN t = 1 .. Len(s) - 1 /\ \A k \in 1 .. Len(s) - 1 : t[k] = s[k + 1]
    BY <1>1, <1>2
  <1> HIDE DEF t
  <1>4. IsInjective(t)
    BY <1>1, <1>3 DEF IsInjective
  <1>5. \A x \in ToSet(s) \ {Head(s)} : x \in ToSet(t)
    <2> SUFFICES ASSUME NEW k \in 1 .. Len(s), s[k] # Head(s)
                 PROVE  s[k] \in ToSet(t)
      BY <1>1 DEF ToSet
    <2>1. k - 1 \in 1 .. Len(s) - 1 /\ t[k - 1] = s[k]
      BY <1>1, <1>3
    <2> QED
      BY <1>3, <2>1 DEF ToSet
  <1>6. \A x \in ToSet(t) : x \in ToSet(s) /\ x # Head(s)
    <2> SUFFICES ASSUME NEW k \in 1 .. Len(s) - 1
                 PROVE  t[k] \in ToSet(s) /\ t[k] # Head(s)
      BY <1>3 DEF ToSet
    <2>1. k + 1 \in 1 .. Len(s) /\ t[k] = s[k + 1] /\ 1 \in 1 .. Len(s) /\ k + 1 # 1
      BY <1>1, <1>3
    <2> QED
      BY <1>1, <2>1 DEF ToSet, IsInjective
  <1>7. Head(s) \in S /\ Head(s) \in ToSet(s)
    BY <1>1 DEF ToSet
  <1> QED
    BY <1>2, <1>4, <1>5, <1>6, <1>7 DEF t

\* What a sequence becomes when something is put behind it.
LEMMA Appends ==
  ASSUME NEW S, NEW s \in Seq(S), NEW x \in S
  PROVE  /\ Append(s, x) \in Seq(S) /\ Append(s, x) # <<>> /\ Len(Append(s, x)) = Len(s) + 1
         /\ ToSet(Append(s, x)) = ToSet(s) \union {x}
         /\ IsInjective(s) /\ x \notin ToSet(s) => IsInjective(Append(s, x))
         /\ Append(s, x)[Len(s) + 1] = x /\ \A k \in DOMAIN s : Append(s, x)[k] = s[k]
         /\ DOMAIN Append(s, x) = DOMAIN s \union {Len(s) + 1}
  <1> DEFINE t == Append(s, x)
  <1>1. /\ t \in Seq(S) /\ Len(t) = Len(s) + 1 /\ Len(s) \in Nat /\ DOMAIN s = 1 .. Len(s)
        /\ DOMAIN t = 1 .. Len(s) + 1 /\ t[Len(s) + 1] = x /\ \A k \in 1 .. Len(s) : t[k] = s[k]
    OBVIOUS
  <1> HIDE DEF t
  <1>2. DOMAIN t = DOMAIN s \union {Len(s) + 1}
    BY <1>1
  <1>3. t # <<>>
    BY <1>1
  <1>4. ToSet(t) = ToSet(s) \union {x}
    BY <1>1, <1>2 DEF ToSet
  <1>5. IsInjective(s) /\ x \notin ToSet(s) => IsInjective(t)
    BY <1>1, <1>2 DEF ToSet, IsInjective
  <1> QED
    BY <1>1, <1>2, <1>3, <1>4, <1>5 DEF t
\* A slot is used just when its flag says so.
LEMMA UsedHasItsFlag ==
  ASSUME NEW w \in Worlds, Flagged(w)
  PROVE  Used(w) = {i \in Ids : "used" \in w.slots[i].flags}
  BY DEF Flagged, Used, Slot

\* The rest of the slots depends on this.
Alike(v, w) ==
  /\ v.tmwait = w.tmwait /\ v.base = w.base /\ v.tail = w.tail /\ v.age = w.age
  /\ \A i \in Ids : /\ v.slots[i].timeo = w.slots[i].timeo
                    /\ "used" \in v.slots[i].flags <=> "used" \in w.slots[i].flags
                    /\ "active" \in v.slots[i].flags <=> "active" \in w.slots[i].flags

\* A world that differs only in what no part of the invariant looks at is good as well.
LEMMA StillGood ==
  ASSUME NEW v \in Worlds, NEW w, Good(w), Alike(v, w), v.fault = w.fault, Flagged(v), Lively(v)
  PROVE  Good(v) /\ Active(v) = Active(w) /\ Used(v) = Used(w)
  <1>1. w \in Worlds /\ Flagged(w)
    BY DEF Good, InUse
  <1>2. Used(v) = Used(w)
    BY <1>1, UsedHasItsFlag DEF Alike
  <1>3. Active(v) = Active(w)
    BY DEF Active, Alike
  <1>4. InUse(v)
    BY <1>2, <1>3 DEF Good, InUse
  <1>5. Resting(v)
    BY DEF Good, Resting, Alike
  <1>6. Close(v)
    <2>1. PICK e : Line(w, e)
      BY DEF Good, Close
    <2> DEFINE t == w.tmwait
    <2>5. t \in Seq(Ids)
      BY <1>1 DEF Worlds
    <2> HIDE DEF t
    <2>6. DOMAIN t = 1 .. Len(t) /\ Len(t) \in Nat /\ \A k \in 1 .. Len(t) : t[k] \in Ids
      BY <2>5
    <2>2. \A k \in DOMAIN w.tmwait : w.tmwait[k] \in Ids
      BY <2>6 DEF t
    <2>3. \A k \in DOMAIN w.tmwait \ {1} : k - 1 \in DOMAIN w.tmwait
      <3>1. \A k \in DOMAIN t \ {1} : k - 1 \in DOMAIN t
        BY <2>6
      <3> QED
        BY <3>1 DEF t
    <2>4. Line(v, e)
      BY <2>1, <2>2, <2>3 DEF Line, Alike
    <2> QED
      BY <2>4 DEF Close
  <1> QED
    BY <1>2, <1>3, <1>4, <1>5, <1>6 DEF Good

\* Another state of a tunnel, with what it has to send.
LEMMA CellGood ==
  ASSUME NEW w, Good(w), NEW i \in Active(w), NEW c \in Tunnels, c.queue = w.cells[i].queue,
         "sink" \in ToSet(c.queue) => "sink" \in c.sessions
  PROVE  LET v == [w EXCEPT !.cells[i] = c]
         IN  /\ Good(v) /\ Active(v) = Active(w) /\ Used(v) = Used(w) /\ v.fault = w.fault
             /\ v.cells[i] = c /\ \A j \in Ids \ {i} : v.cells[j] = w.cells[j]
  <1> DEFINE v == [w EXCEPT !.cells[i] = c]
  <1>1. w \in Worlds /\ i \in Ids /\ "active" \in w.slots[i].flags
    BY DEF Good, Active
  <1>2. /\ v \in Worlds /\ v.slots = w.slots /\ v.tmwait = w.tmwait /\ v.base = w.base /\ v.tail = w.tail
        /\ v.signals = w.signals /\ v.age = w.age /\ v.fault = w.fault
        /\ v.cells[i] = c /\ \A j \in Ids \ {i} : v.cells[j] = w.cells[j]
    BY <1>1 DEF Worlds
  <1> HIDE DEF v
  <1>3. Alike(v, w)
    BY <1>2 DEF Alike
  <1>4. Flagged(v)
    BY <1>1, <1>2 DEF Good, InUse, Flagged
  <1>5. Lively(v)
    BY <1>1, <1>2 DEF Good, Lively
  <1> QED
    BY <1>2, <1>3, <1>4, <1>5, StillGood DEF v

\* What push leaves alone.
Pushed(v, w, i, who) ==
  /\ Good(v) /\ Active(v) = Active(w) /\ Used(v) = Used(w) /\ v.fault = w.fault
  /\ v.cells[i].sessions = w.cells[i].sessions /\ v.cells[i].open = w.cells[i].open
  /\ ToSet(v.cells[i].queue) \subseteq ToSet(w.cells[i].queue) \union {who}
  /\ \A j \in Ids \ {i} : v.cells[j] = w.cells[j]

\* Session::push: a message comes to a Fifo, and its tunnel into the line.
LEMMA PushGood ==
  ASSUME NEW w, Good(w), NEW i \in Active(w), NEW who \in Senders,
         who = "sink" => "sink" \in w.cells[i].sessions
  PROVE  Pushed(push(w, i, who), w, i, who)
  <1>1. /\ w \in Worlds /\ i \in Ids /\ "active" \in w.slots[i].flags /\ w.cells[i] \in Tunnels
        /\ w.slots[i] \in Slots
    BY DEF Good, Active, Worlds
  <1>2. CASE Len(w.cells[i].queue) >= FifoLimit
    BY <1>2 DEF push, Pushed
  <1>3. CASE ~(Len(w.cells[i].queue) >= FifoLimit)
    <2> DEFINE q == Append(w.cells[i].queue, who)
               c == [w.cells[i] EXCEPT !.queue = q]
               u == [w EXCEPT !.cells[i] = c]
               v == push(w, i, who)
    <2>1. w.cells[i].queue \in Seq(Senders)
      BY <1>1 DEF Tunnels
    <2>2. /\ q \in Seq(Senders) /\ q # <<>> /\ ToSet(q) = ToSet(w.cells[i].queue) \union {who}
          /\ Len(q) = Len(w.cells[i].queue) + 1
      BY <2>1, Appends
    <2>3. Len(q) <= FifoLimit
      BY <1>3, <2>1, <2>2, Numbers
    <2>4. v = signal([w EXCEPT !.cells[i].queue = q], i)
      BY <1>3 DEF push
    <2> HIDE DEF q
    <2>5. c \in Tunnels /\ c.sessions = w.cells[i].sessions /\ c.open = w.cells[i].open /\ c.queue = q
      BY <1>1, <2>2 DEF Tunnels
    <2>6. [w EXCEPT !.cells[i].queue = q] = u
      OBVIOUS
    <2> HIDE DEF c
    <2>7. /\ u \in Worlds /\ u.slots = w.slots /\ u.tmwait = w.tmwait /\ u.base = w.base /\ u.tail = w.tail
          /\ u.signals = w.signals /\ u.age = w.age /\ u.fault = w.fault
          /\ u.cells[i] = c /\ \A j \in Ids \ {i} : u.cells[j] = w.cells[j]
      BY <1>1, <2>5 DEF Worlds
    <2>8. v = signal(u, i)
      BY <2>4, <2>6
    <2> HIDE DEF u, v
    <2>9. /\ v \in Worlds /\ v.cells = u.cells /\ v.tmwait = w.tmwait /\ v.base = w.base /\ v.tail = w.tail
          /\ v.age = w.age /\ v.fault = w.fault
          /\ \A j \in Ids \ {i} : v.slots[j] = w.slots[j]
          /\ v.slots[i].timeo = w.slots[i].timeo
          /\ v.slots[i].flags = w.slots[i].flags \union {"signal"}
          /\ IsInjective(v.signals) /\ ToSet(v.signals) = ToSet(w.signals) \union {i}
      <3>1. CASE "signal" \in w.slots[i].flags
        <4>1. i \in ToSet(w.signals) /\ IsInjective(w.signals)
          BY <1>1, <3>1 DEF Good, Lively
        <4>2. v = u
          BY <2>7, <2>8, <3>1 DEF signal
        <4> QED
          BY <2>7, <3>1, <4>1, <4>2
      <3>2. CASE "signal" \notin w.slots[i].flags
        <4> DEFINE e == [w.slots[i] EXCEPT !.flags = @ \union {"signal"}]
                   z == Append(w.signals, i)
        <4>1. w.signals \in Seq(Ids) /\ IsInjective(w.signals) /\ i \notin ToSet(w.signals)
          BY <1>1, <3>2 DEF Good, Lively, Worlds
        <4>2. z \in Seq(Ids) /\ IsInjective(z) /\ ToSet(z) = ToSet(w.signals) \union {i}
          BY <1>1, <4>1, Appends
        <4>3. e \in Slots /\ e.flags = w.slots[i].flags \union {"signal"} /\ e.timeo = w.slots[i].timeo
          BY <1>1 DEF Slots
        <4>4. v = [u EXCEPT !.slots[i] = e, !.signals = z]
          BY <2>7, <2>8, <3>2 DEF signal
        <4> HIDE DEF e, z
        <4>5. /\ v \in Worlds /\ v.cells = u.cells /\ v.tmwait = u.tmwait /\ v.base = u.base /\ v.tail = u.tail
              /\ v.age = u.age /\ v.fault = u.fault /\ v.signals = z
              /\ \A j \in Ids \ {i} : v.slots[j] = u.slots[j]
              /\ v.slots[i] = e
          BY <1>1, <2>7, <4>2, <4>3, <4>4 DEF Worlds
        <4> QED
          BY <2>7, <4>2, <4>3, <4>5
      <3> QED
        BY <3>1, <3>2
    <2>10. Alike(v, w)
      <3>1. ASSUME NEW j \in Ids
            PROVE  /\ v.slots[j].timeo = w.slots[j].timeo
                   /\ "used" \in v.slots[j].flags <=> "used" \in w.slots[j].flags
                   /\ "active" \in v.slots[j].flags <=> "active" \in w.slots[j].flags
        BY <2>9
      <3> QED
        BY <2>9, <3>1 DEF Alike
    <2>11. Flagged(v)
      <3>1. Flagged(w)
        BY DEF Good, InUse
      <3>2. "used" \in w.slots[i].flags
        BY <1>1, <3>1 DEF Flagged
      <3> QED
        BY <1>1, <2>7, <2>9, <3>1, <3>2 DEF Flagged
    <2>12. Lively(v)
      <3>1. Lively(w)
        BY DEF Good
      <3>2. "sink" \in ToSet(q) => "sink" \in c.sessions
        BY <1>1, <2>2, <2>5, <3>1 DEF Lively
      <3>3. ASSUME NEW j \in Ids
            PROVE  LET d == v.cells[j]
                   IN  /\ "signal" \in v.slots[j].flags <=> j \in ToSet(v.signals)
                       /\ "signal" \in v.slots[j].flags <=> d.queue # <<>>
                       /\ Len(d.queue) <= FifoLimit
                       /\ "sink" \in ToSet(d.queue) => "sink" \in d.sessions
        <4>1. CASE j = i
          BY <2>2, <2>3, <2>5, <2>7, <2>9, <3>2, <4>1
        <4>2. CASE j # i
          BY <2>7, <2>9, <3>1, <4>2 DEF Lively
        <4> QED
          BY <4>1, <4>2
      <3> QED
        BY <2>9, <3>3 DEF Lively
    <2> QED
      BY <2>2, <2>5, <2>7, <2>9, <2>10, <2>11, <2>12, StillGood DEF Pushed, v
  <1> QED
    BY <1>2, <1>3
\* A number lies between two neighbouring multiples.
LEMMA Divides ==
  ASSUME NEW a \in Int, NEW p \in Nat \ {0}
  PROVE  a \div p \in Int /\ p * (a \div p) \in Int /\ p * (a \div p) <= a /\ a < p * (a \div p) + p
  OBVIOUS

\* A number below n is found from any other, counting on.
LEMMA CountsOn ==
  ASSUME NEW n \in Ids, NEW i \in Ids
  PROVE  \E k \in Ids : (n + k) % (Limit + 1) = i
  <1>1. Limit \in Nat /\ n \in Nat /\ i \in Nat /\ n <= Limit /\ i <= Limit
    BY Numbers DEF Ids
  <1>2. CASE n <= i
    <2>1. i - n \in Ids /\ n + (i - n) = i
      BY <1>1, <1>2 DEF Ids
    <2>2. i % (Limit + 1) = i
      BY <1>1
    <2> QED
      BY <2>1, <2>2
  <1>3. CASE n > i
    <2>1. i + (Limit + 1) - n \in Ids /\ n + (i + (Limit + 1) - n) = i + (Limit + 1)
      BY <1>1, <1>3 DEF Ids
    <2>2. (i + (Limit + 1)) % (Limit + 1) = i
      <3> DEFINE m == Limit + 1
      <3>1. m \in Nat \ {0} /\ i < m
        BY <1>1
      <3> HIDE DEF m
      <3>2. (i + m) % m = i
        BY <1>1, <3>1
      <3> QED
        BY <3>2 DEF m
    <2> QED
      BY <2>1, <2>2
  <1> QED
    BY <1>1, <1>2, <1>3

\* Counting on from a slot leads to a slot.
LEMMA Modulo ==
  ASSUME NEW n \in Nat
  PROVE  n % (Limit + 1) \in Ids
  <1> DEFINE m == Limit + 1
  <1>1. m \in Nat \ {0}
    BY Numbers
  <1> HIDE DEF m
  <1>2. n % m \in Nat /\ n % m < m
    BY <1>1
  <1> QED
    BY <1>2, Numbers DEF Ids, m

\* Slots can be counted.
LEMMA UsedIsFinite ==
  ASSUME NEW w
  PROVE  /\ IsFiniteSet(Used(w)) /\ IsFiniteSet(Active(w)) /\ IsFiniteSet(Ids)
         /\ Cardinality(Used(w)) \in Nat /\ Cardinality(Active(w)) \in Nat /\ Cardinality(Ids) = Limit + 1
  <1>1. IsFiniteSet(Ids) /\ Cardinality(Ids) = Limit + 1
    BY FS_Interval, Numbers DEF Ids
  <1>2. Used(w) \subseteq Ids /\ Active(w) \subseteq Ids
    BY DEF Used, Active
  <1> QED
    BY <1>1, <1>2, FS_Subset, FS_CardinalityType
\* slot_detach of a tunnel whose Fifo is empty.
LEMMA DetachGood ==
  ASSUME NEW w, Good(w), w.fault = "none", NEW i \in Active(w), w.cells[i].queue = <<>>
  PROVE  LET v == slot_detach(w, i)
         IN  Good(v) /\ v.fault = "none" /\ \A j \in Ids \ {i} : v.cells[j] = w.cells[j]
  <1> DEFINE v == slot_detach(w, i)
             t == w.tmwait
             s == Append(t, i)
             n == Len(t)
             g == [flags |-> {"used"}, timeo |-> 0]
             timeo == (TimeWait - w.tail) \div Second
  <1> HIDE DEF v, t, s, n, g, timeo
  <1>1. /\ w \in Worlds /\ i \in Ids /\ "active" \in w.slots[i].flags /\ t \in Seq(Ids) /\ n \in Nat
        /\ DOMAIN t = 1 .. n /\ w.tail \in Int /\ w.base \in Int
    <2>1. w \in Worlds /\ i \in Ids /\ "active" \in w.slots[i].flags
      BY DEF Good, Active
    <2>2. t \in Seq(Ids) /\ w.tail \in Int /\ w.base \in Int
      BY <2>1 DEF Worlds, t
    <2> QED
      BY <2>1, <2>2 DEF n
  <1>2. Flagged(w) /\ Lively(w) /\ Resting(w) /\ IsInjective(t)
    BY DEF Good, InUse, Resting, t
  <1>3. i \notin ToSet(t) /\ "used" \in w.slots[i].flags
    BY <1>1, <1>2 DEF Resting, Flagged, t
  <1>4. /\ s \in Seq(Ids) /\ s # <<>> /\ Len(s) = n + 1 /\ ToSet(s) = ToSet(t) \union {i} /\ IsInjective(s)
        /\ s[n + 1] = i /\ \A k \in DOMAIN t : s[k] = t[k]
        /\ DOMAIN s = DOMAIN t \union {n + 1}
    BY <1>1, <1>2, <1>3, Appends DEF s, n
  <1>5. timeo \in Int /\ Second * timeo \in Int /\ Second * timeo <= TimeWait - w.tail /\ TimeWait - w.tail < Second * timeo + Second
    <2>1. TimeWait - w.tail \in Int /\ Second \in Nat \ {0}
      BY <1>1, Numbers
    <2> QED
      BY <2>1, Divides DEF timeo
  <1>6. g \in Slots
    BY DEF Slots, g
  <1>7. NoCell \in Tunnels /\ NoCell.queue = <<>> /\ NoCell.sessions = {}
    <2>1. <<>> \in Seq(Senders)
      OBVIOUS
    <2> QED
      BY <2>1 DEF NoCell, Tunnels
  <1> DEFINE gone == [w EXCEPT !.slots[i] = g, !.cells[i] = NoCell, !.tmwait = s, !.age[i] = 0]
  <1>8. v = IF t = <<>> THEN [gone EXCEPT !.base = TimeWait, !.tail = TimeWait]
            ELSE [gone EXCEPT !.slots[Last(t)].timeo = timeo, !.tail = @ + Second * timeo]
    BY DEF slot_detach, v, t, s, g, timeo
  <1>9. /\ gone \in Worlds /\ gone.signals = w.signals /\ gone.fault = w.fault /\ gone.tail = w.tail
        /\ gone.base = w.base
        /\ gone.tmwait = s /\ gone.slots[i] = g /\ gone.cells[i] = NoCell /\ gone.age[i] = 0
        /\ \A j \in Ids \ {i} : /\ gone.slots[j] = w.slots[j] /\ gone.cells[j] = w.cells[j]
                                /\ gone.age[j] = w.age[j]
    <2> DEFINE A == [w.slots EXCEPT ![i] = g]
               B == [w.cells EXCEPT ![i] = NoCell]
               D == [w.age EXCEPT ![i] = 0]
               x == [w EXCEPT !.slots = A, !.cells = B]
               y == [x EXCEPT !.tmwait = s, !.age = D]
    <2>1. /\ A \in [Ids -> Slots] /\ A[i] = g /\ \A j \in Ids \ {i} : A[j] = w.slots[j]
      BY <1>1, <1>6 DEF Worlds
    <2>2. /\ B \in [Ids -> Tunnels] /\ B[i] = NoCell /\ \A j \in Ids \ {i} : B[j] = w.cells[j]
      BY <1>1, <1>7 DEF Worlds
    <2>3. /\ D \in [Ids -> Int] /\ D[i] = 0 /\ \A j \in Ids \ {i} : D[j] = w.age[j]
      BY <1>1 DEF Worlds
    <2>4. gone = y
      BY <1>1 DEF Worlds
    <2> HIDE DEF A, B, D, gone
    <2>5. /\ x \in Worlds /\ x.slots = A /\ x.cells = B /\ x.signals = w.signals /\ x.fault = w.fault
          /\ x.tail = w.tail /\ x.base = w.base
      BY <1>1, <2>1, <2>2 DEF Worlds
    <2> HIDE DEF x
    <2>6. /\ y \in Worlds /\ y.slots = A /\ y.cells = B /\ y.signals = w.signals /\ y.fault = w.fault
          /\ y.tail = w.tail /\ y.base = w.base /\ y.tmwait = s /\ y.age = D
      BY <1>4, <2>3, <2>5 DEF Worlds
    <2> QED
      BY <2>1, <2>2, <2>3, <2>4, <2>6
  <1> HIDE DEF gone
  \* The line has one more, and the slot that was the last now knows its distance.
  <1>10. /\ v \in Worlds /\ v.signals = w.signals /\ v.fault = w.fault /\ v.tmwait = s
         /\ v.slots[i] = g /\ v.cells[i] = NoCell /\ v.age[i] = 0
         /\ \A j \in Ids \ {i} : /\ v.slots[j].flags = w.slots[j].flags /\ v.cells[j] = w.cells[j]
                                 /\ v.age[j] = w.age[j]
         /\ \A j \in Ids \ {i} : j \notin ToSet(t) => v.slots[j] = w.slots[j]
         /\ Close(v)
    <2>1. CASE t = <<>>
      <3>1. v = [gone EXCEPT !.base = TimeWait, !.tail = TimeWait]
        BY <1>8, <2>1
      <3>2. /\ v \in Worlds /\ v.signals = gone.signals /\ v.fault = gone.fault /\ v.tmwait = gone.tmwait
            /\ v.slots = gone.slots /\ v.cells = gone.cells /\ v.age = gone.age
            /\ v.base = TimeWait /\ v.tail = TimeWait
        <4>1. TimeWait \in Int
          BY Numbers
        <4> QED
          BY <1>9, <3>1, <4>1 DEF Worlds
      <3> DEFINE e == [k \in DOMAIN s |-> TimeWait]
      <3>3. n = 0
        BY <2>1 DEF n
      <3>4. DOMAIN s = {1}
        BY <1>1, <1>4, <3>3
      <3>5. Line(v, e)
        <4>1. e \in [DOMAIN s -> Int] /\ e[1] = TimeWait
          BY <3>4, Numbers
        <4>2. Len(s) = 1 /\ s[1] = i
          BY <1>4, <3>3
        <4> HIDE DEF e
        <4>3. TimeWait - 0 - e[1] = 0 /\ 0 < Second
          BY <4>1, Numbers
        <4> QED
          BY <1>9, <3>2, <3>4, <4>1, <4>2, <4>3 DEF Line
      <3>6. Close(v)
        BY <3>5 DEF Close
      <3> QED
        BY <1>9, <3>2, <3>6
    <2>2. CASE t # <<>>
      <3> DEFINE l == Last(t)
                 h == [w.slots[l] EXCEPT !.timeo = timeo]
      <3>1. n \in 1 .. n /\ l = t[n] /\ l \in Ids /\ l \in ToSet(t) /\ l # i
        <4>1. Last(t) = t[n]
          BY DEF Last, n
        <4>2. n \in 1 .. n
          BY <1>1, <2>2 DEF n
        <4>3. t[n] \in Ids /\ t[n] \in ToSet(t)
          BY <1>1, <4>2 DEF ToSet
        <4> QED
          BY <1>3, <4>1, <4>2, <4>3
      <3> HIDE DEF l
      <3>2. h \in Slots /\ h.flags = w.slots[l].flags /\ h.timeo = timeo
        BY <1>1, <1>5, <3>1 DEF Worlds, Slots
      <3>3. v = [gone EXCEPT !.slots[l] = h, !.tail = @ + Second * timeo]
        BY <1>8, <1>9, <2>2, <3>1 DEF l
      <3> HIDE DEF h
      <3>4. /\ v \in Worlds /\ v.signals = gone.signals /\ v.fault = gone.fault /\ v.tmwait = gone.tmwait
            /\ v.cells = gone.cells /\ v.age = gone.age
            /\ v.base = gone.base /\ v.tail = w.tail + Second * timeo
            /\ v.slots[l] = h /\ \A j \in Ids \ {l} : v.slots[j] = gone.slots[j]
        <4> DEFINE z == w.tail + Second * timeo
                   A == [gone.slots EXCEPT ![l] = h]
        <4>1. z \in Int
          BY <1>1, <1>5
        <4>2. A \in [Ids -> Slots] /\ A[l] = h /\ \A j \in Ids \ {l} : A[j] = gone.slots[j]
          BY <1>9, <3>1, <3>2 DEF Worlds
        <4>3. v = [gone EXCEPT !.slots = A, !.tail = z]
          BY <1>9, <3>3
        <4> HIDE DEF A, z
        <4>4. /\ v \in Worlds /\ v.signals = gone.signals /\ v.fault = gone.fault /\ v.tmwait = gone.tmwait
              /\ v.cells = gone.cells /\ v.age = gone.age
              /\ v.base = gone.base /\ v.tail = z /\ v.slots = A
          BY <1>9, <4>1, <4>2, <4>3 DEF Worlds
        <4> QED
          BY <4>2, <4>4 DEF z
      <3>5. PICK e : Line(w, e)
        BY DEF Good, Close
      <3>6. /\ e \in [1 .. n -> Int] /\ e[1] = w.base /\ e[n] = w.tail
            /\ \A k \in 1 .. n \ {1} : e[k] = e[k - 1] + Second * w.slots[t[k - 1]].timeo
            /\ \A k \in 1 .. n : /\ TimeWait - w.age[t[k]] - e[k] >= 0
                                 /\ TimeWait - w.age[t[k]] - e[k] < Second
        BY <1>1, <2>2, <3>5 DEF Line, t, n
      <3> DEFINE f == [k \in DOMAIN s |-> IF k = n + 1 THEN w.tail + Second * timeo ELSE e[k]]
      <3>7. /\ DOMAIN s = 1 .. n + 1 /\ f \in [DOMAIN s -> Int] /\ f[n + 1] = w.tail + Second * timeo
            /\ \A k \in 1 .. n : f[k] = e[k]
        BY <1>1, <1>4, <1>5, <3>6
      <3> HIDE DEF f
      <3>8. \A k \in 1 .. n : /\ s[k] = t[k] /\ t[k] \in Ids \ {i} /\ (k # n => t[k] # l)
                              /\ v.age[t[k]] = w.age[t[k]]
        <4> SUFFICES ASSUME NEW k \in 1 .. n
                     PROVE  /\ s[k] = t[k] /\ t[k] \in Ids \ {i} /\ (k # n => t[k] # l)
                            /\ v.age[t[k]] = w.age[t[k]]
          OBVIOUS
        <4>1. t[k] \in Ids /\ t[k] \in ToSet(t) /\ s[k] = t[k]
          BY <1>1, <1>4 DEF ToSet
        <4>2. k # n => t[k] # l
          BY <1>1, <1>2, <3>1 DEF IsInjective
        <4> QED
          BY <1>3, <1>9, <3>4, <4>1, <4>2
      <3>9. ASSUME NEW k \in DOMAIN s \ {1}
            PROVE  f[k] = f[k - 1] + Second * v.slots[s[k - 1]].timeo
        <4>1. CASE k = n + 1
          <5>1. k - 1 = n /\ s[k - 1] = l /\ v.slots[l].timeo = timeo
            BY <1>1, <3>1, <3>2, <3>4, <3>8, <4>1
          <5> QED
            BY <3>1, <3>6, <3>7, <4>1, <5>1
        <4>2. CASE k # n + 1
          <5>1. k \in 1 .. n \ {1} /\ k - 1 \in 1 .. n /\ k - 1 # n
            BY <1>1, <3>7, <4>2
          <5>2. s[k - 1] = t[k - 1] /\ t[k - 1] \in Ids \ {i} /\ t[k - 1] # l
            BY <3>8, <5>1
          <5>3. v.slots[t[k - 1]] = w.slots[t[k - 1]]
            BY <1>9, <3>4, <5>2
          <5> QED
            BY <3>6, <3>7, <5>1, <5>2, <5>3
        <4> QED
          BY <4>1, <4>2
      <3>10. ASSUME NEW k \in DOMAIN s
             PROVE  TimeWait - v.age[s[k]] - f[k] >= 0 /\ TimeWait - v.age[s[k]] - f[k] < Second
        <4>1. CASE k = n + 1
          <5>1. v.age[s[k]] = 0 /\ f[k] = w.tail + Second * timeo
            BY <1>4, <1>9, <3>4, <3>7, <4>1
          <5> QED
            BY <1>1, <1>5, <5>1, Numbers
        <4>2. CASE k # n + 1
          <5>1. k \in 1 .. n
            BY <1>1, <3>7, <4>2
          <5> QED
            BY <3>6, <3>7, <3>8, <5>1
        <4> QED
          BY <4>1, <4>2
      <3>11. f[1] = v.base /\ f[n + 1] = v.tail
        BY <1>1, <1>9, <3>1, <3>4, <3>6, <3>7
      <3>12. Line(v, f)
        BY <1>4, <1>9, <3>4, <3>7, <3>9, <3>10, <3>11 DEF Line
      <3>13. Close(v)
        BY <3>12 DEF Close
      <3>14. \A j \in Ids \ {i} : v.slots[j].flags = w.slots[j].flags
        BY <1>9, <3>1, <3>2, <3>4
      <3>15. /\ v.slots[i] = g
             /\ \A j \in Ids \ {i} : j \notin ToSet(t) => v.slots[j] = w.slots[j]
        BY <1>1, <1>9, <3>1, <3>4
      <3>16. /\ v \in Worlds /\ v.signals = w.signals /\ v.fault = w.fault /\ v.tmwait = s
             /\ v.cells[i] = NoCell /\ v.age[i] = 0
             /\ \A j \in Ids \ {i} : v.cells[j] = w.cells[j] /\ v.age[j] = w.age[j]
        BY <1>9, <3>4
      <3> QED
        BY <3>13, <3>14, <3>15, <3>16
    <2> QED
      BY <2>1, <2>2
  <1>11. g.flags = {"used"}
    BY DEF g
  <1>12. Flagged(v)
    <2> SUFFICES ASSUME NEW j \in Ids
                 PROVE  LET x == v.slots[j]
                        IN  /\ "signal" \in x.flags => "active" \in x.flags
                            /\ "active" \in x.flags => "used" \in x.flags
                            /\ "used" \notin x.flags => x = Slot
                            /\ "active" \notin x.flags => v.cells[j] = NoCell
      BY DEF Flagged
    <2>1. CASE j = i
      BY <1>10, <1>11, <2>1
    <2>2. CASE j # i
      <3>1. "used" \notin w.slots[j].flags => j \notin ToSet(t)
        BY <1>2 DEF Resting, t
      <3> QED
        BY <1>2, <1>10, <2>2, <3>1 DEF Flagged
    <2> QED
      BY <2>1, <2>2
  <1>13. InUse(v)
    <2>1. Used(v) = Used(w)
      <3>1. \A j \in Ids : "used" \in v.slots[j].flags <=> "used" \in w.slots[j].flags
        BY <1>3, <1>10, <1>11
      <3> QED
        BY <1>1, <1>2, <1>10, <1>12, <3>1, UsedHasItsFlag
    <2> QED
      BY <1>10, <1>12, <2>1 DEF InUse, Good
  <1>14. Lively(v)
    <2>1. "signal" \notin w.slots[i].flags /\ i \notin ToSet(w.signals)
      BY <1>1, <1>2 DEF Lively
    <2>2. ToSet(<<>>) = {} /\ Len(<<>>) <= FifoLimit
      BY Numbers DEF ToSet
    <2>3. ASSUME NEW j \in Ids
          PROVE  LET c == v.cells[j]
                 IN  /\ "signal" \in v.slots[j].flags <=> j \in ToSet(v.signals)
                     /\ "signal" \in v.slots[j].flags <=> c.queue # <<>>
                     /\ Len(c.queue) <= FifoLimit
                     /\ "sink" \in ToSet(c.queue) => "sink" \in c.sessions
      <3>1. CASE j = i
        BY <1>7, <1>10, <1>11, <2>1, <2>2, <3>1
      <3>2. CASE j # i
        BY <1>2, <1>10, <3>2 DEF Lively
      <3> QED
        BY <3>1, <3>2
    <2> QED
      BY <1>2, <1>10, <2>3 DEF Lively
  <1>15. Resting(v)
    <2>1. ASSUME NEW j \in Ids
          PROVE  j \in ToSet(s) <=> "used" \in v.slots[j].flags /\ "active" \notin v.slots[j].flags
      <3>1. j \in ToSet(t) <=> "used" \in w.slots[j].flags /\ "active" \notin w.slots[j].flags
        BY <1>2 DEF Resting, t
      <3>2. CASE j = i
        BY <1>4, <1>10, <1>11, <3>2
      <3>3. CASE j # i
        BY <1>4, <1>10, <3>1, <3>3
      <3> QED
        BY <3>2, <3>3
    <2> QED
      BY <1>4, <1>10, <2>1 DEF Resting
  <1> QED
    BY <1>10, <1>13, <1>14, <1>15 DEF Good, v
\* The line depends on the slots in it.
LEMMA StillClose ==
  ASSUME NEW w \in Worlds, NEW v, Close(w),
         v.tmwait = w.tmwait, v.base = w.base, v.tail = w.tail,
         \A i \in ToSet(w.tmwait) : v.slots[i].timeo = w.slots[i].timeo /\ v.age[i] = w.age[i]
  PROVE  Close(v)
  <1> DEFINE t == w.tmwait
  <1>1. PICK e : Line(w, e)
    BY DEF Close
  <1>2. t \in Seq(Ids)
    BY DEF Worlds
  <1>3. \A k \in DOMAIN t : t[k] \in ToSet(t)
    BY DEF ToSet
  <1>4. \A k \in DOMAIN t \ {1} : k - 1 \in DOMAIN t
    <2> HIDE DEF t
    <2>1. DOMAIN t = 1 .. Len(t) /\ Len(t) \in Nat
      BY <1>2
    <2> QED
      BY <2>1
  <1>5. \A k \in DOMAIN t : v.slots[t[k]].timeo = w.slots[t[k]].timeo /\ v.age[t[k]] = w.age[t[k]]
    BY <1>3
  <1>6. Line(v, e)
    <2>1. v.tmwait = t /\ w.tmwait = t
      OBVIOUS
    <2> HIDE DEF t
    <2>2. /\ e \in [DOMAIN t -> Int] /\ (t # <<>> => e[1] = w.base /\ e[Len(t)] = w.tail)
          /\ \A k \in DOMAIN t \ {1} : e[k] = e[k - 1] + Second * w.slots[t[k - 1]].timeo
          /\ \A k \in DOMAIN t : TimeWait - w.age[t[k]] - e[k] >= 0 /\ TimeWait - w.age[t[k]] - e[k] < Second
      BY <1>1, <2>1 DEF Line
    <2>3. \A k \in DOMAIN t \ {1} : e[k] = e[k - 1] + Second * v.slots[t[k - 1]].timeo
      BY <1>4, <1>5, <2>2
    <2>4. \A k \in DOMAIN t : TimeWait - v.age[t[k]] - e[k] >= 0 /\ TimeWait - v.age[t[k]] - e[k] < Second
      BY <1>5, <2>2
    <2> QED
      BY <2>1, <2>2, <2>3, <2>4 DEF Line
  <1> QED
    BY <1>6 DEF Close

\* The first of the line leaves it.
LEMMA AwakeFacts ==
  ASSUME NEW w, Good(w), w.tmwait # <<>>
  PROVE  LET v == Awake(w)
             i == Head(w.tmwait)
         IN  /\ v \in Worlds /\ i \in Ids /\ i \in ToSet(w.tmwait)
             /\ IsInjective(v.tmwait) /\ ToSet(v.tmwait) = ToSet(w.tmwait) \ {i}
             /\ v.slots[i].flags = w.slots[i].flags /\ v.slots[i].timeo = 0
             /\ \A j \in Ids \ {i} : v.slots[j] = w.slots[j]
             /\ v.cells = w.cells /\ v.signals = w.signals /\ v.next = w.next /\ v.age = w.age
             /\ v.fault = w.fault
             /\ Close(v)
  <1> DEFINE v == Awake(w)
             t == w.tmwait
             r == Tail(t)
             i == Head(t)
             h == [w.slots[i] EXCEPT !.timeo = 0]
             A == [w.slots EXCEPT ![i] = h]
             b == IF r = <<>> THEN 0 ELSE w.base + Second * w.slots[i].timeo
             z == IF r = <<>> THEN 0 ELSE w.tail
             x == [w EXCEPT !.tmwait = r, !.slots = A]
             y == [x EXCEPT !.base = b, !.tail = z]
  <1> HIDE DEF v, t, r, i, h, A, b, z, x, y
  <1>1. w \in Worlds /\ t \in Seq(Ids) /\ IsInjective(t) /\ t # <<>>
    BY DEF Good, Resting, Worlds, t
  <1>2. /\ r \in Seq(Ids) /\ IsInjective(r)
        /\ i \in Ids /\ i \in ToSet(t) /\ ToSet(r) = ToSet(t) \ {i}
        /\ Len(r) = Len(t) - 1 /\ \A k \in DOMAIN r : r[k] = t[k + 1]
    BY <1>1, Tails DEF r, i
  <1>3. h \in Slots /\ h.flags = w.slots[i].flags /\ h.timeo = 0 /\ w.slots[i].timeo \in Int
    <2>1. w.slots[i] \in Slots
      BY <1>1, <1>2 DEF Worlds
    <2> QED
      BY <2>1 DEF Slots, h
  <1>4. /\ A \in [Ids -> Slots] /\ A[i] = h /\ \A j \in Ids \ {i} : A[j] = w.slots[j]
    BY <1>1, <1>2, <1>3 DEF Worlds, A
  <1>5. b \in Int /\ z \in Int
    <2>1. w.base \in Int /\ w.tail \in Int
      BY <1>1 DEF Worlds
    <2> QED
      BY <1>3, <2>1, Numbers DEF b, z
  <1>6. v = y
    BY <1>1, <1>2 DEF Worlds, Awake, v, t, r, i, h, A, b, z, x, y
  <1>7. /\ x \in Worlds /\ x.tmwait = r /\ x.slots = A /\ x.cells = w.cells /\ x.signals = w.signals
        /\ x.next = w.next /\ x.age = w.age /\ x.fault = w.fault
    BY <1>1, <1>2, <1>4 DEF Worlds, x
  <1>8. /\ y \in Worlds /\ y.tmwait = r /\ y.slots = A /\ y.cells = w.cells /\ y.signals = w.signals
        /\ y.next = w.next /\ y.age = w.age /\ y.fault = w.fault /\ y.base = b /\ y.tail = z
    BY <1>5, <1>7 DEF Worlds, y
  <1>9. Close(v)
    <2> DEFINE n == Len(t)
    <2> HIDE DEF n
    <2>1. PICK e : Line(w, e)
      BY DEF Good, Close
    <2>2. /\ n \in Nat \ {0} /\ DOMAIN t = 1 .. n /\ DOMAIN r = 1 .. n - 1 /\ Len(r) = n - 1
      BY <1>1, <1>2 DEF n
    <2>3. /\ e \in [1 .. n -> Int] /\ e[1] = w.base /\ e[n] = w.tail
          /\ \A k \in 1 .. n \ {1} : e[k] = e[k - 1] + Second * w.slots[t[k - 1]].timeo
          /\ \A k \in 1 .. n : /\ TimeWait - w.age[t[k]] - e[k] >= 0
                               /\ TimeWait - w.age[t[k]] - e[k] < Second
      BY <1>1, <2>1, <2>2 DEF Line, t, n
    <2> DEFINE f == [k \in 1 .. n - 1 |-> e[k + 1]]
    <2>4. f \in [1 .. n - 1 -> Int] /\ \A k \in 1 .. n - 1 : f[k] = e[k + 1]
      BY <2>2, <2>3
    <2> HIDE DEF f
    <2>5. ASSUME r # <<>>
          PROVE  f[1] = b /\ f[n - 1] = z
      <3>1. n - 1 # 0
        BY <1>2, <2>2, <2>5
      <3>2. 1 \in 1 .. n - 1 /\ n - 1 \in 1 .. n - 1 /\ 2 \in 1 .. n \ {1} /\ 2 - 1 = 1 /\ 1 + 1 = 2 /\ (n - 1) + 1 = n
        BY <2>2, <3>1
      <3>3. t[1] = i
        BY DEF i
      <3>4. e[2] = e[1] + Second * w.slots[i].timeo
        BY <2>3, <3>2, <3>3
      <3>5. b = w.base + Second * w.slots[i].timeo /\ z = w.tail
        BY <2>5 DEF b, z
      <3> QED
        BY <2>3, <2>4, <3>2, <3>4, <3>5
    <2>6. \A k \in 1 .. n - 1 : k + 1 \in 1 .. n /\ r[k] = t[k + 1]
      BY <1>2, <2>2
    <2>7. ASSUME NEW k \in 1 .. n - 1 \ {1}
          PROVE  f[k] = f[k - 1] + Second * A[r[k - 1]].timeo
      <3>1. /\ k - 1 \in 1 .. n - 1 /\ (k - 1) + 1 = k /\ k + 1 \in 1 .. n \ {1} /\ (k + 1) - 1 = k
            /\ k \in 1 .. n - 1
        BY <2>2
      <3>2. f[k] = e[k + 1] /\ f[k - 1] = e[k] /\ r[k - 1] = t[k]
        BY <2>4, <2>6, <3>1
      <3>3. e[k + 1] = e[k] + Second * w.slots[t[k]].timeo
        BY <2>3, <3>1
      <3>4. r[k - 1] \in ToSet(r)
        BY <2>2, <3>1 DEF ToSet
      <3>5. r[k - 1] \in Ids /\ r[k - 1] # i
        BY <1>2, <2>2, <3>1, <3>4
      <3> QED
        BY <1>4, <3>2, <3>3, <3>5
    <2>8. ASSUME NEW k \in 1 .. n - 1
          PROVE  TimeWait - w.age[r[k]] - f[k] >= 0 /\ TimeWait - w.age[r[k]] - f[k] < Second
      BY <2>3, <2>4, <2>6
    <2>9. Line(v, f)
      BY <1>6, <1>8, <2>2, <2>4, <2>5, <2>7, <2>8 DEF Line
    <2> QED
      BY <2>9 DEF Close
  <1>10. /\ v \in Worlds /\ i \in Ids /\ i \in ToSet(t) /\ IsInjective(v.tmwait) /\ ToSet(v.tmwait) = ToSet(t) \ {i}
         /\ v.slots[i].flags = w.slots[i].flags /\ v.slots[i].timeo = 0
         /\ \A j \in Ids \ {i} : v.slots[j] = w.slots[j]
         /\ v.cells = w.cells /\ v.signals = w.signals /\ v.next = w.next /\ v.age = w.age
         /\ v.fault = w.fault
    BY <1>2, <1>3, <1>4, <1>6, <1>8
  <1> QED
    BY <1>9, <1>10 DEF v, t, i
\* A slot has rested: on_timer frees it.
LEMMA ReleasedGood ==
  ASSUME NEW w, Good(w)
  PROVE  LET v == Released(w)
         IN  Good(v) /\ v.cells = w.cells /\ v.signals = w.signals /\ v.fault = w.fault
  <1> DEFINE v == Released(w)
             u == Awake(w)
             i == Head(w.tmwait)
             A == [u.slots EXCEPT ![i] = Slot]
  <1> HIDE DEF v, u, i, A
  <1>1. CASE ~(w.tmwait # <<>> /\ w.base < 0)
    BY <1>1 DEF Released, v
  <1>2. CASE w.tmwait # <<>> /\ w.base < 0
    <2>1. /\ u \in Worlds /\ i \in Ids /\ i \in ToSet(w.tmwait)
          /\ IsInjective(u.tmwait) /\ ToSet(u.tmwait) = ToSet(w.tmwait) \ {i}
          /\ \A j \in Ids \ {i} : u.slots[j] = w.slots[j]
          /\ u.cells = w.cells /\ u.signals = w.signals /\ u.fault = w.fault
          /\ Close(u)
      BY <1>2, AwakeFacts DEF u, i
    <2>2. w \in Worlds /\ Flagged(w) /\ Lively(w) /\ Resting(w)
      BY DEF Good, InUse
    <2>3. v = [u EXCEPT !.slots[i] = Slot]
      BY <1>2 DEF Released, slot_free, v, u, i
    <2>4. Slot \in Slots /\ Slot.flags = {}
      BY DEF Slots, Slot
    <2>5. A \in [Ids -> Slots] /\ A[i] = Slot /\ \A j \in Ids \ {i} : A[j] = w.slots[j]
      BY <2>1, <2>4 DEF Worlds, A
    <2>6. v = [u EXCEPT !.slots = A]
      BY <2>3 DEF A
    <2>7. /\ v \in Worlds /\ v.slots = A /\ v.cells = w.cells /\ v.signals = w.signals /\ v.fault = w.fault
          /\ v.tmwait = u.tmwait /\ v.base = u.base /\ v.tail = u.tail /\ v.age = u.age
      BY <2>1, <2>5, <2>6 DEF Worlds
    <2>8. "active" \notin w.slots[i].flags /\ "used" \in w.slots[i].flags
      BY <2>1, <2>2 DEF Resting
    <2>9. "signal" \notin w.slots[i].flags /\ w.cells[i] = NoCell
      BY <2>1, <2>2, <2>8 DEF Flagged
    <2>10. Flagged(v)
      <3> SUFFICES ASSUME NEW j \in Ids
                   PROVE  LET x == v.slots[j]
                          IN  /\ "signal" \in x.flags => "active" \in x.flags
                              /\ "active" \in x.flags => "used" \in x.flags
                              /\ "used" \notin x.flags => x = Slot
                              /\ "active" \notin x.flags => v.cells[j] = NoCell
        BY DEF Flagged
      <3>1. CASE j = i
        BY <2>4, <2>5, <2>7, <2>9, <3>1
      <3>2. CASE j # i
        BY <2>2, <2>5, <2>7, <3>2 DEF Flagged
      <3> QED
        BY <3>1, <3>2
    <2>11. InUse(v)
      <3>1. Used(v) \subseteq Used(w)
        <4>1. \A j \in Ids : "used" \in v.slots[j].flags => "used" \in w.slots[j].flags
          BY <2>4, <2>5, <2>7
        <4> QED
          BY <2>2, <2>7, <2>10, <4>1, UsedHasItsFlag
      <3>2. Active(v) = Active(w)
        <4>1. \A j \in Ids : "active" \in v.slots[j].flags <=> "active" \in w.slots[j].flags
          BY <2>4, <2>5, <2>7, <2>8
        <4> QED
          BY <4>1 DEF Active
      <3>3. Cardinality(Used(v)) <= Cardinality(Used(w)) /\ Cardinality(Used(w)) \in Nat /\ Cardinality(Used(v)) \in Nat
        BY <3>1, UsedIsFinite, FS_Subset
      <3>4. Cardinality(Used(w)) <= Limit
        BY DEF Good, InUse
      <3>5. Cardinality(Used(v)) <= Limit
        BY <3>3, <3>4, Numbers
      <3> QED
        BY <2>7, <2>10, <3>2, <3>5 DEF InUse, Good
    <2>12. Lively(v)
      <3>1. \A j \in Ids : "signal" \in v.slots[j].flags <=> "signal" \in w.slots[j].flags
        BY <2>4, <2>5, <2>7, <2>9
      <3> QED
        BY <2>2, <2>7, <3>1 DEF Lively
    <2>13. Resting(v)
      <3>1. ASSUME NEW j \in Ids
            PROVE  j \in ToSet(v.tmwait) <=> "used" \in v.slots[j].flags /\ "active" \notin v.slots[j].flags
        <4>1. CASE j = i
          BY <2>1, <2>4, <2>5, <2>7, <4>1
        <4>2. CASE j # i
          BY <2>1, <2>2, <2>5, <2>7, <4>2 DEF Resting
        <4> QED
          BY <4>1, <4>2
      <3> QED
        BY <2>1, <2>7, <3>1 DEF Resting
    <2>14. Close(v)
      <3>1. \A j \in ToSet(u.tmwait) : v.slots[j] = u.slots[j]
        <4>1. u.tmwait \in Seq(Ids)
          BY <2>1 DEF Worlds
        <4>2. ToSet(u.tmwait) \subseteq Ids
          BY <4>1 DEF ToSet
        <4> QED
          BY <2>1, <2>5, <2>7, <4>2
      <3> QED
        BY <2>1, <2>7, <3>1, StillClose
    <2> QED
      BY <2>7, <2>10, <2>11, <2>12, <2>13, <2>14 DEF Good, v
  <1> QED
    BY <1>1, <1>2

\* What a new tunnel changes: its slot, which had none, or nothing when there is no slot.
Added(a, w, tunnel) ==
  /\ Good(a.w)
  /\ \/ a.w.fault = "full" /\ a.w.cells = w.cells /\ a.w.signals = w.signals
     \/ /\ a.w.fault = "none" /\ a.id \in Active(a.w) /\ a.id \notin Active(w)
        /\ a.w.cells[a.id] = tunnel /\ a.w.signals = w.signals
        /\ \A j \in Ids \ {a.id} : a.w.cells[j] = w.cells[j]

\* The slot i that slot_alloc finds, when it has taken w to u: it has no tunnel and nothing
\* to send.
Found(u, w, i) ==
  /\ u \in Worlds /\ i \in Ids /\ Close(u)
  /\ u.cells = w.cells /\ u.signals = w.signals /\ u.fault = w.fault
  /\ "active" \notin w.slots[i].flags /\ u.slots[i].flags = {"used"}
  /\ \A j \in Ids \ {i} : u.slots[j] = w.slots[j]
  /\ IsInjective(u.tmwait) /\ ToSet(u.tmwait) = ToSet(w.tmwait) \ {i}
  /\ Cardinality(Used(w) \union {i}) <= Limit

Seated(u, i, c) == [u EXCEPT !.slots[i].flags = @ \union {"active"}, !.cells[i] = c]

\* A tunnel takes the slot that was found for it.
LEMMA AttachGood ==
  ASSUME NEW w, Good(w), w.fault = "none", NEW c \in Tunnels, c.queue = <<>>,
         NEW u, NEW i, Found(u, w, i)
  PROVE  Added([w |-> Seated(u, i, c), id |-> i], w, c)
  <1> DEFINE v == Seated(u, i, c)
             h == [u.slots[i] EXCEPT !.flags = @ \union {"active"}]
             A == [u.slots EXCEPT ![i] = h]
             B == [w.cells EXCEPT ![i] = c]
  <1> HIDE DEF v, h, A, B
  <1>1. w \in Worlds /\ Flagged(w) /\ Lively(w) /\ Resting(w)
    BY DEF Good, InUse
  <1> USE DEF Found
  <1>2. h \in Slots /\ h.flags = {"used", "active"} /\ h.timeo = u.slots[i].timeo
    <2>1. u.slots[i] \in Slots
      BY DEF Worlds
    <2> QED
      BY <2>1 DEF Slots, h
  <1>3. A \in [Ids -> Slots] /\ A[i] = h /\ \A j \in Ids \ {i} : A[j] = w.slots[j]
    BY <1>2 DEF Worlds, A
  <1>4. B \in [Ids -> Tunnels] /\ B[i] = c /\ \A j \in Ids \ {i} : B[j] = w.cells[j]
    BY <1>1 DEF Worlds, B
  <1>5. v = [u EXCEPT !.slots = A, !.cells = B]
    BY DEF Seated, v, A, B, h
  <1>6. /\ v \in Worlds /\ v.slots = A /\ v.cells = B /\ v.signals = w.signals /\ v.fault = w.fault
        /\ v.tmwait = u.tmwait /\ v.base = u.base /\ v.tail = u.tail /\ v.age = u.age
    BY <1>3, <1>4, <1>5 DEF Worlds
  <1>7. "signal" \notin w.slots[i].flags /\ w.cells[i] = NoCell
    BY <1>1 DEF Flagged
  <1>8. Flagged(v)
    <2> SUFFICES ASSUME NEW j \in Ids
                 PROVE  LET x == v.slots[j]
                        IN  /\ "signal" \in x.flags => "active" \in x.flags
                            /\ "active" \in x.flags => "used" \in x.flags
                            /\ "used" \notin x.flags => x = Slot
                            /\ "active" \notin x.flags => v.cells[j] = NoCell
      BY DEF Flagged
    <2>1. CASE j = i
      BY <1>2, <1>3, <1>6, <2>1
    <2>2. CASE j # i
      BY <1>1, <1>3, <1>4, <1>6, <2>2 DEF Flagged
    <2> QED
      BY <2>1, <2>2
  <1>9. InUse(v)
    <2>1. Used(v) = Used(w) \union {i}
      <3>1. \A j \in Ids : "used" \in v.slots[j].flags <=> "used" \in w.slots[j].flags \/ j = i
        BY <1>2, <1>3, <1>6
      <3> QED
        BY <1>1, <1>6, <1>8, <3>1, UsedHasItsFlag
    <2> QED
      BY <1>6, <1>8, <2>1 DEF InUse
  <1>10. Lively(v)
    <2>1. i \notin ToSet(w.signals)
      BY <1>1, <1>7 DEF Lively
    <2>2. ToSet(<<>>) = {} /\ Len(<<>>) <= FifoLimit
      BY Numbers DEF ToSet
    <2>3. ASSUME NEW j \in Ids
          PROVE  LET x == v.cells[j]
                 IN  /\ "signal" \in v.slots[j].flags <=> j \in ToSet(v.signals)
                     /\ "signal" \in v.slots[j].flags <=> x.queue # <<>>
                     /\ Len(x.queue) <= FifoLimit
                     /\ "sink" \in ToSet(x.queue) => "sink" \in x.sessions
      <3>1. CASE j = i
        BY <1>2, <1>3, <1>4, <1>6, <2>1, <2>2, <3>1
      <3>2. CASE j # i
        BY <1>1, <1>3, <1>4, <1>6, <3>2 DEF Lively
      <3> QED
        BY <3>1, <3>2
    <2> QED
      BY <1>1, <1>6, <2>3 DEF Lively
  <1>11. Resting(v)
    <2>1. ASSUME NEW j \in Ids
          PROVE  j \in ToSet(v.tmwait) <=> "used" \in v.slots[j].flags /\ "active" \notin v.slots[j].flags
      <3>1. CASE j = i
        BY <1>2, <1>3, <1>6, <3>1
      <3>2. CASE j # i
        BY <1>1, <1>3, <1>6, <3>2 DEF Resting
      <3> QED
        BY <3>1, <3>2
    <2> QED
      BY <1>6, <2>1 DEF Resting
  <1>12. Close(v)
    <2>1. \A j \in Ids : v.slots[j].timeo = u.slots[j].timeo
      BY <1>2, <1>3, <1>6
    <2>2. u.tmwait \in Seq(Ids)
      BY DEF Worlds
    <2>3. ToSet(u.tmwait) \subseteq Ids
      BY <2>2 DEF ToSet
    <2> QED
      BY <1>6, <2>1, <2>3, StillClose
  <1>13. i \in Active(v) /\ i \notin Active(w)
    BY <1>2, <1>3, <1>6 DEF Active
  <1>14. Good(v)
    BY <1>6, <1>9, <1>10, <1>11, <1>12 DEF Good
  <1> QED
    BY <1>4, <1>6, <1>13, <1>14 DEF Added, v
\* add, with the search of a slot and the assertion of a full table.
LEMMA AddGood ==
  ASSUME NEW w, Good(w), w.fault = "none", NEW c \in Tunnels, c.queue = <<>>
  PROVE  Added(add(w, c), w, c)
  <1>1. w \in Worlds /\ Flagged(w) /\ Resting(w) /\ Close(w) /\ w.next \in Ids /\ Cardinality(Used(w)) <= Limit
    BY DEF Good, InUse, Worlds
  <1>2. \A u, i : u.fault = "none" /\ slot_alloc(w) = [w |-> u, id |-> i] =>
          add(w, c) = [w |-> Seated(u, i, c), id |-> i]
    BY DEF add, Seated
  <1>3. CASE Cardinality(Used(w)) < Limit
    <2> DEFINE empty == {k \in Ids : w.slots[(w.next + k) % (Limit + 1)] = Slot}
               m == CHOOSE k \in empty : \A j \in empty : k <= j
               i == (w.next + m) % (Limit + 1)
               n == (i + 1) % (Limit + 1)
               h == [w.slots[i] EXCEPT !.flags = {"used"}]
               A == [w.slots EXCEPT ![i] = h]
               u == [w EXCEPT !.next = n, !.slots = A]
    <2>1. slot_alloc(w) = [w |-> [w EXCEPT !.next = n, !.slots[i].flags = {"used"}], id |-> i]
      BY <1>3 DEF slot_alloc
    <2>2. m \in empty
      <3>1. Used(w) # Ids /\ Used(w) \subseteq Ids
        <4>1. Cardinality(Used(w)) # Cardinality(Ids)
          BY <1>3, UsedIsFinite, Numbers
        <4>2. Used(w) \subseteq Ids
          BY DEF Used
        <4> QED
          BY <4>1, <4>2
      <3>2. PICK x \in Ids : w.slots[x] = Slot
        BY <3>1 DEF Used
      <3>3. PICK k \in Ids : (w.next + k) % (Limit + 1) = x
        BY <1>1, CountsOn
      <3>4. k \in empty
        BY <3>2, <3>3
      <3>5. empty \subseteq Nat
        BY Numbers DEF Ids
      <3>6. \E y \in empty : \A j \in empty : y <= j
        <4> HIDE DEF empty
        <4> QED
          BY <3>4, <3>5, Smallest
      <3> HIDE DEF empty
      <3> QED
        BY <3>6
    <2>3. m \in Ids /\ w.slots[i] = Slot
      BY <2>2
    <2> HIDE DEF empty, m
    <2>4. i \in Ids
      <3>1. w.next + m \in Nat
        <4>1. w.next \in Ids /\ m \in Ids /\ Ids \subseteq Nat
          BY <1>1, <2>3, Numbers DEF Ids
        <4>2. w.next \in Nat /\ m \in Nat
          BY <4>1
        <4> QED
          BY <4>2
      <3> QED
        BY <3>1, Modulo
    <2> HIDE DEF i
    <2>5. n \in Ids
      <3>1. i + 1 \in Nat
        BY <2>4, Numbers DEF Ids
      <3> QED
        BY <3>1, Modulo
    <2> HIDE DEF n
    <2>6. slot_alloc(w) = [w |-> u, id |-> i]
      BY <2>1
    <2> HIDE DEF h, A, u
    <2>7. h \in Slots /\ h.flags = {"used"}
      BY <2>3 DEF Slots, Slot, h
    <2>8. A \in [Ids -> Slots] /\ A[i] = h /\ \A j \in Ids \ {i} : A[j] = w.slots[j]
      BY <1>1, <2>4, <2>7 DEF Worlds, A
    <2>9. /\ u \in Worlds /\ u.slots = A /\ u.cells = w.cells /\ u.signals = w.signals /\ u.fault = w.fault
          /\ u.tmwait = w.tmwait /\ u.base = w.base /\ u.tail = w.tail /\ u.age = w.age
      BY <1>1, <2>5, <2>8 DEF Worlds, u
    <2>10. "active" \notin w.slots[i].flags /\ "used" \notin w.slots[i].flags
      BY <2>3 DEF Slot
    <2>11. i \notin ToSet(w.tmwait) /\ IsInjective(w.tmwait)
      BY <1>1, <2>4, <2>10 DEF Resting
    <2>12. ToSet(u.tmwait) = ToSet(w.tmwait) \ {i} /\ IsInjective(u.tmwait)
      BY <2>9, <2>11
    <2>13. Close(u)
      <3>1. w.tmwait \in Seq(Ids)
        BY <1>1 DEF Worlds
      <3>2. \A j \in ToSet(w.tmwait) : j \in Ids \ {i}
        BY <2>11, <3>1 DEF ToSet
      <3> QED
        BY <1>1, <2>8, <2>9, <3>2, StillClose
    <2>14. Cardinality(Used(w) \union {i}) <= Limit
      <3> DEFINE U == Used(w)
      <3>1. IsFiniteSet(U) /\ Cardinality(U) \in Nat /\ Cardinality(U) < Limit /\ Limit \in Nat
        BY <1>3, UsedIsFinite, Numbers
      <3> HIDE DEF U
      <3>2. Cardinality(U \union {i}) = Cardinality(U) \/ Cardinality(U \union {i}) = Cardinality(U) + 1
        BY <3>1, FS_AddElement
      <3>3. Cardinality(U \union {i}) <= Limit
        BY <3>1, <3>2
      <3> QED
        BY <3>3 DEF U
    <2>15. Found(u, w, i)
      <3>1. u.slots[i].flags = {"used"} /\ \A j \in Ids \ {i} : u.slots[j] = w.slots[j]
        BY <2>7, <2>8, <2>9
      <3> QED
        BY <2>4, <2>9, <2>10, <2>12, <2>13, <2>14, <3>1 DEF Found
    <2>16. add(w, c) = [w |-> Seated(u, i, c), id |-> i]
      BY <1>2, <2>6, <2>9
    <2> QED
      BY <2>15, <2>16, AttachGood
  <1>4. CASE ~(Cardinality(Used(w)) < Limit) /\ w.tmwait # <<>>
    <2> DEFINE u == Awake(w)
               i == Head(w.tmwait)
    <2> HIDE DEF u, i
    <2>1. /\ u \in Worlds /\ i \in Ids /\ i \in ToSet(w.tmwait)
          /\ IsInjective(u.tmwait) /\ ToSet(u.tmwait) = ToSet(w.tmwait) \ {i}
          /\ u.slots[i].flags = w.slots[i].flags
          /\ \A j \in Ids \ {i} : u.slots[j] = w.slots[j]
          /\ u.cells = w.cells /\ u.signals = w.signals /\ u.fault = w.fault
          /\ Close(u)
      BY <1>4, AwakeFacts DEF u, i
    <2>2. slot_alloc(w) = [w |-> u, id |-> i]
      BY <1>4 DEF slot_alloc, u, i
    <2>3. "used" \in w.slots[i].flags /\ "active" \notin w.slots[i].flags /\ "signal" \notin w.slots[i].flags
      BY <1>1, <2>1 DEF Resting, Flagged
    <2>4. u.slots[i].flags = {"used"}
      <3>1. w.slots[i].flags \subseteq {"used", "active", "signal"}
        BY <1>1, <2>1 DEF Worlds, Slots
      <3> QED
        BY <2>1, <2>3, <3>1
    <2>5. Cardinality(Used(w) \union {i}) <= Limit
      <3>1. i \in Used(w)
        BY <1>1, <2>1, <2>3, UsedHasItsFlag
      <3>2. Used(w) \union {i} = Used(w)
        BY <3>1
      <3> QED
        BY <1>1, <3>2
    <2>6. Found(u, w, i)
      BY <2>1, <2>3, <2>4, <2>5 DEF Found
    <2>7. add(w, c) = [w |-> Seated(u, i, c), id |-> i]
      BY <1>2, <2>1, <2>2
    <2> QED
      BY <2>6, <2>7, AttachGood
  <1>5. CASE ~(Cardinality(Used(w)) < Limit) /\ w.tmwait = <<>>
    <2> DEFINE v == [w EXCEPT !.fault = "full"]
    <2> HIDE DEF v
    <2>1. slot_alloc(w) = [w |-> v, id |-> 0]
      BY <1>5 DEF slot_alloc, v
    <2>2. /\ v \in Worlds /\ v.fault = "full" /\ v.slots = w.slots /\ v.cells = w.cells /\ v.signals = w.signals
          /\ v.tmwait = w.tmwait /\ v.base = w.base /\ v.tail = w.tail /\ v.age = w.age
      BY <1>1 DEF Worlds, v
    <2>3. add(w, c) = [w |-> v, id |-> 0]
      BY <2>1, <2>2 DEF add
    <2>4. Used(v) = Used(w) /\ Active(v) = Active(w)
      BY <2>2 DEF Used, Active
    <2>5. Active(w) = Used(w)
      <3>1. ToSet(<<>>) = {}
        BY DEF ToSet
      <3>2. \A j \in Ids : "used" \in w.slots[j].flags <=> "active" \in w.slots[j].flags
        BY <1>1, <1>5, <3>1 DEF Resting, Flagged
      <3> QED
        BY <1>1, <3>2, UsedHasItsFlag DEF Active
    <2>6. Cardinality(Active(v)) = Limit
      BY <1>1, <1>5, <2>4, <2>5, UsedIsFinite, Numbers
    <2>7. Flagged(v) /\ Resting(v) /\ Lively(v)
      BY <2>2 DEF Good, InUse, Flagged, Resting, Lively
    <2>8. Close(v)
      BY <1>1, <2>2, StillClose
    <2>9. Good(v)
      BY <1>1, <2>2, <2>4, <2>6, <2>7, <2>8 DEF Good, InUse
    <2> QED
      BY <2>2, <2>3, <2>9 DEF Added
  <1> QED
    BY <1>3, <1>4, <1>5
-----------------------------------------------------------------------------
(* The handlers.                                                             *)

\* A tunnel may go when nothing is left to send: what is in it has been pushed by a
\* source or a finder, when the timer runs, and not by a sink.
Ready(w, i) ==
  LET c == w.cells[i]
  IN  c.queue # <<>> => c.sessions \intersect {"source", "finder"} # {} /\ "sink" \notin ToSet(c.queue)

\* connect of a tunnel, with what its sessions push when they hear of it.
LEMMA ConnectGood ==
  ASSUME NEW w, Good(w), NEW i \in Active(w)
  PROVE  Good(connect(w, i)) /\ \A j \in Ids \ {i} : connect(w, i).cells[j] = w.cells[j]
  <1> DEFINE c == push(w, i, "other")
             d == push(c, i, "other")
  <1>1. "other" \in Senders /\ "other" # "sink"
    BY DEF Senders
  <1>2. Pushed(c, w, i, "other")
    BY <1>1, PushGood
  <1> HIDE DEF c
  <1>3. Good(c) /\ i \in Active(c) /\ \A j \in Ids \ {i} : c.cells[j] = w.cells[j]
    BY <1>2 DEF Pushed
  <1>4. Pushed(d, c, i, "other")
    BY <1>1, <1>3, PushGood
  <1> HIDE DEF d
  <1>5. Good(d) /\ \A j \in Ids \ {i} : d.cells[j] = w.cells[j]
    BY <1>3, <1>4 DEF Pushed
  <1>6. connect(w, i) = d \/ connect(w, i) = c
    BY DEF connect, c, d
  <1> QED
    BY <1>3, <1>5, <1>6

\* The tunnels that are made are tunnels, with empty Fifos.
LEMMA TunnelFacts ==
  ASSUME NEW S \in SUBSET {"source", "finder", "sink"}
  PROVE  /\ Tunnel(S) \in Tunnels /\ Tunnel(S).queue = <<>>
         /\ [NoCell EXCEPT !.open = TRUE] \in Tunnels /\ [NoCell EXCEPT !.open = TRUE].queue = <<>>
  <1>1. <<>> \in Seq(Senders)
    OBVIOUS
  <1> QED
    BY <1>1 DEF Tunnel, NoCell, Tunnels

\* The two parts of rotate.
Leaves(w, i) == [w EXCEPT !.cells[i].sessions = @ \ {"finder"}]
Enters(w, i) == [w EXCEPT !.cells[i].sessions = @ \union {"finder"}]

\* rotate: the finder leaves the tunnel for that of the next tracker, the others stay ready.
LEMMA RotateGood ==
  ASSUME NEW w, Good(w), w.fault = "none", NEW i \in Active(w), NEW to \in Ids
  PROVE  LET v == rotate(w, i, to)
         IN  Good(v) /\ \A j \in Ids \ {i} : Ready(w, j) => Ready(v, j)
  <1> DEFINE p == push(w, i, "other")
             c == [p.cells[i] EXCEPT !.sessions = @ \ {"finder"}]
             u == [p EXCEPT !.cells[i] = c]
             v == rotate(w, i, to)
  <1>1. "other" \in Senders /\ "other" # "sink"
    BY DEF Senders
  <1>2. Pushed(p, w, i, "other")
    BY <1>1, PushGood
  <1> HIDE DEF p
  <1>3. /\ Good(p) /\ i \in Active(p) /\ p.fault = "none" /\ p \in Worlds /\ i \in Ids
        /\ \A j \in Ids \ {i} : p.cells[j] = w.cells[j]
    BY <1>2 DEF Pushed, Good, Active
  <1>4. c \in Tunnels /\ c.queue = p.cells[i].queue /\ c.sessions = p.cells[i].sessions \ {"finder"}
    <2>1. p.cells[i] \in Tunnels
      BY <1>3 DEF Worlds
    <2> QED
      BY <2>1 DEF Tunnels
  <1> HIDE DEF c
  <1>5. "sink" \in ToSet(c.queue) => "sink" \in c.sessions
    BY <1>3, <1>4 DEF Good, Lively
  <1>6. /\ Good(u) /\ Active(u) = Active(p) /\ u.fault = "none"
        /\ \A j \in Ids \ {i} : u.cells[j] = w.cells[j]
    BY <1>3, <1>4, <1>5, CellGood
  <1>7. v = IF to \in Active(w) \ {0} THEN [u EXCEPT !.cells[to].sessions = @ \union {"finder"}]
            ELSE add(u, Tunnel({"finder"})).w
    <2>1. Leaves(p, i) = u
      BY <1>3 DEF c, Leaves
    <2>2. v = IF to \in Active(w) \ {0} THEN Enters(Leaves(p, i), to) ELSE add(Leaves(p, i), Tunnel({"finder"})).w
      BY DEF rotate, p, Leaves, Enters
    <2> HIDE DEF u, v
    <2> QED
      BY <2>1, <2>2 DEF Enters
  <1> HIDE DEF u, v
  <1>8. \A j \in Ids \ {i} : Ready(w, j) => Ready(u, j)
    BY <1>6 DEF Ready
  <1>9. CASE to \in Active(w) \ {0}
    <2> DEFINE d == [u.cells[to] EXCEPT !.sessions = @ \union {"finder"}]
    <2>1. v = [u EXCEPT !.cells[to] = d]
      BY <1>7, <1>9
    <2>2. to \in Active(u) /\ u \in Worlds /\ to \in Ids
      BY <1>2, <1>6, <1>9 DEF Pushed, Good, Active
    <2>3. d \in Tunnels /\ d.queue = u.cells[to].queue /\ d.sessions = u.cells[to].sessions \union {"finder"}
      <3>1. u.cells[to] \in Tunnels
        BY <2>2 DEF Worlds
      <3> QED
        BY <3>1 DEF Tunnels
    <2> HIDE DEF d
    <2>4. "sink" \in ToSet(d.queue) => "sink" \in d.sessions
      BY <1>6, <2>2, <2>3 DEF Good, Lively
    <2>5. Good(v) /\ v.cells[to] = d /\ \A j \in Ids \ {to} : v.cells[j] = u.cells[j]
      BY <1>6, <2>1, <2>2, <2>3, <2>4, CellGood
    <2>6. \A j \in Ids \ {i} : Ready(u, j) => Ready(v, j)
      <3> SUFFICES ASSUME NEW j \in Ids \ {i}, Ready(u, j)
                   PROVE  Ready(v, j)
        OBVIOUS
      <3>1. CASE j = to
        BY <2>3, <2>5, <3>1 DEF Ready
      <3>2. CASE j # to
        BY <2>5, <3>2 DEF Ready
      <3> QED
        BY <3>1, <3>2
    <2> QED
      BY <1>8, <2>5, <2>6 DEF v
  <1>10. CASE ~(to \in Active(w) \ {0})
    <2> DEFINE t == Tunnel({"finder"})
               a == add(u, t)
    <2>1. t \in Tunnels /\ t.queue = <<>>
      BY TunnelFacts
    <2> HIDE DEF t
    <2>2. Added(a, u, t)
      BY <1>6, <2>1, AddGood
    <2>3. v = a.w
      BY <1>7, <1>10 DEF t
    <2> HIDE DEF a
    <2>4. \A j \in Ids : Ready(u, j) => Ready(v, j)
      <3> SUFFICES ASSUME NEW j \in Ids, Ready(u, j)
                   PROVE  Ready(v, j)
        OBVIOUS
      <3>1. CASE v.cells[j] = u.cells[j]
        BY <3>1 DEF Ready
      <3>2. CASE v.cells[j] # u.cells[j]
        BY <2>1, <2>2, <2>3, <3>2 DEF Added, Ready
      <3> QED
        BY <3>1, <3>2
    <2> QED
      BY <1>8, <2>2, <2>3, <2>4 DEF Added, v
  <1> QED
    BY <1>9, <1>10

\* The timer of one tunnel; the others that are ready stay ready.
LEMMA TimerGood ==
  ASSUME NEW w, Good(w), w.fault = "none", NEW i \in Ids, Ready(w, i), NEW silent, NEW to \in Ids
  PROVE  LET v == Tunnel_on_timer(w, i, silent, to)
         IN  Good(v) /\ \A j \in Ids \ {i} : Ready(w, j) => Ready(v, j)
  <1> DEFINE v == Tunnel_on_timer(w, i, silent, to)
             c == w.cells[i]
  <1>1. CASE i \notin Active(w)
    BY <1>1 DEF Tunnel_on_timer
  <1>2. CASE i \in Active(w) /\ ~c.open
    <2>1. v = Listener_retry(w, i, to)
      BY <1>2 DEF Tunnel_on_timer
    <2>2. CASE c.sessions = {}
      <3>1. c.queue = <<>>
        BY <2>2 DEF Ready
      <3>2. v = slot_detach(w, i)
        BY <2>1, <2>2 DEF Listener_retry
      <3> HIDE DEF v
      <3>3. Good(v) /\ \A j \in Ids \ {i} : v.cells[j] = w.cells[j]
        BY <1>2, <3>1, <3>2, DetachGood
      <3> QED
        BY <3>3 DEF Ready, v
    <2>3. CASE c.sessions # {} /\ to # 0 /\ "finder" \in c.sessions
      BY <1>2, <2>1, <2>3, RotateGood DEF Listener_retry
    <2>4. CASE c.sessions # {} /\ ~(to # 0 /\ "finder" \in c.sessions)
      <3>1. v = connect(w, i)
        BY <2>1, <2>4 DEF Listener_retry
      <3> HIDE DEF v
      <3>2. Good(v) /\ \A j \in Ids \ {i} : v.cells[j] = w.cells[j]
        BY <1>2, <3>1, ConnectGood
      <3> QED
        BY <3>2 DEF Ready, v
    <2> QED
      BY <2>2, <2>3, <2>4
  <1>3. CASE i \in Active(w) /\ c.open /\ silent
    <2> DEFINE d == [c EXCEPT !.open = FALSE, !.sessions = @ \ {"sink"}]
               u == [w EXCEPT !.cells[i] = d]
    <2>1. w \in Worlds
      BY DEF Good
    <2>2. c \in Tunnels
      BY <2>1 DEF Worlds
    <2>3. v = connect(u, i)
      <3>1. v = connect([w EXCEPT !.cells[i].open = FALSE, !.cells[i].sessions = @ \ {"sink"}], i)
        BY <1>3 DEF Tunnel_on_timer, Listener_silence
      <3>2. [w EXCEPT !.cells[i].open = FALSE, !.cells[i].sessions = @ \ {"sink"}] = u
        BY <2>1, <2>2 DEF Worlds, Tunnels
      <3> QED
        BY <3>1, <3>2
    <2>4. d \in Tunnels /\ d.queue = c.queue
      BY <2>2 DEF Tunnels
    <2>5. "sink" \notin ToSet(d.queue)
      <3>1. "sink" \notin ToSet(<<>>)
        BY DEF ToSet
      <3> QED
        BY <2>4, <3>1 DEF Ready
    <2> HIDE DEF d
    <2>6. /\ Good(u) /\ i \in Active(u) /\ \A j \in Ids \ {i} : u.cells[j] = w.cells[j]
      BY <1>3, <2>4, <2>5, CellGood
    <2> HIDE DEF u, v
    <2>7. Good(v) /\ \A j \in Ids \ {i} : v.cells[j] = w.cells[j]
      BY <2>3, <2>6, ConnectGood
    <2> QED
      BY <2>7 DEF Ready, v
  <1>4. CASE i \in Active(w) /\ c.open /\ ~silent
    <2>1. v = push(w, i, "other")
      BY <1>4 DEF Tunnel_on_timer
    <2>2. Pushed(v, w, i, "other")
      BY <1>4, <2>1, PushGood DEF Senders
    <2> HIDE DEF v
    <2>3. Good(v) /\ \A j \in Ids \ {i} : v.cells[j] = w.cells[j]
      BY <2>2 DEF Pushed
    <2> QED
      BY <2>3 DEF Ready, v
  <1> QED
    BY <1>1, <1>2, <1>3, <1>4
\* The loop of on_timer over the slots that rest.
LEMMA ReleaseGood ==
  ASSUME NEW w, Good(w)
  PROVE  Good(Release(w))
  <1> DEFINE N == Len(w.tmwait)
             V == {x \in Worlds : Good(x)}
             G == [n \in 0 .. N |-> V]
             g == [n \in 1 .. N |-> [x \in Worlds |-> Released(x)]]
             Eq(f) == f = [n \in 0 .. N |-> IF n = 0 THEN w ELSE Released(f[n - 1])]
             v == CHOOSE f : Eq(f)
  <1>1. N \in Nat /\ w \in V
    <2>1. w \in Worlds
      BY DEF Good
    <2>2. w.tmwait \in Seq(Ids)
      BY <2>1 DEF Worlds
    <2> QED
      BY <2>1, <2>2
  <1>2. \A x \in V : Released(x) \in V
    BY ReleasedGood DEF Good
  <1>3. Release(w) = v[N]
    BY DEF Release
  <1> HIDE DEF N, V, v
  <1>4. V \subseteq Worlds
    BY DEF V
  <1>5. \A n \in 1 .. N : \A x \in V : n - 1 \in 0 .. N /\ n \in 0 .. N /\ g[n][x] = Released(x)
    BY <1>1, <1>4
  <1>6. PICK f : Steps(f, g, G, w, Worlds, N)
    <2>1. \A n \in 0 .. N : G[n] \subseteq Worlds
      BY <1>4
    <2>2. w \in G[0]
      BY <1>1
    <2>3. \A n \in 1 .. N : \A x \in G[n - 1] : g[n][x] \in G[n]
      <3>1. \A n \in 1 .. N : n - 1 \in 0 .. N /\ n \in 0 .. N
        BY <1>1
      <3>2. \A n \in 1 .. N : G[n - 1] = V /\ G[n] = V
        BY <3>1
      <3> HIDE DEF g, G
      <3> QED
        BY <1>2, <1>5, <3>2
    <2> HIDE DEF g, G
    <2> QED
      BY <1>1, <2>1, <2>2, <2>3, StepsAreThere
  <1>7. Eq(f)
    <2>1. f = [n \in 0 .. N |-> f[n]] /\ f[0] = w /\ \A n \in 0 .. N : f[n] \in V
      BY <1>6 DEF Steps
    <2>2. \A n \in 1 .. N : f[n] = Released(f[n - 1])
      <3>1. \A n \in 1 .. N : f[n] = g[n][f[n - 1]]
        BY <1>6 DEF Steps
      <3> HIDE DEF g
      <3> QED
        BY <1>5, <2>1, <3>1
    <2>3. \A n \in 0 .. N : n # 0 => n \in 1 .. N
      BY <1>1
    <2>4. \A n \in 0 .. N : f[n] = IF n = 0 THEN w ELSE Released(f[n - 1])
      BY <2>1, <2>2, <2>3
    <2> QED
      BY <2>1, <2>4
  <1>8. Eq(v)
    <2> HIDE DEF Eq
    <2> QED
      BY <1>7, Zenon DEF v
  <1>9. \A n \in 0 .. N : v[n] \in V
    <2> DEFINE T == {n \in Nat : n \in 0 .. N => v[n] \in V}
    <2>0. v[0] = w /\ \A n \in 1 .. N : v[n] = Released(v[n - 1])
      <3>1. 0 \in 0 .. N /\ \A n \in 1 .. N : n \in 0 .. N /\ n # 0
        BY <1>1
      <3>2. \A n \in 0 .. N : v[n] = IF n = 0 THEN w ELSE Released(v[n - 1])
        BY <1>8, Zenon
      <3> QED
        BY <3>1, <3>2
    <2>1. 0 \in T
      BY <1>1, <2>0
    <2>2. ASSUME NEW m \in Nat, m \in T PROVE m + 1 \in T
      <3> SUFFICES ASSUME m + 1 \in 0 .. N PROVE v[m + 1] \in V
        OBVIOUS
      <3>1. m \in 0 .. N /\ m + 1 \in 1 .. N /\ (m + 1) - 1 = m
        BY <1>1
      <3> QED
        BY <1>2, <2>0, <2>2, <3>1
    <2> HIDE DEF T
    <2>3. Nat \subseteq T
      BY <2>1, <2>2, Induct
    <2> QED
      BY <2>3, <1>1 DEF T
  <1> QED
    BY <1>1, <1>3, <1>9 DEF V

\* The loop of on_timer over the slots: those to come are ready.
LEMMA TurnsGood ==
  ASSUME NEW w, Good(w), NEW timers, NEW silent, NEW to \in Ids, \A i \in Ids : Ready(w, i)
  PROVE  Good(on_timer(w, timers, silent, to))
  <1> DEFINE Turned(x, n) == Turn(x, n, timers, silent, to)
             V(n) == {x \in Worlds : Good(x) /\ \A i \in Ids : i > n => Ready(x, i)}
             G == [n \in Ids |-> V(n)]
             g == [n \in 1 .. Limit |-> [x \in Worlds |-> Turned(x, n)]]
             Eq(f) == f = [i \in Ids |-> IF i = 0 THEN w ELSE Turn(f[i - 1], i, timers, silent, to)]
             v == CHOOSE f : Eq(f)
  <1>1. Limit \in Nat /\ Ids = 0 .. Limit
    BY Numbers DEF Ids
  <1>2. w \in V(0)
    BY DEF Good
  <1>3. ASSUME NEW n \in 1 .. Limit, NEW x \in V(n - 1)
        PROVE  Turned(x, n) \in V(n)
    <2>1. n \in Ids /\ n \in Nat /\ n > n - 1 /\ \A i \in Ids : i > n => i \in Ids \ {n} /\ i > n - 1
      BY <1>1
    <2>2. Good(x) /\ Ready(x, n) /\ x \in Worlds /\ \A i \in Ids : i > n => Ready(x, i)
      BY <2>1
    <2>3. CASE n \in timers /\ x.fault = "none"
      <3> DEFINE y == Tunnel_on_timer(x, n, n \in silent, to)
      <3>1. Turned(x, n) = y
        BY <2>3 DEF Turn
      <3>2. Good(y) /\ \A j \in Ids \ {n} : Ready(x, j) => Ready(y, j)
        BY <2>1, <2>2, <2>3, TimerGood
      <3> HIDE DEF y
      <3>3. y \in Worlds
        BY <3>2 DEF Good
      <3> QED
        BY <2>1, <2>2, <3>1, <3>2, <3>3
    <2>4. CASE ~(n \in timers /\ x.fault = "none")
      BY <2>2, <2>4 DEF Turn
    <2> QED
      BY <2>3, <2>4
  <1>4. on_timer(w, timers, silent, to) = Release(v[Limit])
    BY DEF on_timer
  <1> HIDE DEF v
  <1>5. \A n \in Ids : V(n) \subseteq Worlds
    OBVIOUS
  <1> HIDE DEF V, Turned
  <1>6. \A n \in 1 .. Limit : n - 1 \in Ids /\ n \in Ids
    BY <1>1
  <1>7. \A n \in 1 .. Limit : \A x \in V(n - 1) : g[n][x] = Turned(x, n)
    BY <1>5, <1>6
  <1>8. PICK f : Steps(f, g, G, w, Worlds, Limit)
    <2>1. \A n \in 0 .. Limit : G[n] \subseteq Worlds
      BY <1>1, <1>5
    <2>2. w \in G[0]
      BY <1>1, <1>2
    <2>3. \A n \in 1 .. Limit : \A x \in G[n - 1] : g[n][x] \in G[n]
      BY <1>3, <1>6, <1>7
    <2> HIDE DEF g, G
    <2> QED
      BY <1>1, <2>1, <2>2, <2>3, StepsAreThere
  <1>9. Eq(f)
    <2>1. f = [n \in Ids |-> f[n]] /\ f[0] = w /\ \A n \in Ids : f[n] \in V(n)
      <3>1. \A n \in Ids : f[n] \in G[n]
        BY <1>1, <1>8 DEF Steps
      <3>2. \A n \in Ids : f[n] \in V(n)
        BY <3>1
      <3>3. f = [n \in Ids |-> f[n]] /\ f[0] = w
        BY <1>1, <1>8 DEF Steps
      <3> QED
        BY <3>2, <3>3
    <2>2. \A n \in 1 .. Limit : f[n] = Turned(f[n - 1], n)
      <3>1. \A n \in 1 .. Limit : f[n] = g[n][f[n - 1]]
        BY <1>8 DEF Steps
      <3> HIDE DEF g
      <3> QED
        BY <1>6, <1>7, <2>1, <3>1
    <2>3. \A n \in Ids : n # 0 => n \in 1 .. Limit
      BY <1>1
    <2>4. \A n \in Ids : f[n] = IF n = 0 THEN w ELSE Turned(f[n - 1], n)
      BY <2>1, <2>2, <2>3
    <2> QED
      BY <2>1, <2>4 DEF Turned
  <1>10. Eq(v)
    <2> HIDE DEF Eq
    <2> QED
      BY <1>9, Zenon DEF v
  <1>11. \A n \in Ids : v[n] \in V(n)
    <2> DEFINE T == {n \in Nat : n \in Ids => v[n] \in V(n)}
    <2>0. v[0] = w /\ \A n \in 1 .. Limit : v[n] = Turned(v[n - 1], n)
      <3>1. 0 \in Ids /\ \A n \in 1 .. Limit : n \in Ids /\ n # 0
        BY <1>1
      <3>2. \A n \in Ids : v[n] = IF n = 0 THEN w ELSE Turn(v[n - 1], n, timers, silent, to)
        BY <1>10, Zenon
      <3> QED
        BY <3>1, <3>2 DEF Turned
    <2>1. 0 \in T
      BY <1>2, <2>0
    <2>2. ASSUME NEW m \in Nat, m \in T PROVE m + 1 \in T
      <3> SUFFICES ASSUME m + 1 \in Ids PROVE v[m + 1] \in V(m + 1)
        OBVIOUS
      <3>1. m \in Ids /\ m + 1 \in 1 .. Limit /\ (m + 1) - 1 = m
        BY <1>1
      <3>2. v[m] \in V((m + 1) - 1)
        BY <2>2, <3>1
      <3>3. Turned(v[(m + 1) - 1], m + 1) \in V(m + 1)
        BY <1>3, <3>1, <3>2
      <3> QED
        BY <2>0, <3>1, <3>3
    <2> HIDE DEF T
    <2>3. Nat \subseteq T
      BY <2>1, <2>2, Induct
    <2>4. Ids \subseteq Nat
      BY <1>1
    <2> QED
      BY <2>3, <2>4 DEF T
  <1>12. Limit \in Ids
    BY <1>1
  <1>13. Good(v[Limit])
    BY <1>11, <1>12 DEF V
  <1> QED
    BY <1>4, <1>13, ReleaseGood
\* Time passes: what rests is older, and expires that much earlier.
LEMMA LaterGood ==
  ASSUME NEW w, Good(w), NEW d \in Int
  PROVE  LET v == Later(w, d)
         IN  Good(v) /\ v.cells = w.cells /\ v.signals = w.signals /\ v.fault = w.fault
  <1> DEFINE v == Later(w, d)
             t == w.tmwait
             Rest(i) == \E k \in DOMAIN t : t[k] = i
             b == IF t = <<>> THEN 0 ELSE w.base - d
             z == IF t = <<>> THEN 0 ELSE w.tail - d
             a == [i \in Ids |-> IF Rest(i) THEN w.age[i] + d ELSE 0]
             x == [w EXCEPT !.base = b, !.tail = z]
  <1>1. w \in Worlds
    BY DEF Good
  <1>2. t \in Seq(Ids) /\ w.base \in Int /\ w.tail \in Int /\ w.age \in [Ids -> Int]
    BY <1>1 DEF Worlds
  <1>3. v = [x EXCEPT !.age = a]
    BY <1>1 DEF Later, Worlds
  <1> HIDE DEF v, t, Rest
  <1>4. b \in Int /\ z \in Int /\ a \in [Ids -> Int]
    BY <1>2
  <1>5. \A i \in Ids : Rest(i) => a[i] = w.age[i] + d
    OBVIOUS
  <1>6. t # <<>> => b = w.base - d /\ z = w.tail - d
    OBVIOUS
  <1> HIDE DEF a, b, z
  <1>7. /\ x \in Worlds /\ x.base = b /\ x.tail = z /\ x.slots = w.slots /\ x.cells = w.cells
        /\ x.signals = w.signals /\ x.tmwait = t /\ x.fault = w.fault
    BY <1>1, <1>4 DEF Worlds, t
  <1> HIDE DEF x
  <1>8. /\ v \in Worlds /\ v.base = b /\ v.tail = z /\ v.slots = w.slots /\ v.cells = w.cells
        /\ v.signals = w.signals /\ v.tmwait = t /\ v.fault = w.fault /\ v.age = a
    BY <1>3, <1>4, <1>7 DEF Worlds
  <1>9. InUse(v)
    BY <1>8 DEF Good, InUse, Flagged, Used, Active
  <1>10. Lively(v) /\ Resting(v)
    BY <1>8 DEF Good, Lively, Resting, t
  <1>11. Close(v)
    <2>1. PICK e : Line(w, e)
      BY DEF Good, Close
    <2>2. /\ e \in [DOMAIN t -> Int] /\ (t # <<>> => e[1] = w.base /\ e[Len(t)] = w.tail)
          /\ \A k \in DOMAIN t \ {1} : e[k] = e[k - 1] + Second * w.slots[t[k - 1]].timeo
          /\ \A k \in DOMAIN t : TimeWait - w.age[t[k]] - e[k] >= 0 /\ TimeWait - w.age[t[k]] - e[k] < Second
      BY <2>1 DEF Line, t
    <2>3. /\ DOMAIN t = 1 .. Len(t) /\ Len(t) \in Nat /\ (t # <<>> => 1 \in DOMAIN t /\ Len(t) \in DOMAIN t)
          /\ \A k \in DOMAIN t \ {1} : k - 1 \in DOMAIN t
          /\ \A k \in DOMAIN t : t[k] \in Ids
      BY <1>2
    <2> DEFINE f == [k \in DOMAIN t |-> e[k] - d]
    <2>4. f \in [DOMAIN t -> Int] /\ \A k \in DOMAIN t : f[k] = e[k] - d
      BY <2>2
    <2> HIDE DEF f
    <2>5. t # <<>> => f[1] = b /\ f[Len(t)] = z
      BY <1>6, <2>2, <2>3, <2>4
    <2>6. \A k \in DOMAIN t \ {1} : f[k] = f[k - 1] + Second * w.slots[t[k - 1]].timeo
      <3> SUFFICES ASSUME NEW k \in DOMAIN t \ {1}
                   PROVE  f[k] = f[k - 1] + Second * w.slots[t[k - 1]].timeo
        OBVIOUS
      <3> DEFINE y == Second * w.slots[t[k - 1]].timeo
      <3>1. w.slots[t[k - 1]].timeo \in Int
        <4>1. t[k - 1] \in Ids
          BY <2>3
        <4>2. w.slots[t[k - 1]] \in Slots
          BY <1>1, <4>1 DEF Worlds
        <4> QED
          BY <4>2 DEF Slots
      <3>2. y \in Int
        BY <3>1, Numbers
      <3>3. e[k] = e[k - 1] + y /\ e[k] \in Int /\ e[k - 1] \in Int
        BY <2>2, <2>3
      <3>4. f[k] = e[k] - d /\ f[k - 1] = e[k - 1] - d
        BY <2>3, <2>4
      <3> HIDE DEF y
      <3>5. f[k] = f[k - 1] + y
        BY <3>2, <3>3, <3>4
      <3> QED
        BY <3>5 DEF y
    <2>7. ASSUME NEW k \in DOMAIN t
          PROVE  TimeWait - a[t[k]] - f[k] >= 0 /\ TimeWait - a[t[k]] - f[k] < Second
      <3>1. Rest(t[k]) /\ t[k] \in Ids
        BY <2>3 DEF Rest
      <3>2. a[t[k]] = w.age[t[k]] + d /\ w.age[t[k]] \in Int
        BY <1>2, <1>5, <3>1
      <3>3. /\ f[k] = e[k] - d /\ e[k] \in Int /\ TimeWait \in Int /\ Second \in Int
            /\ TimeWait - w.age[t[k]] - e[k] >= 0 /\ TimeWait - w.age[t[k]] - e[k] < Second
        BY <2>2, <2>4, Numbers
      <3> DEFINE y == w.age[t[k]]
                 y2 == a[t[k]]
      <3>4. y \in Int /\ y2 = y + d /\ TimeWait - y - e[k] >= 0 /\ TimeWait - y - e[k] < Second
        BY <3>2, <3>3
      <3> HIDE DEF y, y2
      <3>5. TimeWait - y2 - f[k] >= 0 /\ TimeWait - y2 - f[k] < Second
        BY <3>3, <3>4
      <3> QED
        BY <3>5 DEF y2
    <2>8. Line(v, f)
      BY <1>8, <2>4, <2>5, <2>6, <2>7 DEF Line
    <2> QED
      BY <2>8 DEF Close
  <1> QED
    BY <1>8, <1>9, <1>10, <1>11 DEF Good, v

\* The first tunnel of the line sends a packet.
LEMMA SendGood ==
  ASSUME NEW w, Good(w), w.signals # <<>>
  PROVE  LET v == send_signal(w) IN Good(v) /\ v.fault = w.fault
  <1> DEFINE v == send_signal(w)
             i == Head(w.signals)
             r == Tail(w.signals)
             q == w.cells[i].queue
             p == SubSeq(q, Capacity + 1, Len(q))
             c == [w.cells[i] EXCEPT !.queue = p]
             B == [w.cells EXCEPT ![i] = c]
             u == [w EXCEPT !.signals = r, !.cells = B]
  <1>1. w \in Worlds /\ Flagged(w) /\ Lively(w) /\ w.signals \in Seq(Ids) /\ IsInjective(w.signals)
    BY DEF Good, InUse, Lively, Worlds
  <1>2. /\ r \in Seq(Ids) /\ IsInjective(r) /\ i \in Ids /\ i \in ToSet(w.signals)
        /\ ToSet(r) = ToSet(w.signals) \ {i}
    BY <1>1, Tails
  <1> HIDE DEF i, r
  <1>3. "signal" \in w.slots[i].flags /\ q # <<>> /\ w.cells[i] \in Tunnels
    BY <1>1, <1>2 DEF Lively, Worlds
  <1>4. q \in Seq(Senders)
    BY <1>3 DEF Tunnels
  <1>5. "active" \in w.slots[i].flags /\ "used" \in w.slots[i].flags
    BY <1>1, <1>2, <1>3 DEF Flagged
  <1> HIDE DEF q
  <1>6. p \in Seq(Senders) /\ Len(p) <= Len(q) /\ ToSet(p) \subseteq ToSet(q) /\ Len(q) \in Nat /\ Len(p) \in Nat
    <2>1. Len(q) \in Nat /\ Capacity + 1 \in Nat /\ Capacity + 1 >= 1 /\ DOMAIN q = 1 .. Len(q)
          /\ \A k \in 1 .. Len(q) : q[k] \in Senders
      BY <1>4, Numbers
    <2>2. /\ p \in Seq(Senders) /\ DOMAIN p = 1 .. Len(p) /\ Len(p) \in Nat
          /\ Len(p) = IF Capacity + 1 <= Len(q) THEN Len(q) - Capacity ELSE 0
          /\ \A k \in 1 .. Len(p) : p[k] = q[Capacity + k]
      <3> DEFINE m == Capacity + 1
                 n == Len(q)
      <3>1. m \in Int /\ n \in Int /\ \A k \in m .. n : q[k] \in Senders
        BY <2>1, Numbers
      <3>2. p = SubSeq(q, m, n)
        BY DEF p
      <3> HIDE DEF m, n, p
      <3>3. /\ p \in Seq(Senders) /\ Len(p) = IF m <= n THEN n - m + 1 ELSE 0
            /\ \A k \in 1 .. n - m + 1 : p[k] = q[m + k - 1]
        BY <3>1, <3>2, SubSeqProperties
      <3>4. Len(p) = (IF Capacity + 1 <= Len(q) THEN Len(q) - Capacity ELSE 0) /\ Capacity \in Nat
        <4>1. m = Capacity + 1 /\ n = Len(q) /\ Capacity \in Nat /\ Len(q) \in Nat
          BY <2>1, Numbers DEF m, n
        <4>2. m <= n => n - m + 1 = Len(q) - Capacity
          BY <4>1
        <4> QED
          BY <3>3, <4>1, <4>2
      <3>5. DOMAIN p = 1 .. Len(p) /\ Len(p) \in Nat
        BY <3>3
      <3>6. ASSUME NEW k \in 1 .. Len(p)
            PROVE  p[k] = q[Capacity + k]
        <4>1. k \in 1 .. n - m + 1 /\ m + k - 1 = Capacity + k
          BY <3>1, <3>3, <3>4 DEF m
        <4> QED
          BY <3>3, <4>1
      <3> QED
        BY <3>3, <3>4, <3>5, <3>6
    <2> HIDE DEF p
    <2>3. Len(p) <= Len(q)
      <3> DEFINE m == Len(p)
                 n == Len(q)
      <3>1. m = (IF Capacity + 1 <= n THEN n - Capacity ELSE 0) /\ n \in Nat /\ Capacity \in Nat
        BY <2>1, <2>2, Numbers
      <3> HIDE DEF m, n
      <3>2. m <= n
        BY <3>1
      <3> QED
        BY <3>2 DEF m, n
    <2>4. \A k \in 1 .. Len(p) : Capacity + k \in 1 .. Len(q)
      <3>1. Capacity \in Nat /\ Len(q) \in Nat /\ Len(p) \in Nat
            /\ Len(p) = IF Capacity + 1 <= Len(q) THEN Len(q) - Capacity ELSE 0
        BY <2>1, <2>2, Numbers
      <3> QED
        BY <3>1
    <2>5. ToSet(p) \subseteq ToSet(q)
      BY <2>1, <2>2, <2>4 DEF ToSet
    <2> QED
      BY <2>1, <2>2, <2>3, <2>5
  <1> HIDE DEF p
  <1>7. c \in Tunnels /\ c.queue = p /\ c.sessions = w.cells[i].sessions
    BY <1>3, <1>6 DEF Tunnels
  <1>8. u = on_send([w EXCEPT !.signals = r], i)
    BY <1>1, <1>2 DEF on_send, p, q, Worlds
  <1> HIDE DEF c
  <1>9. B \in [Ids -> Tunnels] /\ B[i] = c /\ \A j \in Ids \ {i} : B[j] = w.cells[j]
    BY <1>1, <1>2, <1>7 DEF Worlds
  <1> HIDE DEF B
  <1>10. /\ u \in Worlds /\ u.signals = r /\ u.cells = B /\ u.slots = w.slots /\ u.tmwait = w.tmwait
         /\ u.base = w.base /\ u.tail = w.tail /\ u.age = w.age /\ u.fault = w.fault
    BY <1>1, <1>2, <1>9 DEF Worlds
  <1> HIDE DEF u
  <1>11. v = IF p = <<>> THEN [u EXCEPT !.slots[i].flags = @ \ {"signal"}]
             ELSE [u EXCEPT !.signals = Append(@, i)]
    BY <1>3, <1>7, <1>8, <1>9, <1>10 DEF send_signal, i, r, q
  <1> HIDE DEF v
  <1>12. /\ v \in Worlds /\ v.cells = B /\ v.tmwait = w.tmwait
         /\ v.base = w.base /\ v.tail = w.tail /\ v.age = w.age /\ v.fault = w.fault
         /\ IsInjective(v.signals)
         /\ \A j \in Ids \ {i} : v.slots[j] = w.slots[j] /\ (j \in ToSet(v.signals) <=> j \in ToSet(w.signals))
         /\ v.slots[i].timeo = w.slots[i].timeo
         /\ "used" \in v.slots[i].flags /\ "active" \in v.slots[i].flags
         /\ "signal" \in v.slots[i].flags <=> p # <<>>
         /\ i \in ToSet(v.signals) <=> p # <<>>
    <2>1. CASE p = <<>>
      <3> DEFINE h == [w.slots[i] EXCEPT !.flags = @ \ {"signal"}]
                 A == [w.slots EXCEPT ![i] = h]
      <3>1. h \in Slots /\ h.timeo = w.slots[i].timeo /\ h.flags = w.slots[i].flags \ {"signal"}
        <4>1. w.slots[i] \in Slots
          BY <1>1, <1>2 DEF Worlds
        <4> QED
          BY <4>1 DEF Slots
      <3>2. v = [u EXCEPT !.slots = A]
        BY <1>10, <1>11, <2>1
      <3> HIDE DEF h
      <3>3. A \in [Ids -> Slots] /\ A[i] = h /\ \A j \in Ids \ {i} : A[j] = w.slots[j]
        BY <1>1, <1>2, <3>1 DEF Worlds
      <3> HIDE DEF A
      <3>4. /\ v \in Worlds /\ v.cells = B /\ v.tmwait = w.tmwait
            /\ v.base = w.base /\ v.tail = w.tail /\ v.age = w.age /\ v.fault = w.fault
            /\ v.signals = r /\ v.slots = A
        BY <1>10, <3>2, <3>3 DEF Worlds
      <3> QED
        BY <1>2, <1>5, <2>1, <3>1, <3>3, <3>4
    <2>2. CASE p # <<>>
      <3> DEFINE s == Append(r, i)
      <3>1. s \in Seq(Ids) /\ ToSet(s) = ToSet(w.signals) /\ IsInjective(s)
        <4>1. i \notin ToSet(r)
          BY <1>2
        <4>2. s \in Seq(Ids) /\ ToSet(s) = ToSet(r) \union {i} /\ IsInjective(s)
          BY <1>2, <4>1, Appends
        <4> QED
          BY <1>2, <4>2
      <3>2. v = [u EXCEPT !.signals = s]
        BY <1>10, <1>11, <2>2
      <3> HIDE DEF s
      <3>3. /\ v \in Worlds /\ v.cells = B /\ v.tmwait = w.tmwait
            /\ v.base = w.base /\ v.tail = w.tail /\ v.age = w.age /\ v.fault = w.fault
            /\ v.signals = s /\ v.slots = w.slots
        BY <1>10, <3>1, <3>2 DEF Worlds
      <3> QED
        BY <1>2, <1>3, <1>5, <2>2, <3>1, <3>3
    <2> QED
      BY <2>1, <2>2
  <1>13. Alike(v, w)
    <2>1. ASSUME NEW j \in Ids
          PROVE  /\ v.slots[j].timeo = w.slots[j].timeo
                 /\ "used" \in v.slots[j].flags <=> "used" \in w.slots[j].flags
                 /\ "active" \in v.slots[j].flags <=> "active" \in w.slots[j].flags
      BY <1>5, <1>12
    <2> QED
      BY <1>12, <2>1 DEF Alike
  <1>14. Flagged(v)
    BY <1>1, <1>9, <1>12 DEF Flagged
  <1>15. Lively(v)
    <2>1. ASSUME NEW j \in Ids
          PROVE  LET d == v.cells[j]
                 IN  /\ "signal" \in v.slots[j].flags <=> j \in ToSet(v.signals)
                     /\ "signal" \in v.slots[j].flags <=> d.queue # <<>>
                     /\ Len(d.queue) <= FifoLimit
                     /\ "sink" \in ToSet(d.queue) => "sink" \in d.sessions
      <3>1. CASE j = i
        <4>1. Len(q) <= FifoLimit /\ ("sink" \in ToSet(q) => "sink" \in w.cells[i].sessions)
          BY <1>1, <1>2 DEF Lively, q
        <4>2. Len(p) <= FifoLimit
          BY <1>6, <4>1, Numbers
        <4> QED
          BY <1>6, <1>7, <1>9, <1>12, <3>1, <4>1, <4>2
      <3>2. CASE j # i
        BY <1>1, <1>9, <1>12, <3>2 DEF Lively
      <3> QED
        BY <3>1, <3>2
    <2> QED
      BY <1>12, <2>1 DEF Lively
  <1> QED
    BY <1>12, <1>13, <1>14, <1>15, StillGood DEF v
-----------------------------------------------------------------------------
(* The steps.                                                                *)

StatInv == stat \in [next : Int, last : Int] /\ stat.last <= 0

IInv ==
  /\ Good(World) /\ StatInv
  /\ sending \in BOOLEAN /\ (sending => signals # <<>>)
  /\ ~sending => \A i \in Ids : Ready(World, i)

\* The variables are the parts of World.
LEMMA WorldFields ==
  /\ World.slots = slots /\ World.next = next /\ World.tmwait = tmwait /\ World.base = base
  /\ World.tail = tail /\ World.signals = signals /\ World.cells = cells /\ World.age = age
  /\ World.fault = fault
  BY DEF World

\* A step to a good world.
LEMMA Became ==
  ASSUME NEW w, Good(w), Become(w)
  PROVE  World' = w
  <1>1. w = [slots |-> w.slots, next |-> w.next, tmwait |-> w.tmwait, base |-> w.base, tail |-> w.tail,
             signals |-> w.signals, cells |-> w.cells, age |-> w.age, fault |-> w.fault]
    BY DEF Good, Worlds
  <1> QED
    BY <1>1 DEF World, Become

\* When no tunnel waits nothing is left to send.
LEMMA NothingWaits ==
  ASSUME NEW w, Good(w), w.signals = <<>>, NEW i \in Ids
  PROVE  Ready(w, i)
  <1>1. i \notin ToSet(<<>>)
    BY DEF ToSet
  <1>2. w.cells[i].queue = <<>>
    BY <1>1 DEF Good, Lively
  <1> QED
    BY <1>2 DEF Ready

\* A handler of the socket, which sends what there is.
LEMMA Handled ==
  ASSUME NEW w, Good(w), Become(w), sending' = Waiting(w), StatInv'
  PROVE  IInv'
  <1>1. World' = w
    BY Became
  <1>2. w.signals = <<>> => \A i \in Ids : Ready(w, i)
    BY NothingWaits
  <1>3. signals' = w.signals
    BY DEF Become
  <1>4. Good(World') /\ (~sending' => \A i \in Ids : Ready(World', i))
    BY <1>1, <1>2 DEF Waiting
  <1>5. sending' \in BOOLEAN /\ (sending' => signals' # <<>>)
    BY <1>3 DEF Waiting
  <1> QED
    BY <1>4, <1>5 DEF IInv

\* The invariant of the ticks does not look at other variables.
LEMMA StatStays == ASSUME StatInv, UNCHANGED stat PROVE StatInv'
  BY DEF StatInv

\* A handler of received packets that ends in a good world starts to send from it.
LEMMA ReceivedGood ==
  ASSUME IInv, NEW w, Good(w), Received(w)
  PROVE  IInv'
  BY Handled, StatStays DEF Received, IInv

\* A handler of another than the socket.
LEMMA OutsideGood ==
  ASSUME IInv, NEW w, Good(w), Outside(w), \A i \in Ids : Ready(w, i)
  PROVE  IInv'
  <1>1. World' = w
    BY Became DEF Outside
  <1>2. StatInv' /\ sending' = FALSE
    BY StatStays DEF Outside, IInv
  <1>3. Good(World') /\ \A i \in Ids : Ready(World', i)
    BY <1>1
  <1> QED
    BY <1>2, <1>3 DEF IInv

\* The invariant holds at the start.
LEMMA InitGood == ASSUME Init PROVE IInv
  <1> DEFINE i0 == [flags |-> {"used", "active"}, timeo |-> 0]
  <1>1. /\ slots = [i \in Ids |-> IF i = 0 THEN i0 ELSE Slot]
        /\ next = 1 /\ tmwait = <<>> /\ base = 0 /\ tail = 0 /\ signals = <<>> /\ sending = FALSE
        /\ cells = [i \in Ids |-> NoCell] /\ age = [i \in Ids |-> 0] /\ fault = "none"
        /\ stat = [next |-> Second, last |-> 0]
    BY DEF Init
  <1>2. Limit \in Nat \ {0} /\ 0 \in Ids /\ 1 \in Ids /\ Ids \subseteq Nat
    BY Numbers DEF Ids
  <1>3. i0 \in Slots /\ Slot \in Slots /\ NoCell \in Tunnels
    <2>1. <<>> \in Seq(Senders)
      OBVIOUS
    <2> QED
      BY <2>1 DEF Slots, Slot, Tunnels, NoCell
  <1>4. World \in Worlds
    <2>1. slots \in [Ids -> Slots]
      BY <1>1, <1>3
    <2>2. cells \in [Ids -> Tunnels]
      BY <1>1, <1>3
    <2>3. <<>> \in Seq(Ids) /\ 0 \in Int /\ [i \in Ids |-> 0] \in [Ids -> Int]
      OBVIOUS
    <2>4. next \in Ids /\ tmwait \in Seq(Ids) /\ base \in Int /\ tail \in Int /\ signals \in Seq(Ids)
          /\ age \in [Ids -> Int] /\ fault \in {"none", "full", "signal", "empty", "division"}
      BY <1>1, <1>2, <2>3
    <2> QED
      BY <2>1, <2>2, <2>4 DEF World, Worlds
  <1>5. \A i \in Ids : /\ World.cells[i] = NoCell
                       /\ i = 0 => World.slots[i] = i0
                       /\ i # 0 => World.slots[i] = Slot
    BY <1>1, WorldFields
  <1>6. ToSet(<<>>) = {} /\ IsInjective(<<>>)
    BY DEF ToSet, IsInjective
  <1>7. World.signals = <<>> /\ World.tmwait = <<>> /\ World.fault = "none"
    BY <1>1, WorldFields
  <1> HIDE DEF i0
  <1>8. i0.flags = {"used", "active"} /\ Slot.flags = {} /\ NoCell.queue = <<>> /\ NoCell.sessions = {}
    BY DEF i0, Slot, NoCell
  <1>9. Flagged(World)
    <2>1. ASSUME NEW i \in Ids
          PROVE  LET s == World.slots[i]
                 IN  /\ "signal" \in s.flags => "active" \in s.flags
                     /\ "active" \in s.flags => "used" \in s.flags
                     /\ "used" \notin s.flags => s = Slot
                     /\ "active" \notin s.flags => World.cells[i] = NoCell
      BY <1>5, <1>8
    <2> QED
      BY <2>1 DEF Flagged
  <1>10. InUse(World)
    <2>1. Used(World) = {i \in Ids : "used" \in World.slots[i].flags}
      BY <1>4, <1>9, UsedHasItsFlag
    <2>2. Used(World) = {0}
      BY <1>2, <1>5, <1>8, <2>1
    <2>3. Cardinality(Used(World)) = 1
      BY <2>2, FS_Singleton
    <2>4. Cardinality(Used(World)) <= Limit
      BY <1>2, <2>3
    <2> QED
      BY <1>7, <1>9, <2>4 DEF InUse
  <1>11. Lively(World)
    <2>1. Len(<<>>) <= FifoLimit
      BY Numbers
    <2>2. ASSUME NEW i \in Ids
          PROVE  "signal" \notin World.slots[i].flags /\ World.cells[i].queue = <<>>
      BY <1>5, <1>8
    <2> QED
      BY <1>6, <1>7, <2>1, <2>2 DEF Lively
  <1>12. Resting(World)
    <2>1. ASSUME NEW i \in Ids
          PROVE  ~("used" \in World.slots[i].flags /\ "active" \notin World.slots[i].flags)
      BY <1>5, <1>8
    <2> QED
      BY <1>6, <1>7, <2>1 DEF Resting
  <1>13. Close(World)
    <2> DEFINE e == [k \in {} |-> 0]
    <2>1. DOMAIN World.tmwait = {}
      BY <1>7
    <2>2. e \in [DOMAIN World.tmwait -> Int]
      BY <2>1
    <2>3. Line(World, e)
      BY <1>7, <2>1, <2>2 DEF Line
    <2> QED
      BY <2>3 DEF Close
  <1>14. Good(World)
    BY <1>4, <1>10, <1>11, <1>12, <1>13 DEF Good
  <1>15. \A i \in Ids : Ready(World, i)
    BY <1>7, <1>14, NothingWaits
  <1>16. StatInv
    BY <1>1, Numbers DEF StatInv
  <1> QED
    BY <1>1, <1>14, <1>15, <1>16 DEF IInv
\* A tick: the timers of all tunnels that are ready, one after another.
LEMMA TickGood ==
  ASSUME IInv, TimersInv, fault = "none", Tick
  PROVE  IInv'
  <1>1. PICK late \in IF stat.next <= 0 THEN {0} ELSE Lates, timers \in SUBSET (Active(World) \ {0}) :
          \E silent \in SUBSET {i \in timers : cells[i].open}, to \in Targets(timers) :
            LET d == due[1] + late
                s == [next |-> stat.next - d, last |-> stat.last - d]
                w == on_timer(Later(World, d), timers, silent, to)
            IN  /\ due' = handle_tick([k \in Ticks |-> due[k] - d]) /\ stat' = Stat_on_timer(s)
                /\ Become(IF Divides0(s) THEN [w EXCEPT !.fault = "division"] ELSE w)
                /\ sending' = Waiting(w)
    BY Zenon DEF Tick
  <1>2. PICK silent \in SUBSET {i \in timers : cells[i].open}, to \in Targets(timers) :
          LET d == due[1] + late
              s == [next |-> stat.next - d, last |-> stat.last - d]
              w == on_timer(Later(World, d), timers, silent, to)
          IN  /\ due' = handle_tick([k \in Ticks |-> due[k] - d]) /\ stat' = Stat_on_timer(s)
              /\ Become(IF Divides0(s) THEN [w EXCEPT !.fault = "division"] ELSE w)
              /\ sending' = Waiting(w)
    BY <1>1
  <1> DEFINE d == due[1] + late
             s == [next |-> stat.next - d, last |-> stat.last - d]
             l == Later(World, d)
             w == on_timer(l, timers, silent, to)
  <1>3. /\ stat' = Stat_on_timer(s)
        /\ Become(IF Divides0(s) THEN [w EXCEPT !.fault = "division"] ELSE w)
        /\ sending' = Waiting(w)
    BY <1>2
  <1>4. d \in Int /\ d > 0
    <2>1. due[1] \in Int /\ due[1] > 0
      BY TickFacts DEF TimersInv
    <2>2. late \in Nat
      BY <1>1, BusAssumption
    <2> QED
      BY <2>1, <2>2
  <1> HIDE DEF d
  <1>5. ~sending /\ Good(World) /\ \A i \in Ids : Ready(World, i)
    BY DEF Tick, IInv
  <1>6. Good(l) /\ l.cells = World.cells
    BY <1>4, <1>5, LaterGood
  <1> HIDE DEF l
  <1>7. \A i \in Ids : Ready(l, i)
    BY <1>5, <1>6 DEF Ready
  <1>8. to \in Ids
    <2>1. to \in {0} \union Ids
      BY <1>2 DEF Targets
    <2>2. 0 \in Ids
      BY Numbers DEF Ids
    <2> QED
      BY <2>1, <2>2
  <1>9. Good(w)
    BY <1>6, <1>7, <1>8, TurnsGood
  <1> HIDE DEF w
  <1>10. s.next \in Int /\ s.last \in Int /\ s.last < 0
    BY <1>4 DEF IInv, StatInv
  <1> HIDE DEF s
  <1>11. ~Divides0(s)
    BY <1>10 DEF Divides0
  <1>12. Become(w) /\ sending' = Waiting(w)
    BY <1>3, <1>11
  <1>13. StatInv'
    <2>1. stat' = IF s.next <= 0 THEN [next |-> s.next + Second, last |-> 0] ELSE s
      BY <1>3 DEF Stat_on_timer
    <2>2. s \in [next : Int, last : Int]
      BY <1>4 DEF s, IInv, StatInv
    <2> QED
      BY <1>10, <2>1, <2>2, Numbers DEF StatInv
  <1> QED
    BY <1>9, <1>12, <1>13, Handled

\* Sending keeps the invariant.
LEMMA SendStep ==
  ASSUME IInv, Send
  PROVE  IInv'
  <1> DEFINE w == send_signal(World)
  <1>1. Become(w) /\ sending' = Waiting(w) /\ UNCHANGED stat
    BY DEF Send
  <1>2. Good(World) /\ World.signals # <<>>
    BY WorldFields DEF Send, IInv
  <1>3. Good(w)
    BY <1>2, SendGood
  <1> HIDE DEF w
  <1> QED
    BY <1>1, <1>3, StatStays, Handled DEF IInv

\* A tunnel that a peer opens keeps it.
LEMMA AcceptGood ==
  ASSUME IInv, fault = "none", Accept
  PROVE  IInv'
  <1> DEFINE c == [NoCell EXCEPT !.open = TRUE]
             a == add(World, c)
             w == IF a.w.fault = "none" THEN push(a.w, a.id, "other") ELSE a.w
  <1>1. Received(w)
    BY DEF Accept
  <1>2. c \in Tunnels /\ c.queue = <<>>
    BY TunnelFacts
  <1>3. Good(World) /\ World.fault = "none"
    BY WorldFields DEF IInv
  <1> HIDE DEF c
  <1>4. Added(a, World, c)
    BY <1>2, <1>3, AddGood
  <1> HIDE DEF a
  <1>5. Good(w)
    <2>1. CASE a.w.fault = "none"
      <3>1. Good(a.w) /\ a.id \in Active(a.w)
        BY <1>4, <2>1 DEF Added
      <3>2. Pushed(push(a.w, a.id, "other"), a.w, a.id, "other")
        BY <3>1, PushGood DEF Senders
      <3> QED
        BY <2>1, <3>2 DEF Pushed
    <2>2. CASE a.w.fault # "none"
      BY <1>4, <2>2 DEF Added
    <2> QED
      BY <2>1, <2>2
  <1> HIDE DEF w
  <1> QED
    BY <1>1, <1>5, ReceivedGood

\* A tunnel changes but for what waits in it.
Touched(v, w, i, S) ==
  /\ Good(v) /\ i \in Active(v) /\ Active(v) = Active(w) /\ v.fault = w.fault
  /\ v.cells[i].sessions = S /\ v.cells[i].queue = w.cells[i].queue
  /\ \A j \in Ids \ {i} : v.cells[j] = w.cells[j]

\* A tunnel whose sessions grow stays good.
LEMMA TouchGood ==
  ASSUME NEW w, Good(w), NEW i \in Active(w), NEW c, c = w.cells[i],
         NEW open \in BOOLEAN, NEW S \in SUBSET {"source", "finder", "sink"}, c.sessions \subseteq S
  PROVE  Touched([w EXCEPT !.cells[i] = [c EXCEPT !.open = open, !.sessions = S]], w, i, S)
  <1> DEFINE d == [c EXCEPT !.open = open, !.sessions = S]
             v == [w EXCEPT !.cells[i] = d]
  <1>1. w \in Worlds /\ i \in Ids
    BY DEF Good, Active
  <1>2. c \in Tunnels
    BY <1>1 DEF Worlds
  <1>3. d \in Tunnels /\ d.queue = c.queue /\ d.sessions = S
    BY <1>2 DEF Tunnels
  <1> HIDE DEF d
  <1>4. "sink" \in ToSet(d.queue) => "sink" \in d.sessions
    BY <1>1, <1>3 DEF Good, Lively
  <1>5. /\ Good(v) /\ Active(v) = Active(w) /\ v.fault = w.fault
        /\ v.cells[i] = d /\ \A j \in Ids \ {i} : v.cells[j] = w.cells[j]
    BY <1>3, <1>4, CellGood
  <1> HIDE DEF v
  <1>6. Touched(v, w, i, S)
    BY <1>3, <1>5 DEF Touched
  <1> QED
    BY <1>6 DEF v, d
\* The ways in which the handlers touch a tunnel.
Open(w, i)      == [w EXCEPT !.cells[i].open = TRUE]
Join(w, i, who) == [w EXCEPT !.cells[i].sessions = @ \union {who}]

\* A tunnel that is opened stays good.
LEMMA OpenGood ==
  ASSUME NEW w, Good(w), NEW i \in Active(w)
  PROVE  Good(Open(w, i)) /\ i \in Active(Open(w, i))
  <1> DEFINE c == w.cells[i]
             d == [c EXCEPT !.open = TRUE, !.sessions = c.sessions]
             v == [w EXCEPT !.cells[i] = d]
  <1>1. w \in Worlds /\ i \in Ids
    BY DEF Good, Active
  <1>2. c \in Tunnels
    BY <1>1 DEF Worlds
  <1>3. c.sessions \in SUBSET {"source", "finder", "sink"} /\ d = [c EXCEPT !.open = TRUE]
    BY <1>2 DEF Tunnels
  <1>4. Open(w, i) = v
    BY <1>3 DEF Open
  <1>5. Good(v) /\ i \in Active(v)
    <2> HIDE DEF c
    <2>1. c = w.cells[i] /\ c.sessions \subseteq c.sessions
      BY DEF c
    <2>2. Touched(v, w, i, c.sessions)
      BY <1>3, <2>1, TouchGood
    <2> QED
      BY <2>2 DEF Touched
  <1> QED
    BY <1>4, <1>5

\* A session that joins a tunnel leaves its Fifo and the other tunnels as they are.
LEMMA JoinGood ==
  ASSUME NEW w, Good(w), NEW i \in Active(w), NEW who \in {"source", "finder", "sink"}
  PROVE  LET v == Join(w, i, who)
         IN  /\ Good(v) /\ i \in Active(v)
             /\ who \in v.cells[i].sessions /\ v.cells[i].queue = w.cells[i].queue
             /\ \A j \in Ids \ {i} : v.cells[j] = w.cells[j]
  <1> DEFINE c == w.cells[i]
             S == c.sessions \union {who}
             o == c.open
             d == [c EXCEPT !.open = o, !.sessions = S]
             v == [w EXCEPT !.cells[i] = d]
  <1>1. w \in Worlds /\ i \in Ids
    BY DEF Good, Active
  <1>2. c \in Tunnels
    BY <1>1 DEF Worlds
  <1>3. /\ S \in SUBSET {"source", "finder", "sink"} /\ o \in BOOLEAN
        /\ d = [c EXCEPT !.sessions = @ \union {who}]
    BY <1>2 DEF Tunnels
  <1>4. Join(w, i, who) = v
    BY <1>3 DEF Join
  <1>5. c = w.cells[i] /\ c.sessions \subseteq S /\ who \in S
    OBVIOUS
  <1> HIDE DEF c, S, o
  <1>6. Touched(v, w, i, S)
    BY <1>3, <1>5, TouchGood
  <1> HIDE DEF v
  <1> QED
    BY <1>4, <1>5, <1>6 DEF Touched, c

\* The handlers of what a tunnel receives.
LEMMA TunnelSteps ==
  ASSUME IInv, NEW i \in Active(World) \ {0}, Connected(i) \/ Asked(i) \/ Bound(i) \/ Data(i) \/ Answer(i)
  PROVE  IInv'
  <1>1. Good(World) /\ World.cells[i] = cells[i] /\ i \in Active(World) /\ i \in Ids
    BY WorldFields DEF IInv, Active
  <1>2. "other" \in Senders /\ "sink" \in Senders /\ "other" # "sink"
    BY DEF Senders
  <1>3. CASE Connected(i)
    <2>1. Received(Open(World, i))
      BY <1>3 DEF Connected, Open
    <2> QED
      BY <1>1, <2>1, OpenGood, ReceivedGood
  <1>4. CASE Asked(i)
    <2> DEFINE w == Open(World, i)
               v == push(w, i, "other")
    <2>1. Received(v)
      BY <1>4 DEF Asked, Open
    <2>2. Good(w) /\ i \in Active(w)
      BY <1>1, OpenGood
    <2> HIDE DEF w
    <2>3. Good(v)
      BY <1>2, <2>2, PushGood DEF Pushed
    <2> HIDE DEF v
    <2> QED
      BY <2>1, <2>3, ReceivedGood
  <1>5. CASE Bound(i)
    <2> DEFINE w == Join(World, i, "sink")
               v == push(w, i, "sink")
    <2>1. Received(v)
      BY <1>5 DEF Bound, Join
    <2>2. Good(w) /\ i \in Active(w) /\ "sink" \in w.cells[i].sessions
      BY <1>1, JoinGood
    <2> HIDE DEF w
    <2>3. Good(v)
      BY <1>2, <2>2, PushGood DEF Pushed
    <2> HIDE DEF v
    <2> QED
      BY <2>1, <2>3, ReceivedGood
  <1>6. CASE Data(i)
    <2> DEFINE w == push(World, i, "sink")
               v == push(w, i, "sink")
    <2>1. Received(v)
      BY <1>6 DEF Data
    <2>2. Pushed(w, World, i, "sink")
      BY <1>1, <1>2, <1>6, PushGood DEF Data
    <2> HIDE DEF w
    <2>3. Good(w) /\ i \in Active(w) /\ "sink" \in w.cells[i].sessions
      BY <1>1, <1>6, <2>2 DEF Pushed, Data
    <2>4. Good(v)
      BY <1>2, <2>3, PushGood DEF Pushed
    <2> HIDE DEF v
    <2> QED
      BY <2>1, <2>4, ReceivedGood
  <1>7. CASE Answer(i)
    <2> DEFINE v == push(World, i, "other")
    <2>1. Received(v)
      BY <1>7 DEF Answer
    <2>2. Good(v)
      BY <1>1, <1>2, PushGood DEF Pushed
    <2> HIDE DEF v
    <2> QED
      BY <2>1, <2>2, ReceivedGood
  <1> QED
    BY <1>3, <1>4, <1>5, <1>6, <1>7

\* What a source or a finder pushes keeps its tunnel ready.
LEMMA OwnPushGood ==
  ASSUME NEW w, Good(w), NEW i \in Active(w), w.cells[i].sessions \intersect {"source", "finder"} # {},
         \A j \in Ids : Ready(w, j)
  PROVE  LET v == push(w, i, "other") IN Good(v) /\ \A j \in Ids : Ready(v, j)
  <1> DEFINE v == push(w, i, "other")
  <1>1. "other" \in Senders /\ "other" # "sink" /\ i \in Ids
    BY DEF Senders, Active
  <1>2. Pushed(v, w, i, "other")
    BY <1>1, PushGood
  <1> HIDE DEF v
  <1>3. /\ Good(v) /\ v.cells[i].sessions = w.cells[i].sessions
        /\ ToSet(v.cells[i].queue) \subseteq ToSet(w.cells[i].queue) \union {"other"}
        /\ \A j \in Ids \ {i} : v.cells[j] = w.cells[j]
    BY <1>2 DEF Pushed
  <1>4. "sink" \notin ToSet(w.cells[i].queue)
    <2>1. ToSet(<<>>) = {}
      BY DEF ToSet
    <2> QED
      BY <1>1, <2>1 DEF Ready
  <1>5. ASSUME NEW j \in Ids
        PROVE  Ready(v, j)
    <2>1. CASE j = i
      BY <1>1, <1>3, <1>4, <2>1 DEF Ready
    <2>2. CASE j # i
      BY <1>3, <2>2 DEF Ready
    <2> QED
      BY <2>1, <2>2
  <1> QED
    BY <1>3, <1>5 DEF v

\* A seek, whose requests are pushed outside the handlers of the socket.
LEMMA SeekGood ==
  ASSUME IInv, NEW i \in Active(World) \ {0}, Seek(i)
  PROVE  IInv'
  <1> DEFINE v == push(World, i, "other")
  <1>1. Good(World) /\ World.cells[i] = cells[i] /\ i \in Active(World) /\ \A j \in Ids : Ready(World, j)
    BY WorldFields DEF IInv, Seek, Outside
  <1>2. "source" \in World.cells[i].sessions /\ Outside(v)
    BY <1>1 DEF Seek
  <1>3. Good(v) /\ \A j \in Ids : Ready(v, j)
    BY <1>1, <1>2, OwnPushGood
  <1> HIDE DEF v
  <1> QED
    BY <1>2, <1>3, OutsideGood

\* A source or the finder that makes a tunnel of its own, or joins one.
LEMMA AttachStep ==
  ASSUME IInv, fault = "none", NEW who \in {"source", "finder"}, Attach(who)
  PROVE  IInv'
  <1>1. Good(World) /\ World.cells = cells /\ World.fault = "none"
    BY WorldFields DEF IInv
  <1>2. \A j \in Ids : Ready(World, j)
    BY DEF Attach, Outside, IInv
  <1>3. ASSUME NEW i \in Active(World) \ {0},
               LET w == [World EXCEPT !.cells[i].sessions = @ \union {who}]
               IN  Outside(IF cells[i].open THEN push(w, i, "other") ELSE w)
        PROVE  IInv'
    <2> DEFINE w == Join(World, i, who)
               v == push(w, i, "other")
    <2>1. Outside(IF cells[i].open THEN v ELSE w)
      BY <1>3 DEF Join
    <2>2. /\ Good(w) /\ i \in Active(w)
          /\ who \in w.cells[i].sessions /\ w.cells[i].queue = World.cells[i].queue
          /\ \A j \in Ids \ {i} : w.cells[j] = World.cells[j]
      BY <1>1, JoinGood
    <2> HIDE DEF w
    <2>3. ASSUME NEW j \in Ids
          PROVE  Ready(w, j)
      <3>1. CASE j = i
        BY <1>2, <2>2, <3>1 DEF Ready
      <3>2. CASE j # i
        BY <1>2, <2>2, <3>2 DEF Ready
      <3> QED
        BY <3>1, <3>2
    <2>4. w.cells[i].sessions \intersect {"source", "finder"} # {}
      BY <2>2
    <2>5. Good(v) /\ \A j \in Ids : Ready(v, j)
      BY <2>2, <2>3, <2>4, OwnPushGood
    <2> HIDE DEF v
    <2> QED
      BY <2>1, <2>2, <2>3, <2>5, OutsideGood
  <1>4. ASSUME Outside(add(World, Tunnel({who})).w)
        PROVE  IInv'
    <2> DEFINE c == Tunnel({who})
               a == add(World, c)
    <2>1. c \in Tunnels /\ c.queue = <<>>
      BY TunnelFacts
    <2> HIDE DEF c
    <2>2. Added(a, World, c)
      BY <1>1, <2>1, AddGood
    <2>3. Outside(a.w)
      BY <1>4 DEF c
    <2> HIDE DEF a
    <2>4. ASSUME NEW j \in Ids
          PROVE  Ready(a.w, j)
      BY <1>2, <2>1, <2>2 DEF Ready, Added
    <2> QED
      BY <2>2, <2>3, <2>4, OutsideGood DEF Added
  <1> QED
    BY <1>3, <1>4 DEF Attach

\* Every step keeps the invariant.
LEMMA NextGood ==
  ASSUME IInv, TimersInv, [Next]_vars
  PROVE  IInv'
  <1>1. CASE UNCHANGED vars
    <2>1. World' = World /\ UNCHANGED <<sending, signals, stat>>
      BY <1>1 DEF vars, World
    <2> QED
      BY <2>1 DEF IInv, StatInv
  <1>2. CASE Next
    <2>1. fault = "none"
      BY <1>2 DEF Next
    <2>2. CASE Tick
      BY <2>1, <2>2, TickGood
    <2>3. CASE Accept
      BY <2>1, <2>3, AcceptGood
    <2>4. CASE Send
      BY <2>4, SendStep
    <2>5. CASE Attach("source") \/ Attach("finder")
      BY <2>1, <2>5, AttachStep
    <2>6. CASE \E i \in Active(World) \ {0} : Connected(i) \/ Asked(i) \/ Bound(i) \/ Data(i) \/ Answer(i) \/ Seek(i)
      BY <2>6, TunnelSteps, SeekGood
    <2> QED
      BY <1>2, <2>2, <2>3, <2>4, <2>5, <2>6 DEF Next
  <1> QED
    BY <1>1, <1>2
-----------------------------------------------------------------------------
(* What follows. *)

\* The expiries of the line are those that the slots add up to.
LEMMA ExpiryAddsUp ==
  ASSUME NEW e, Line(World, e), World \in Worlds
  PROVE  \A k \in DOMAIN tmwait : Expiry[k] = e[k]
  <1> DEFINE Step(f, k) == IF k = 1 THEN base ELSE f[k - 1] + Second * slots[tmwait[k - 1]].timeo
             Eq(f) == f = [k \in DOMAIN tmwait |-> Step(f, k)]
             x == Expiry
  <1>1. tmwait \in Seq(Ids) /\ World.tmwait = tmwait /\ World.base = base /\ World.slots = slots
    BY WorldFields DEF Worlds
  <1>2. /\ DOMAIN tmwait = 1 .. Len(tmwait) /\ Len(tmwait) \in Nat
        /\ 1 \in DOMAIN tmwait => tmwait # <<>>
        /\ \A k \in DOMAIN tmwait \ {1} : k - 1 \in DOMAIN tmwait
    BY <1>1
  <1>3. /\ e \in [DOMAIN tmwait -> Int] /\ (tmwait # <<>> => e[1] = base)
        /\ \A k \in DOMAIN tmwait \ {1} : e[k] = e[k - 1] + Second * slots[tmwait[k - 1]].timeo
    BY <1>1 DEF Line
  <1>4. Eq(e)
    <2>1. \A k \in DOMAIN tmwait : e[k] = Step(e, k)
      BY <1>2, <1>3
    <2>2. e = [k \in DOMAIN tmwait |-> e[k]]
      BY <1>3
    <2> HIDE DEF Step
    <2> QED
      BY <2>1, <2>2
  <1>5. x = CHOOSE f : Eq(f)
    BY Zenon DEF Expiry
  <1>6. Eq(x)
    <2> HIDE DEF Eq, x
    <2> QED
      BY <1>4, <1>5, Zenon
  <1> HIDE DEF x
  <1>7. \A k \in DOMAIN tmwait : x[k] = Step(x, k)
    <2> HIDE DEF Step
    <2> QED
      BY <1>6, Zenon
  <1> DEFINE T == {n \in Nat : n \in DOMAIN tmwait => x[n] = e[n]}
  <1>8. 0 \in T
    BY <1>2
  <1>9. ASSUME NEW m \in Nat, m \in T PROVE m + 1 \in T
    <2> SUFFICES ASSUME m + 1 \in DOMAIN tmwait PROVE x[m + 1] = e[m + 1]
      OBVIOUS
    <2>1. CASE m = 0
      <3>1. 1 \in DOMAIN tmwait /\ m + 1 = 1
        BY <2>1
      <3>2. x[1] = base
        BY <1>7, <3>1
      <3> QED
        BY <1>2, <1>3, <3>1, <3>2
    <2>2. CASE m # 0
      <3>1. m + 1 \in DOMAIN tmwait \ {1} /\ (m + 1) - 1 = m /\ m \in DOMAIN tmwait
        BY <1>2, <2>2
      <3>2. x[m] = e[m]
        BY <1>9, <3>1
      <3>3. x[m + 1] = x[m] + Second * slots[tmwait[m]].timeo
        BY <1>7, <3>1
      <3>4. e[m + 1] = e[m] + Second * slots[tmwait[m]].timeo
        BY <1>3, <3>1
      <3> QED
        BY <3>2, <3>3, <3>4
    <2> QED
      BY <2>1, <2>2
  <1> HIDE DEF T
  <1>10. Nat \subseteq T
    BY <1>8, <1>9, Induct
  <1> QED
    BY <1>2, <1>10 DEF T, x

\* The invariant of the runs follows.
LEMMA Implied == ASSUME IInv PROVE SlotsInv
  <1>1. World \in Worlds /\ InUse(World) /\ Lively(World) /\ Resting(World) /\ Close(World) /\ Flagged(World)
    BY DEF IInv, Good, InUse
  <1>2. /\ slots \in [Ids -> Slots] /\ cells \in [Ids -> Tunnels] /\ next \in Ids /\ tmwait \in Seq(Ids)
        /\ age \in [Ids -> Int] /\ signals \in Seq(Ids) /\ base \in Int
    BY <1>1, WorldFields DEF Worlds
  <1>3. \A i \in Ids : LET s == slots[i]
                       IN  /\ s.flags \subseteq {"used", "active", "signal"}
                           /\ "signal" \in s.flags => "active" \in s.flags
                           /\ "active" \in s.flags => "used" \in s.flags
                           /\ "used" \notin s.flags => s.flags = {}
                           /\ "active" \notin s.flags => cells[i] = NoCell
    <2>1. \A i \in Ids : slots[i].flags \subseteq {"used", "active", "signal"}
      BY <1>2 DEF Slots
    <2>2. Slot.flags = {}
      BY DEF Slot
    <2> QED
      BY <1>1, <2>1, <2>2, WorldFields DEF Flagged
  <1>4. TypeOK
    <2>1. ASSUME NEW i \in Ids
          PROVE  slots[i].flags \in {{}, {"used"}, {"used", "active"}, {"used", "active", "signal"}}
      <3> DEFINE s == slots[i].flags
      <3>1. /\ s \subseteq {"used", "active", "signal"}
            /\ ("signal" \in s => "active" \in s) /\ ("active" \in s => "used" \in s)
        BY <1>3
      <3> HIDE DEF s
      <3>2. s = {} \/ s = {"used"} \/ s = {"used", "active"} \/ s = {"used", "active", "signal"}
        <4>1. CASE "used" \notin s
          BY <3>1, <4>1
        <4>2. CASE "used" \in s /\ "active" \notin s
          BY <3>1, <4>2
        <4>3. CASE "active" \in s /\ "signal" \notin s
          BY <3>1, <4>3
        <4>4. CASE "signal" \in s
          BY <3>1, <4>4
        <4> QED
          BY <4>1, <4>2, <4>3, <4>4
      <3> QED
        BY <3>2 DEF s
    <2>2. \A i \in Ids : Len(cells[i].queue) <= FifoLimit
      BY <1>1, WorldFields DEF Lively
    <2>3. Cardinality(Used(World)) <= Limit
      BY <1>1 DEF InUse
    <2>4. sending => signals # <<>>
      BY DEF IInv
    <2> QED
      BY <1>2, <1>3, <2>1, <2>2, <2>3, <2>4 DEF TypeOK
  <1>5. FaultsHaveCauses
    BY <1>1, WorldFields DEF InUse, FaultsHaveCauses
  <1>6. SignalsAreLive
    <2>1. IsInjective(signals)
      BY <1>1, WorldFields DEF Lively
    <2>2. \A i \in Ids : /\ ("signal" \in slots[i].flags) <=> i \in ToSet(signals)
                         /\ ("signal" \in slots[i].flags) <=> cells[i].queue # <<>>
                         /\ "sink" \in ToSet(cells[i].queue) => "sink" \in cells[i].sessions
      BY <1>1, WorldFields DEF Lively
    <2>3. ToSet(signals) \subseteq Ids
      BY <1>2 DEF ToSet
    <2>4. ToSet(signals) = {i \in Ids : cells[i].queue # <<>>}
      BY <2>2, <2>3
    <2> QED
      BY <2>1, <2>2, <2>4 DEF SignalsAreLive
  <1>7. Rests
    <2>1. IsInjective(tmwait)
      BY <1>1, WorldFields DEF Resting
    <2>2. \A i \in Ids : i \in ToSet(tmwait) <=> "used" \in slots[i].flags /\ "active" \notin slots[i].flags
      BY <1>1, WorldFields DEF Resting
    <2>3. ToSet(tmwait) \subseteq Ids
      BY <1>2 DEF ToSet
    <2>4. ASSUME NEW i \in Ids
          PROVE  slots[i].flags = {"used"} <=> "used" \in slots[i].flags /\ "active" \notin slots[i].flags
      <3> DEFINE s == slots[i].flags
      <3>1. s \subseteq {"used", "active", "signal"} /\ ("signal" \in s => "active" \in s)
        BY <1>3
      <3> HIDE DEF s
      <3>2. s = {"used"} <=> "used" \in s /\ "active" \notin s
        BY <3>1
      <3> QED
        BY <3>2 DEF s
    <2> QED
      BY <2>1, <2>2, <2>3, <2>4 DEF Rests
  <1>8. ExpiryIsClose
    <2>1. PICK e : Line(World, e)
      BY <1>1 DEF Close
    <2>2. \A k \in DOMAIN tmwait : Expiry[k] = e[k]
      BY <1>1, <2>1, ExpiryAddsUp
    <2>3. ASSUME NEW k \in DOMAIN tmwait
          PROVE  TimeWait - age[tmwait[k]] - Expiry[k] \in 0 .. Second - 1
      <3>1. /\ TimeWait - age[tmwait[k]] - e[k] >= 0 /\ TimeWait - age[tmwait[k]] - e[k] < Second
            /\ e[k] \in Int
        BY <2>1, WorldFields DEF Line
      <3>2. tmwait[k] \in Ids
        BY <1>2
      <3>3. age[tmwait[k]] \in Int
        BY <1>2, <3>2
      <3> DEFINE a == age[tmwait[k]]
                 x == e[k]
      <3>4. a \in Int /\ x \in Int /\ TimeWait - a - x >= 0 /\ TimeWait - a - x < Second
        BY <3>1, <3>3
      <3> HIDE DEF a, x
      <3>5. TimeWait - a - x \in 0 .. Second - 1
        BY <3>4, Numbers
      <3> QED
        BY <2>2, <3>5 DEF a, x
    <2> QED
      BY <2>3 DEF ExpiryIsClose
  <1> QED
    BY <1>4, <1>5, <1>6, <1>7, <1>8 DEF SlotsInv

\* For any number of slots, the slots are in order: a slot is in use, in the line of those
\* that send, or at rest, as its flags say; a tunnel goes only when nothing is left to send
\* (Bus.cpp:211), the expiry of a slot that rests is less than a second early, and no
\* assertion fails but that of a full table.
THEOREM SlotsAreInOrder == Spec => []SlotsInv
  <1>1. Init => IInv /\ TimersInv
    BY InitGood, InitTimers
  <1>2. IInv /\ TimersInv /\ [Next]_vars => (IInv /\ TimersInv)'
    BY NextGood, NextTimers
  <1>3. IInv => SlotsInv
    BY Implied
  <1> QED
    BY <1>1, <1>2, <1>3, PTL DEF Spec
=============================================================================
