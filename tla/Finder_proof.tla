---------------------------- MODULE Finder_proof ----------------------------
(* Proofs about Finder, for all resources, lists of urls, trackers and hosts. *)
EXTENDS Finder, FiniteSetTheorems, TLAPS

-----------------------------------------------------------------------------
(* The record w that the handlers pass: the types of its fields. *)

Kinds    == {"connected", "logged", "found", "full", "more"}
Message  == [type : Kinds, t : Tracks, rid : Rids \union {0}, list : SUBSET (Rids \union STRING \union {Self})]
Question == [type : {"login", "find", "full", "more"}, t : Tracks, rid : Rids \union {0}, list : SUBSET Rids]
Listing  == [type : {"full", "more"}, t : 0 .. Trackers, rid : {0}, list : SUBSET Rids]
Answer   == [rid : Rids, sources : UNION {[D -> Sources] : D \in SUBSET Nat}]
Loader   == [on : BOOLEAN, sources : SUBSET Sources, again : SUBSET Sources]
Fins     == [n : 0 .. Trackers, start : 0 .. Trackers, index : 0 .. Trackers, open : BOOLEAN,
             pending : Seq(Listing), logged : BOOLEAN, told : SUBSET Rids, tried : SUBSET Nat]
Host     == [up : BOOLEAN, tunnel : BOOLEAN, rids : SUBSET (Rids \union STRING \union {Self})]
Notes    == {"late", "same url", "lost", "moved", "overtaken", "shuffled"}
Worlds ==
  [boot : {"asked", "ready", "failed"}, res : [ids : SUBSET Rids, urls : [Rids -> Seq(STRING)]],
   dl : [Rids -> Loader], req : [{"http", "p2p"} -> SUBSET Rids], posted : Seq(Answer),
   known : SUBSET Sources, fin : Fins, trk : [Tracks -> Host], net : SUBSET Message,
   before : SUBSET Notes]

-----------------------------------------------------------------------------
(* The invariant, of the record. *)

\* An answer of a tracker names finitely many hosts.
HostsCome(w) == \A m \in w.net : m.type = "found" => m.list \subseteq STRING \union {Self} /\ IsFiniteSet(m.list)

\* The answer of CdnFinder for r is on its way: its request waits for it, and no other.
OnItsWay(w, a) ==
  /\ a.rid \in w.req["http"]
  /\ \A i \in DOMAIN a.sources : a.sources[i] \in w.known /\ a.sources[i].proto = "http"
  /\ \A x \in w.dl[a.rid].sources : x.proto = "p2p"
  /\ IsInjective(a.sources) \/ "same url" \in w.before

\* Where the sources are.
Whereabouts(w) ==
  /\ \A r \in Rids : /\ w.dl[r].on => r \in w.res.ids
                     /\ ~w.dl[r].on => w.dl[r].sources = {}
                     /\ w.dl[r].sources \subseteq w.known
                     /\ w.dl[r].again = {} \/ "same url" \in w.before
  /\ \A r \in w.req["http"] \union w.req["p2p"] : w.dl[r].on
  /\ \A i \in DOMAIN w.posted : OnItsWay(w, w.posted[i])
  /\ \A i, j \in DOMAIN w.posted : w.posted[i].rid = w.posted[j].rid => i = j
  /\ \A s \in w.known :
       /\ s.proto = "http" => \/ s \in Attached(w)
                              \/ \E i \in DOMAIN w.posted : s \in Range(w.posted[i].sources)
       /\ s.proto = "p2p" => s \in Attached(w) \/ "late" \in w.before

\* The tracker before the first one.
Prev(f) == IF f.start = 1 THEN f.n ELSE f.start - 1

\* The finder has tried the trackers from t on, and has not come to the first one again.
Along(f, t) ==
  IF f.index = None THEN f.tried = Circle(f.n, t, Prev(f))
  ELSE f.tried = Circle(f.n, t, f.index) /\ (t = f.start \/ f.start \notin f.tried)

\* Where the finder is on its way round the trackers.
OnTheCircle(w) ==
  LET f == w.fin
  IN  /\ (f.n = 0) <=> (w.boot # "ready")
      /\ f.open => f.index # None
      /\ f.n = 0 => f.index = None
      /\ f.n > 0 => f.start \in 1 .. f.n /\ f.index \in 0 .. f.n
      /\ f.open => f.index = f.start \/ "moved" \in w.before
      /\ f.n > 0 => \E t \in 1 .. f.n : Along(f, t) /\ (t = f.start \/ "moved" \in w.before)

Good(w) == w \in Worlds /\ HostsCome(w) /\ Whereabouts(w) /\ OnTheCircle(w)

-----------------------------------------------------------------------------
(* The parts of the record that the invariant looks at. *)

\* The assumptions on the constants, one by one.
LEMMA Constants ==
  /\ Rids \subseteq Nat /\ IsFiniteSet(Rids) /\ Wanted \subseteq Rids /\ Trackers \in Nat \ {0}
  /\ \A t \in Tracks : PeersOf[t] \subseteq STRING /\ IsFiniteSet(PeersOf[t])
  /\ Tracks \subseteq Nat /\ 0 \notin Tracks /\ Tracks \subseteq 0 .. Trackers /\ None = 0
  /\ \A us \in Lists : us \in Seq(STRING) /\ us # <<>>
  /\ Chunk \in Nat \ {0}
  <1>1. /\ Rids \subseteq Nat /\ IsFiniteSet(Rids) /\ Wanted \subseteq Rids /\ Trackers \in Nat \ {0}
        /\ \A t \in Tracks : PeersOf[t] \subseteq STRING /\ IsFiniteSet(PeersOf[t])
        /\ \A us \in Lists : us \in Seq(STRING) /\ us # <<>>
        /\ Chunk \in Nat \ {0}
    BY FinderAssumption, Zenon
  <1>2. Tracks \subseteq Nat /\ 0 \notin Tracks /\ Tracks \subseteq 0 .. Trackers /\ None = 0
    BY <1>1 DEF Tracks, None
  <1> QED
    BY <1>1, <1>2

\* The sources and their requests are the same, and what happened is not forgotten.
SourcesAlike(v, w) ==
  /\ v.dl = w.dl /\ v.req = w.req /\ v.posted = w.posted /\ v.known = w.known
  /\ v.res.ids = w.res.ids /\ w.before \subseteq v.before

\* The finder is with the same tracker.
FinderAlike(v, w) ==
  /\ v.boot = w.boot /\ v.fin.n = w.fin.n /\ v.fin.start = w.fin.start /\ v.fin.index = w.fin.index
  /\ v.fin.open = w.fin.open /\ v.fin.tried = w.fin.tried /\ w.before \subseteq v.before

\* Where the sources are does not depend on the finder.
LEMMA StillWhereabouts ==
  ASSUME NEW v, NEW w, SourcesAlike(v, w), Whereabouts(w)
  PROVE  Whereabouts(v)
  <1>1. Attached(v) = Attached(w)
    BY DEF SourcesAlike, Attached
  <1>2. \A a : OnItsWay(w, a) => OnItsWay(v, a)
    BY DEF SourcesAlike, OnItsWay
  <1> QED
    BY <1>1, <1>2, Zenon DEF SourcesAlike, Whereabouts

\* Where the finder is does not depend on the sources.
LEMMA StillOnTheCircle ==
  ASSUME NEW v, NEW w, FinderAlike(v, w), OnTheCircle(w)
  PROVE  OnTheCircle(v)
  BY DEF FinderAlike, OnTheCircle, Along, Prev

\* A set of sources as a list.
LEMMA Listed ==
  ASSUME NEW S, IsFiniteSet(S)
  PROVE  /\ SetToSeq(S) \in [1 .. Cardinality(S) -> S]
         /\ IsInjective(SetToSeq(S)) /\ Range(SetToSeq(S)) = S
         /\ DOMAIN SetToSeq(S) \subseteq Nat
  <1> DEFINE n == Cardinality(S)
             IsList(f) == f \in [1 .. n -> S] /\ IsInjective(f)
  <1>1. n \in Nat /\ \E f : f \in Bijection(1 .. n, S)
    BY FS_CardinalityType DEF ExistsBijection
  <1>2. \E f : IsList(f)
    BY <1>1 DEF Bijection, Injection, IsInjective
  <1>3. SetToSeq(S) = CHOOSE f \in [1 .. n -> S] : IsInjective(f)
    BY DEF SetToSeq
  <1> DEFINE f == SetToSeq(S)
  <1>4. IsList(f)
    BY <1>2, <1>3
  <1> HIDE DEF f
  <1>5. f \in Injection(1 .. n, S) /\ Cardinality(1 .. n) = Cardinality(S)
    BY <1>1, <1>4, FS_Interval DEF Injection
  <1>6. f \in Surjection(1 .. n, S)
    BY <1>5, FS_Injection
  <1>7. Range(f) = S
    BY <1>4, <1>6 DEF Surjection, Range
  <1> QED
    BY <1>1, <1>4, <1>7 DEF f

-----------------------------------------------------------------------------
(* What is sent. *)

\* Messages that do not ask come back as they are; the answer to Find names finitely
\* many hosts.
LEMMA AnswerFacts ==
  ASSUME NEW w \in Worlds, NEW m \in Question
  PROVE  \A a \in Answers(w, m) :
           a \in Message /\ (a.type = "found" => a.list \subseteq STRING \union {Self} /\ IsFiniteSet(a.list))
  <1> USE Constants
  <1>1. CASE m.type = "login"
    <2>1. m.t \in Tracks
      BY DEF Question
    <2>2. Answers(w, m) = {Msg("connected", m.t, 0, {}), Msg("logged", m.t, 0, {})}
      BY <1>1 DEF Answers
    <2>3. \A k \in {"connected", "logged"} :
            Msg(k, m.t, 0, {}) \in Message /\ Msg(k, m.t, 0, {}).type = k /\ k # "found"
      BY <2>1 DEF Msg, Message, Kinds
    <2>4. \A a \in Answers(w, m) : a \in Message /\ a.type # "found"
      BY <2>2, <2>3, Zenon
    <2> QED
      BY <2>4, Zenon
  <1>2. CASE m.type = "find"
    <2> DEFINE l == PeersOf[m.t] \union IF m.rid \in w.trk[m.t].rids THEN {Self} ELSE {}
    <2>1. m.t \in Tracks /\ m.rid \in Rids \union {0}
      BY DEF Question
    <2>2. l \subseteq STRING \union {Self}
      BY <2>1
    <2>3. IsFiniteSet(l)
      <3>1. IsFiniteSet(PeersOf[m.t]) /\ IsFiniteSet({}) /\ IsFiniteSet({Self})
        BY <2>1, FS_EmptySet, FS_Singleton
      <3>2. IsFiniteSet(PeersOf[m.t] \union {}) /\ IsFiniteSet(PeersOf[m.t] \union {Self})
        BY <3>1, FS_Union
      <3> QED
        BY <3>2
    <2>4. Answers(w, m) = {Msg("found", m.t, m.rid, l)}
      BY <1>2 DEF Answers
    <2> HIDE DEF l
    <2>5. m.t \in 0 .. Trackers
      BY <2>1
    <2>6. l \in SUBSET (Rids \union STRING \union {Self})
      BY <2>2, Zenon
    <2>7. "found" \in Kinds
      BY DEF Kinds
    <2>8. Msg("found", m.t, m.rid, l) \in Message /\ Msg("found", m.t, m.rid, l).list = l
      BY <2>1, <2>5, <2>6, <2>7 DEF Msg, Message
    <2> QED
      BY <2>2, <2>3, <2>4, <2>8
  <1>3. CASE m.type \in {"full", "more"}
    BY <1>3 DEF Answers, Question, Message, Kinds
  <1> QED
    BY <1>1, <1>2, <1>3 DEF Question

\* Sending questions changes the messages on their way alone.
LEMMA SendFacts ==
  ASSUME NEW w, Good(w), NEW ms \in SUBSET Question
  PROVE  /\ Good(Send(w, ms))
         /\ Send(w, ms).fin = w.fin /\ Send(w, ms).dl = w.dl
  <1> DEFINE there == {m \in ms : w.trk[m.t].up}
             new   == UNION {Answers(w, m) : m \in there}
             trks  == [t \in Tracks |-> IF Login(t) \in there THEN [w.trk[t] EXCEPT !.tunnel = TRUE] ELSE w.trk[t]]
             v     == [w EXCEPT !.net = @ \union new, !.trk = trks]
  <1>1. w \in Worlds
    BY DEF Good
  <1>2. \A a \in new : a \in Message /\ (a.type = "found" => a.list \subseteq STRING \union {Self} /\ IsFiniteSet(a.list))
    BY <1>1, AnswerFacts
  <1>3. trks \in [Tracks -> Host]
    <2>1. w.trk \in [Tracks -> Host]
      BY <1>1 DEF Worlds
    <2>2. \A h \in Host : [h EXCEPT !.tunnel = TRUE] \in Host
      BY DEF Host
    <2> QED
      BY <2>1, <2>2
  <1>4. Send(w, ms) = v
    BY DEF Send
  <1> HIDE DEF new, trks
  <1>5. v \in Worlds
    BY <1>1, <1>2, <1>3 DEF Worlds
  <1>6. /\ v.net = w.net \union new /\ v.fin = w.fin /\ v.boot = w.boot
        /\ SourcesAlike(v, w)
    BY <1>1 DEF Worlds, SourcesAlike
  <1> HIDE DEF v
  <1>7. HostsCome(v)
    BY <1>2, <1>6 DEF Good, HostsCome
  <1>8. Whereabouts(v)
    BY <1>6, StillWhereabouts DEF Good
  <1>9. FinderAlike(v, w)
    BY <1>6 DEF FinderAlike, SourcesAlike
  <1>10. OnTheCircle(v)
    BY <1>9, StillOnTheCircle DEF Good
  <1>11. v.dl = w.dl
    BY <1>6 DEF SourcesAlike
  <1> QED
    BY <1>4, <1>5, <1>6, <1>7, <1>8, <1>10, <1>11 DEF Good

-----------------------------------------------------------------------------
(* Questions. *)

\* A question to the trackers.
LEMMA PrepareGood ==
  ASSUME NEW w, Good(w), NEW r \in Rids, w.dl[r].on
  PROVE  Good(prepare_taskwindow(w, r))
  <1> DEFINE v  == [w EXCEPT !.req["p2p"] = @ \union {r}]
             ms == {Msg("find", t, r, {}) : t \in 1 .. v.fin.n}
  <1>1. w \in Worlds
    BY DEF Good
  <1>2. /\ v \in Worlds /\ v.net = w.net /\ v.fin = w.fin /\ v.boot = w.boot /\ v.dl = w.dl
        /\ v.posted = w.posted /\ v.known = w.known /\ v.res = w.res /\ v.before = w.before
        /\ v.req["http"] = w.req["http"] /\ v.req["p2p"] = w.req["p2p"] \union {r}
    BY <1>1 DEF Worlds
  <1> HIDE DEF v
  <1>3. HostsCome(v)
    BY <1>2 DEF Good, HostsCome
  <1>4. FinderAlike(v, w)
    BY <1>2 DEF FinderAlike
  <1>5. OnTheCircle(v)
    BY <1>4, StillOnTheCircle DEF Good
  <1>6. Whereabouts(v)
    <2>1. Attached(v) = Attached(w)
      BY <1>2 DEF Attached
    <2>2. \A a : OnItsWay(w, a) => OnItsWay(v, a)
      BY <1>2 DEF OnItsWay
    <2>3. \A x \in v.req["http"] \union v.req["p2p"] : v.dl[x].on
      BY <1>2 DEF Good, Whereabouts
    <2> QED
      BY <1>2, <2>1, <2>2, <2>3, Zenon DEF Good, Whereabouts
  <1>7. Good(v)
    BY <1>2, <1>3, <1>5, <1>6 DEF Good
  <1>8. ms \in SUBSET Question
    <2>1. v.fin.n \in 0 .. Trackers
      BY <1>2 DEF Worlds, Fins
    <2>2. \A t \in 1 .. v.fin.n : t \in Tracks
      BY <2>1, Constants DEF Tracks
    <2>3. \A t \in Tracks : Msg("find", t, r, {}) \in Question
      BY DEF Msg, Question
    <2> QED
      BY <2>2, <2>3
  <1> HIDE DEF ms
  <1>9. Good(Send(v, ms))
    BY <1>7, <1>8, SendFacts
  <1>10. find(w, "p2p", r) = Send(v, ms)
    BY DEF find, send_find, v, ms
  <1> QED
    BY <1>9, <1>10 DEF prepare_taskwindow

\* The places and the sources of a list of urls.
LEMMA HttpsFacts ==
  ASSUME NEW r \in Rids, NEW us \in Seq(STRING)
  PROVE  /\ Https(r, us) \in UNION {[D -> Sources] : D \in SUBSET Nat}
         /\ \A i \in DOMAIN Https(r, us) : Https(r, us)[i] \in Sources /\ Https(r, us)[i].proto = "http"
         /\ Range(Https(r, us)) \subseteq Sources
         /\ \A s \in Range(Https(r, us)) : s.proto = "http" /\ s.rid = r
  <1> DEFINE D == {j \in DOMAIN us : IsHttp(us[j])}
             f == Https(r, us)
  <1>1. D \subseteq Nat /\ \A i \in D : us[i] \in STRING
    OBVIOUS
  <1>2. f = [i \in D |-> Source("http", r, us[i])]
    BY DEF Https
  <1>3. \A u \in STRING : /\ Source("http", r, u) \in Sources /\ Source("http", r, u).proto = "http"
                          /\ Source("http", r, u).rid = r
    BY DEF Source, Sources
  <1> HIDE DEF D, f
  <1>4. f \in [D -> Sources] /\ \A i \in D : f[i].proto = "http" /\ f[i].rid = r
    BY <1>1, <1>2, <1>3
  <1>5. \A s \in Range(f) : \E i \in D : s = f[i]
    BY <1>4 DEF Range
  <1>6. f \in UNION {[E -> Sources] : E \in SUBSET Nat}
    BY <1>1, <1>4
  <1> QED
    BY <1>4, <1>5, <1>6 DEF f

\* A downloader is made: its request to CdnFinder is answered by what is posted.
LEMMA NewDownloader ==
  ASSUME NEW w, Good(w), NEW r \in Rids, ~w.dl[r].on, NEW us \in Lists
  PROVE  LET w0 == [ResourceManager_get(w, r) EXCEPT !.res.urls[r] = us]
             v  == DownloadManager_get(w0, r)
         IN  Good(v) /\ v.dl[r].on
  <1> DEFINE w0 == [ResourceManager_get(w, r) EXCEPT !.res.urls[r] = us]
             v  == DownloadManager_get(w0, r)
             s  == Https(r, us)
             a  == [rid |-> r, sources |-> s]
             more == IF IsInjective(s) THEN w.before ELSE w.before \union {"same url"}
  <1>1. w \in Worlds /\ us \in Seq(STRING) /\ us # <<>>
    BY Constants DEF Good
  <1>2. /\ w.res.urls \in [Rids -> Seq(STRING)] /\ w.res.ids \subseteq Rids /\ w.dl \in [Rids -> Loader]
        /\ w.req \in [{"http", "p2p"} -> SUBSET Rids] /\ w.known \subseteq Sources
        /\ w.posted \in Seq(Answer) /\ w.before \subseteq Notes
    BY <1>1 DEF Worlds
  <1>3. /\ v.boot = w.boot /\ v.net = w.net /\ v.fin = w.fin /\ v.trk = w.trk
        /\ v.res.ids = w.res.ids \union {r} /\ v.res.urls = [w.res.urls EXCEPT ![r] = <<>>]
        /\ v.dl = [w.dl EXCEPT ![r].on = TRUE]
        /\ v.req = [w.req EXCEPT !["http"] = @ \union {r}]
        /\ v.posted = Append(w.posted, a)
        /\ v.known = w.known \union Range(s)
        /\ v.before = more
        /\ v \in Worlds
    <2> DEFINE w1 == [w0 EXCEPT !.req["http"] = @ \union {r}]
               w2 == [w1 EXCEPT !.before = more]
               w3 == [w2 EXCEPT !.res.urls[r] = <<>>]
               w4 == [w3 EXCEPT !.known = @ \union Range(s)]
               w5 == [w4 EXCEPT !.posted = Append(@, a)]
    <2>1. /\ [w.res.urls EXCEPT ![r] = us] \in [Rids -> Seq(STRING)]
          /\ <<>> \in Seq(STRING) /\ w.res.ids \union {r} \in SUBSET Rids
          /\ \A us2 \in [Rids -> Seq(STRING)] : [us2 EXCEPT ![r] = <<>>] \in [Rids -> Seq(STRING)]
      BY <1>1, <1>2
    <2> DEFINE x0 == ResourceManager_get(w, r)
    <2>0. x0 \in Worlds /\ x0.res.urls = w.res.urls /\ x0.res.ids = w.res.ids \union {r}
          /\ x0.boot = w.boot /\ x0.net = w.net /\ x0.fin = w.fin /\ x0.trk = w.trk /\ x0.dl = w.dl
          /\ x0.req = w.req /\ x0.posted = w.posted /\ x0.known = w.known /\ x0.before = w.before
      BY <1>1, <2>1 DEF Worlds, ResourceManager_get
    <2> HIDE DEF x0
    <2>2. w0 \in Worlds /\ w0.res.urls = [w.res.urls EXCEPT ![r] = us] /\ w0.res.ids = w.res.ids \union {r}
          /\ w0.boot = w.boot /\ w0.net = w.net /\ w0.fin = w.fin /\ w0.trk = w.trk /\ w0.dl = w.dl
          /\ w0.req = w.req /\ w0.posted = w.posted /\ w0.known = w.known /\ w0.before = w.before
      BY <2>0, <2>1 DEF Worlds, x0
    <2>3. v = [find(w0, "http", r) EXCEPT !.dl[r].on = TRUE]
      BY <2>2 DEF DownloadManager_get
    <2> HIDE DEF w0
    <2>4. find(w0, "http", r) = CdnFinder_find(w1, r)
      BY DEF find
    <2>5. w1 \in Worlds /\ w1.res = w0.res
          /\ w1.boot = w.boot /\ w1.net = w.net /\ w1.fin = w.fin /\ w1.trk = w.trk /\ w1.dl = w.dl
          /\ w1.req = [w.req EXCEPT !["http"] = @ \union {r}]
          /\ w1.posted = w.posted /\ w1.known = w.known /\ w1.before = w.before
      BY <2>2 DEF Worlds
    <2>6. w1.res.urls[r] = us
      BY <1>2, <2>2, <2>5
    <2>7. w2 = IF IsInjective(s) THEN w1 ELSE Note(w1, "same url")
      BY <2>5 DEF Note, Worlds
    <2>8. CdnFinder_find(w1, r) = w5
      BY <1>1, <2>6, <2>7 DEF CdnFinder_find, get_source, get_urls
    <2> HIDE DEF w1
    <2>9. w2 \in Worlds /\ w2.res = w0.res
          /\ w2.boot = w.boot /\ w2.net = w.net /\ w2.fin = w.fin /\ w2.trk = w.trk /\ w2.dl = w.dl
          /\ w2.req = [w.req EXCEPT !["http"] = @ \union {r}]
          /\ w2.posted = w.posted /\ w2.known = w.known /\ w2.before = more
      BY <1>2, <2>5 DEF Worlds, Notes
    <2> HIDE DEF w2
    <2>10. w3 \in Worlds /\ w3.res.ids = w0.res.ids /\ w3.res.urls = [w0.res.urls EXCEPT ![r] = <<>>]
          /\ w3.boot = w.boot /\ w3.net = w.net /\ w3.fin = w.fin /\ w3.trk = w.trk /\ w3.dl = w.dl
          /\ w3.req = [w.req EXCEPT !["http"] = @ \union {r}]
          /\ w3.posted = w.posted /\ w3.known = w.known /\ w3.before = more
      <3>1. w2.res.urls \in [Rids -> Seq(STRING)]
        BY <2>9 DEF Worlds
      <3>2. [w2.res.urls EXCEPT ![r] = <<>>] \in [Rids -> Seq(STRING)]
        BY <2>1, <3>1
      <3> QED
        BY <2>9, <3>2 DEF Worlds
    <2> HIDE DEF w3
    <2>11. w4 \in Worlds /\ w4.res = w3.res
          /\ w4.boot = w.boot /\ w4.net = w.net /\ w4.fin = w.fin /\ w4.trk = w.trk /\ w4.dl = w.dl
          /\ w4.req = [w.req EXCEPT !["http"] = @ \union {r}]
          /\ w4.posted = w.posted /\ w4.known = w.known \union Range(s) /\ w4.before = more
      BY <1>1, <2>10, HttpsFacts DEF Worlds
    <2> HIDE DEF w4
    <2>12. a \in Answer
      BY <1>1, HttpsFacts DEF Answer
    <2> HIDE DEF a
    <2>13. w5 \in Worlds /\ w5.res = w3.res
          /\ w5.boot = w.boot /\ w5.net = w.net /\ w5.fin = w.fin /\ w5.trk = w.trk /\ w5.dl = w.dl
          /\ w5.req = [w.req EXCEPT !["http"] = @ \union {r}]
          /\ w5.posted = Append(w.posted, a) /\ w5.known = w.known \union Range(s) /\ w5.before = more
      <3>1. Append(w.posted, a) \in Seq(Answer)
        BY <1>2, <2>12
      <3> QED
        BY <2>11, <3>1 DEF Worlds
    <2> HIDE DEF w5
    <2>14. v = [w5 EXCEPT !.dl[r].on = TRUE]
      BY <2>3, <2>4, <2>8
    <2> HIDE DEF v
    <2>15. [w.res.urls EXCEPT ![r] = <<>>] = w3.res.urls
      BY <1>2, <2>2, <2>10
    <2>16. v \in Worlds /\ v.res = w3.res
          /\ v.boot = w.boot /\ v.net = w.net /\ v.fin = w.fin /\ v.trk = w.trk /\ v.dl = [w.dl EXCEPT ![r].on = TRUE]
          /\ v.req = [w.req EXCEPT !["http"] = @ \union {r}]
          /\ v.posted = Append(w.posted, a) /\ v.known = w.known \union Range(s) /\ v.before = more
      <3>1. [w.dl EXCEPT ![r].on = TRUE] \in [Rids -> Loader]
        BY <1>2 DEF Loader
      <3> QED
        BY <2>13, <2>14, <3>1 DEF Worlds
    <2> QED
      BY <2>2, <2>10, <2>15, <2>16
  <1> HIDE DEF v, w0
  <1>4. w.before \subseteq v.before
    BY <1>3
  <1>5. HostsCome(v)
    BY <1>3 DEF Good, HostsCome
  <1>6. FinderAlike(v, w)
    BY <1>3, <1>4 DEF FinderAlike
  <1>7. OnTheCircle(v)
    BY <1>6, StillOnTheCircle DEF Good
  <1>8. w.dl[r].sources = {} /\ r \notin w.req["http"] \union w.req["p2p"]
    BY DEF Good, Whereabouts
  <1>9. /\ v.dl[r].on /\ v.dl[r].sources = {} /\ v.dl[r].again = w.dl[r].again
        /\ \A q \in Rids \ {r} : v.dl[q] = w.dl[q]
        /\ \A q \in Rids : v.dl[q].sources = w.dl[q].sources
    <2>1. w.dl[r] \in Loader /\ v.dl[r] = [w.dl[r] EXCEPT !.on = TRUE]
      BY <1>2, <1>3
    <2>2. v.dl[r].on /\ v.dl[r].sources = w.dl[r].sources /\ v.dl[r].again = w.dl[r].again
      BY <2>1 DEF Loader
    <2>3. \A q \in Rids \ {r} : v.dl[q] = w.dl[q]
      BY <1>2, <1>3
    <2> QED
      BY <1>8, <2>2, <2>3
  <1>10. Attached(v) = Attached(w)
    BY <1>9 DEF Attached
  <1>11. /\ \A i \in DOMAIN w.posted : v.posted[i] = w.posted[i] /\ i \in DOMAIN v.posted
         /\ Len(w.posted) + 1 \in DOMAIN v.posted /\ v.posted[Len(w.posted) + 1] = a
         /\ \A i \in DOMAIN v.posted : i \in DOMAIN w.posted \/ i = Len(w.posted) + 1
    <2>1. v.posted = Append(w.posted, a) /\ w.posted \in Seq(Answer)
      BY <1>2, <1>3
    <2> HIDE DEF a
    <2> QED
      BY <2>1
  <1>12. \A i \in DOMAIN w.posted : OnItsWay(w, w.posted[i]) /\ w.posted[i].rid \in Rids /\ w.posted[i].rid # r
    BY <1>2, <1>8 DEF Good, Whereabouts, OnItsWay, Answer
  <1>13. v.req["http"] = w.req["http"] \union {r} /\ v.req["p2p"] = w.req["p2p"]
    BY <1>2, <1>3
  <1>14. \A i \in DOMAIN w.posted : OnItsWay(v, v.posted[i])
    <2> SUFFICES ASSUME NEW i \in DOMAIN w.posted
                 PROVE  OnItsWay(v, v.posted[i])
      OBVIOUS
    <2> DEFINE b == w.posted[i]
    <2>1. OnItsWay(w, b) /\ b.rid \in Rids /\ v.posted[i] = b
      BY <1>11, <1>12
    <2> HIDE DEF b
    <2> QED
      BY <1>3, <1>4, <1>9, <1>13, <2>1 DEF OnItsWay
  <1>15. OnItsWay(v, a)
    <2>1. \A i \in DOMAIN s : s[i] \in Range(s) /\ s[i].proto = "http"
      BY <1>1, HttpsFacts DEF Range
    <2> QED
      BY <1>3, <1>9, <1>13, <2>1 DEF OnItsWay
  <1>16. \A x \in v.known : x \in w.known \/ (x.proto = "http" /\ x \in Range(a.sources))
    <2>1. a.sources = s
      OBVIOUS
    <2>2. \A x \in Range(s) : x.proto = "http"
      BY <1>1, HttpsFacts
    <2> QED
      BY <1>3, <2>1, <2>2
  <1> HIDE DEF a
  <1>17. Whereabouts(v)
    <2>1. \A q \in Rids : /\ v.dl[q].on => q \in v.res.ids
                          /\ ~v.dl[q].on => v.dl[q].sources = {}
                          /\ v.dl[q].sources \subseteq v.known
                          /\ v.dl[q].again = {} \/ "same url" \in v.before
      BY <1>3, <1>4, <1>9 DEF Good, Whereabouts
    <2>2. \A q \in v.req["http"] \union v.req["p2p"] : v.dl[q].on
      BY <1>2, <1>9, <1>13 DEF Good, Whereabouts
    <2>3. \A i \in DOMAIN v.posted : OnItsWay(v, v.posted[i])
      BY <1>11, <1>14, <1>15
    <2>4. \A i, j \in DOMAIN v.posted : v.posted[i].rid = v.posted[j].rid => i = j
      <3>1. a.rid = r
        BY DEF a
      <3>2. \A i, j \in DOMAIN w.posted : w.posted[i].rid = w.posted[j].rid => i = j
        BY DEF Good, Whereabouts
      <3> QED
        BY <1>11, <1>12, <3>1, <3>2
    <2>5. \A x \in v.known :
            /\ x.proto = "http" => \/ x \in Attached(v)
                                   \/ \E i \in DOMAIN v.posted : x \in Range(v.posted[i].sources)
            /\ x.proto = "p2p" => x \in Attached(v) \/ "late" \in v.before
      <3> SUFFICES ASSUME NEW x \in v.known
                   PROVE  /\ x.proto = "http" => \/ x \in Attached(v)
                                                 \/ \E i \in DOMAIN v.posted : x \in Range(v.posted[i].sources)
                          /\ x.proto = "p2p" => x \in Attached(v) \/ "late" \in v.before
        OBVIOUS
      <3>1. CASE x \in w.known
        BY <1>4, <1>10, <1>11, <3>1 DEF Good, Whereabouts
      <3>2. CASE x.proto = "http" /\ x \in Range(a.sources)
        BY <1>11, <3>2
      <3> QED
        BY <1>16, <3>1, <3>2
    <2> QED
      BY <2>1, <2>2, <2>3, <2>4, <2>5 DEF Whereabouts
  <1> QED
    BY <1>3, <1>5, <1>7, <1>9, <1>17 DEF Good, v, w0

-----------------------------------------------------------------------------
(* Answers. *)

\* A request is answered, and the downloader gets what is in the answer.
Delivers(v, w, proto, r, s) ==
  /\ v \in Worlds
  /\ v.boot = w.boot /\ v.res = w.res /\ v.posted = w.posted /\ v.known = w.known
  /\ v.fin = w.fin /\ v.trk = w.trk /\ v.net = w.net /\ v.before = w.before
  /\ v.req = [w.req EXCEPT ![proto] = @ \ {r}]
  /\ \A q \in Rids \ {r} : v.dl[q] = w.dl[q]
  /\ v.dl[r].on /\ v.dl[r].sources = w.dl[r].sources \union Range(s)
  /\ IsInjective(s) /\ (\A i \in DOMAIN s : s[i] \notin w.dl[r].sources) =>
       v.dl[r].again = w.dl[r].again
  /\ Attached(v) = Attached(w) \union Range(s)

\* The first answer to a request delivers its sources to the downloader that waits.
LEMMA FoundFacts ==
  ASSUME NEW w \in Worlds, NEW proto \in {"http", "p2p"}, NEW r \in w.req[proto], w.dl[r].on,
         NEW s \in UNION {[D -> Sources] : D \in SUBSET Nat}
  PROVE  Delivers(found(w, proto, r, s), w, proto, r, s)
  <1> DEFINE v == found(w, proto, r, s)
             u == [w EXCEPT !.req[proto] = @ \ {r}]
             twice == {i \in DOMAIN s : \/ s[i] \in u.dl[r].sources
                                        \/ \E j \in DOMAIN s : j < i /\ s[j] = s[i]}
             again == {s[i] : i \in twice}
  <1>1. /\ w.dl \in [Rids -> Loader] /\ w.req \in [{"http", "p2p"} -> SUBSET Rids]
        /\ r \in Rids
    BY DEF Worlds
  <1>2. PICK D \in SUBSET Nat : s \in [D -> Sources]
    OBVIOUS
  <1>3. Range(s) \subseteq Sources /\ again \subseteq Sources
    BY <1>2 DEF Range
  <1>4. /\ u \in Worlds /\ u.dl = w.dl
        /\ u.boot = w.boot /\ u.res = w.res /\ u.posted = w.posted /\ u.known = w.known
        /\ u.fin = w.fin /\ u.trk = w.trk /\ u.net = w.net /\ u.before = w.before
        /\ u.req = [w.req EXCEPT ![proto] = @ \ {r}]
    <2>1. [w.req EXCEPT ![proto] = @ \ {r}] \in [{"http", "p2p"} -> SUBSET Rids]
      BY <1>1
    <2> QED
      BY <2>1 DEF Worlds
  <1>5. IsInjective(s) /\ (\A i \in DOMAIN s : s[i] \notin w.dl[r].sources) => again = {}
    <2>1. \A i, j \in DOMAIN s : i \in Nat /\ j \in Nat
      BY <1>2
    <2> QED
      BY <1>4, <2>1 DEF IsInjective
  <1>6. v = [u EXCEPT !.dl[r].sources = @ \union Range(s), !.dl[r].again = @ \union again]
    BY <1>4 DEF found, handle_find, on_sources
  <1> HIDE DEF v, u, again
  <1> DEFINE d == [w.dl EXCEPT ![r].sources = @ \union Range(s), ![r].again = @ \union again]
  <1>7. d \in [Rids -> Loader]
    BY <1>1, <1>3 DEF Loader
  <1>8. /\ \A q \in Rids \ {r} : d[q] = w.dl[q]
        /\ d[r].on /\ d[r].sources = w.dl[r].sources \union Range(s)
        /\ d[r].again = w.dl[r].again \union again
    BY <1>1 DEF Loader
  <1>10. /\ v \in Worlds /\ v.dl = d
         /\ v.boot = w.boot /\ v.res = w.res /\ v.posted = w.posted /\ v.known = w.known
         /\ v.fin = w.fin /\ v.trk = w.trk /\ v.net = w.net /\ v.before = w.before
         /\ v.req = [w.req EXCEPT ![proto] = @ \ {r}]
    <2> DEFINE x == [u EXCEPT !.dl[r].sources = @ \union Range(s)]
               e == [w.dl EXCEPT ![r].sources = @ \union Range(s)]
    <2>1. e \in [Rids -> Loader] /\ d = [e EXCEPT ![r].again = @ \union again]
      BY <1>1, <1>3 DEF Loader
    <2>2. v = [x EXCEPT !.dl[r].again = @ \union again]
      BY <1>6
    <2>3. /\ x \in Worlds /\ x.dl = e
          /\ x.boot = u.boot /\ x.res = u.res /\ x.posted = u.posted /\ x.known = u.known
          /\ x.fin = u.fin /\ x.trk = u.trk /\ x.net = u.net /\ x.before = u.before
          /\ x.req = u.req
      BY <1>4, <2>1 DEF Worlds
    <2> HIDE DEF d, e, x
    <2> QED
      BY <1>4, <1>7, <2>1, <2>2, <2>3 DEF Worlds
  <1> HIDE DEF d
  <1>11. Attached(v) = Attached(w) \union Range(s)
    BY <1>1, <1>8, <1>10 DEF Attached
  <1>12. Delivers(v, w, proto, r, s)
    BY <1>5, <1>8, <1>10, <1>11 DEF Delivers
  <1> QED
    BY <1>12 DEF v

\* The answer of CdnFinder, when it comes.
LEMMA PostedGood ==
  ASSUME NEW w, Good(w), w.posted # <<>>
  PROVE  Good(found([w EXCEPT !.posted = Tail(@)], "http", Head(w.posted).rid, Head(w.posted).sources))
  <1> DEFINE u == [w EXCEPT !.posted = Tail(@)]
             a == Head(w.posted)
             r == a.rid
             s == a.sources
             v == found(u, "http", r, s)
  <1>1. /\ w \in Worlds /\ w.posted \in Seq(Answer) /\ w.dl \in [Rids -> Loader]
        /\ w.req \in [{"http", "p2p"} -> SUBSET Rids]
    BY DEF Good, Worlds
  <1>2. /\ 1 \in DOMAIN w.posted /\ a = w.posted[1] /\ a \in Answer /\ Tail(w.posted) \in Seq(Answer)
        /\ \A i \in DOMAIN Tail(w.posted) : i + 1 \in DOMAIN w.posted /\ Tail(w.posted)[i] = w.posted[i + 1] /\ i + 1 # 1
        /\ \A i \in DOMAIN w.posted : i # 1 => i - 1 \in DOMAIN Tail(w.posted) /\ w.posted[i] = Tail(w.posted)[i - 1]
        /\ \A i \in DOMAIN w.posted : i \in Nat
    BY <1>1
  <1>3. /\ u \in Worlds /\ u.boot = w.boot /\ u.res = w.res /\ u.posted = Tail(w.posted) /\ u.known = w.known
        /\ u.fin = w.fin /\ u.trk = w.trk /\ u.net = w.net /\ u.before = w.before /\ u.req = w.req /\ u.dl = w.dl
    BY <1>1, <1>2 DEF Worlds
  <1>4. OnItsWay(w, a)
    BY <1>2 DEF Good, Whereabouts
  <1>5. /\ r \in u.req["http"] /\ u.dl[r].on /\ r \in Rids
        /\ s \in UNION {[D -> Sources] : D \in SUBSET Nat}
    BY <1>1, <1>2, <1>3, <1>4 DEF OnItsWay, Good, Whereabouts, Answer
  <1> HIDE DEF u, a
  <1>6. /\ v \in Worlds
        /\ v.boot = w.boot /\ v.res = w.res /\ v.posted = Tail(w.posted) /\ v.known = w.known
        /\ v.fin = w.fin /\ v.net = w.net /\ v.before = w.before
        /\ v.req = [w.req EXCEPT !["http"] = @ \ {r}]
        /\ \A q \in Rids \ {r} : v.dl[q] = w.dl[q]
        /\ v.dl[r].on /\ v.dl[r].sources = w.dl[r].sources \union Range(s)
        /\ IsInjective(s) /\ (\A i \in DOMAIN s : s[i] \notin w.dl[r].sources) =>
             v.dl[r].again = w.dl[r].again
        /\ Attached(v) = Attached(u) \union Range(s)
    <2>1. Delivers(v, u, "http", r, s)
      BY <1>3, <1>5, FoundFacts
    <2> HIDE DEF v
    <2> QED
      BY <1>3, <2>1 DEF Delivers
  <1> HIDE DEF v
  <1>7. Attached(u) = Attached(w)
    BY <1>3 DEF Attached
  <1>8. HostsCome(v)
    BY <1>6 DEF Good, HostsCome
  <1>9. OnTheCircle(v)
    <2>1. FinderAlike(v, w)
      BY <1>6 DEF FinderAlike
    <2> QED
      BY <2>1, StillOnTheCircle DEF Good
  <1>10. v.req["http"] = w.req["http"] \ {r} /\ v.req["p2p"] = w.req["p2p"]
    BY <1>1, <1>6
  <1>11. \A i \in DOMAIN w.posted : i # 1 => w.posted[i].rid # r /\ w.posted[i].rid \in Rids
    <2>1. \A i, j \in DOMAIN w.posted : w.posted[i].rid = w.posted[j].rid => i = j
      BY DEF Good, Whereabouts
    <2>2. \A i \in DOMAIN w.posted : w.posted[i] \in Answer
      BY <1>1
    <2> QED
      BY <1>2, <2>1, <2>2 DEF Answer
  <1>12. \A i \in DOMAIN w.posted : i # 1 => OnItsWay(v, w.posted[i])
    <2> SUFFICES ASSUME NEW i \in DOMAIN w.posted, i # 1
                 PROVE  OnItsWay(v, w.posted[i])
      OBVIOUS
    <2> DEFINE b == w.posted[i]
    <2>1. OnItsWay(w, b) /\ b.rid # r /\ b.rid \in Rids
      BY <1>11 DEF Good, Whereabouts
    <2> HIDE DEF b
    <2>2. v.dl[b.rid] = w.dl[b.rid] /\ b.rid \in v.req["http"]
      BY <1>6, <1>10, <2>1 DEF OnItsWay
    <2>3. OnItsWay(v, b)
      BY <1>6, <2>1, <2>2 DEF OnItsWay
    <2> QED
      BY <2>3 DEF b
  <1>13. Whereabouts(v)
    <2>1. Range(s) \subseteq w.known /\ (\A i \in DOMAIN s : s[i] \notin w.dl[r].sources)
      BY <1>4 DEF OnItsWay, Range
    <2>2. v.dl[r].again = {} \/ "same url" \in v.before
      BY <1>4, <1>5, <1>6, <2>1 DEF OnItsWay, Good, Whereabouts
    <2>3. \A q \in Rids : /\ v.dl[q].on => q \in v.res.ids
                          /\ ~v.dl[q].on => v.dl[q].sources = {}
                          /\ v.dl[q].sources \subseteq v.known
                          /\ v.dl[q].again = {} \/ "same url" \in v.before
      <3> SUFFICES ASSUME NEW q \in Rids
                   PROVE  /\ v.dl[q].on => q \in v.res.ids
                          /\ ~v.dl[q].on => v.dl[q].sources = {}
                          /\ v.dl[q].sources \subseteq v.known
                          /\ v.dl[q].again = {} \/ "same url" \in v.before
        OBVIOUS
      <3>1. CASE q = r
        BY <1>3, <1>5, <1>6, <2>1, <2>2, <3>1 DEF Good, Whereabouts
      <3>2. CASE q # r
        BY <1>6, <3>2 DEF Good, Whereabouts
      <3> QED
        BY <3>1, <3>2
    <2>4. \A q \in v.req["http"] \union v.req["p2p"] : v.dl[q].on
      <3>1. \A q \in w.req["http"] \union w.req["p2p"] : w.dl[q].on /\ q \in Rids
        BY <1>1 DEF Good, Whereabouts
      <3> QED
        BY <1>6, <1>10, <3>1
    <2>5. \A i \in DOMAIN v.posted : OnItsWay(v, v.posted[i])
      BY <1>2, <1>6, <1>12
    <2>6. \A i, j \in DOMAIN v.posted : v.posted[i].rid = v.posted[j].rid => i = j
      <3>1. \A i, j \in DOMAIN w.posted : w.posted[i].rid = w.posted[j].rid => i = j
        BY DEF Good, Whereabouts
      <3>2. \A i \in DOMAIN v.posted : i \in Nat
        BY <1>2, <1>6
      <3> QED
        BY <1>2, <1>6, <3>1, <3>2
    <2>7. \A x \in v.known :
            /\ x.proto = "http" => \/ x \in Attached(v)
                                   \/ \E i \in DOMAIN v.posted : x \in Range(v.posted[i].sources)
            /\ x.proto = "p2p" => x \in Attached(v) \/ "late" \in v.before
      <3> SUFFICES ASSUME NEW x \in w.known
                   PROVE  /\ x.proto = "http" => \/ x \in Attached(v)
                                                 \/ \E i \in DOMAIN v.posted : x \in Range(v.posted[i].sources)
                          /\ x.proto = "p2p" => x \in Attached(v) \/ "late" \in v.before
        BY <1>6
      <3>1. /\ x.proto = "http" => \/ x \in Attached(w)
                                   \/ \E i \in DOMAIN w.posted : x \in Range(w.posted[i].sources)
            /\ x.proto = "p2p" => x \in Attached(w) \/ "late" \in w.before
        BY DEF Good, Whereabouts
      <3>2. \A i \in DOMAIN w.posted : x \in Range(w.posted[i].sources) =>
              x \in Range(s) \/ \E j \in DOMAIN v.posted : x \in Range(v.posted[j].sources)
        <4> SUFFICES ASSUME NEW i \in DOMAIN w.posted, x \in Range(w.posted[i].sources), i # 1
                     PROVE  \E j \in DOMAIN v.posted : x \in Range(v.posted[j].sources)
          BY <1>2
        <4>1. i - 1 \in DOMAIN v.posted /\ w.posted[i] = v.posted[i - 1]
          BY <1>2, <1>6
        <4> QED
          BY <4>1
      <3> QED
        BY <1>6, <1>7, <3>1, <3>2
    <2> QED
      BY <2>3, <2>4, <2>5, <2>6, <2>7 DEF Whereabouts
  <1>14. Good(v)
    BY <1>6, <1>8, <1>9, <1>13 DEF Good
  <1> QED
    BY <1>14 DEF v, u, a

\* The hosts that a tracker names, as sources.
LEMMA HostSources ==
  ASSUME NEW r \in Rids, NEW list, list \subseteq STRING \union {Self}, IsFiniteSet(list)
  PROVE  LET new == {Source("p2p", r, p) : p \in list \ {Self}}
         IN  /\ new \subseteq Sources /\ IsFiniteSet(new)
             /\ \A x \in new : x.proto = "p2p" /\ x.rid = r
  <1> DEFINE new == {Source("p2p", r, p) : p \in list \ {Self}}
             f   == [p \in list \ {Self} |-> Source("p2p", r, p)]
  <1>1. IsFiniteSet(list \ {Self})
    BY FS_Difference
  <1>2. f \in Surjection(list \ {Self}, new)
    BY DEF Surjection
  <1>3. IsFiniteSet(new)
    BY <1>1, <1>2, FS_Surjection
  <1>4. \A p \in STRING : /\ Source("p2p", r, p) \in Sources
                          /\ Source("p2p", r, p).proto = "p2p" /\ Source("p2p", r, p).rid = r
    BY DEF Source, Sources
  <1>5. \A x \in new : x \in Sources /\ x.proto = "p2p" /\ x.rid = r
    BY <1>4
  <1> QED
    BY <1>3, <1>5

\* An answer of a tracker: the sources of the hosts are attached, but for those of a late
\* answer.
LEMMA HandleFoundGood ==
  ASSUME NEW w, Good(w), NEW r, NEW list, list \subseteq STRING \union {Self}, IsFiniteSet(list)
  PROVE  Good(handle_found(w, r, list))
  <1> DEFINE new == {Source("p2p", r, p) : p \in list \ {Self}}
             S   == new \ Attached(w)
             s   == SetToSeq(S)
             u   == [w EXCEPT !.known = @ \union new]
             v   == found(u, "p2p", r, s)
  <1>1. CASE list = {} \/ r \notin w.res.ids
    BY <1>1 DEF handle_found
  <1>2. CASE ~(list = {} \/ r \notin w.res.ids)
    <2>1. /\ w \in Worlds /\ w.dl \in [Rids -> Loader] /\ w.req \in [{"http", "p2p"} -> SUBSET Rids]
          /\ w.known \subseteq Sources /\ r \in Rids
      BY <1>2 DEF Good, Worlds
    <2>2. /\ new \subseteq Sources /\ IsFiniteSet(new)
          /\ \A x \in new : x.proto = "p2p" /\ x.rid = r
      BY <2>1, HostSources
    <2>3. handle_found(w, r, list) = v
      BY <1>2 DEF handle_found, get_sources
    <2> HIDE DEF new
    <2>4. IsFiniteSet(S)
      BY <2>2, FS_Difference
    <2>5. /\ s \in [1 .. Cardinality(S) -> S] /\ IsInjective(s) /\ Range(s) = S /\ DOMAIN s \subseteq Nat
      BY <2>4, Listed
    <2> HIDE DEF s
    <2>6. s \in UNION {[D -> Sources] : D \in SUBSET Nat}
      <3>1. \A i \in DOMAIN s : s[i] \in Sources
        BY <2>2, <2>5
      <3>2. s \in [DOMAIN s -> Sources]
        BY <2>5, <3>1
      <3> QED
        BY <2>5, <3>2
    <2>7. /\ u \in Worlds /\ u.boot = w.boot /\ u.res = w.res /\ u.posted = w.posted
          /\ u.known = w.known \union new /\ u.fin = w.fin /\ u.trk = w.trk /\ u.net = w.net
          /\ u.before = w.before /\ u.req = w.req /\ u.dl = w.dl
      BY <2>1, <2>2 DEF Worlds
    <2>8. Attached(u) = Attached(w)
      BY <2>7 DEF Attached
    <2>9. HostsCome(u)
      BY <2>7 DEF Good, HostsCome
    <2>10. OnTheCircle(u)
      <3>1. FinderAlike(u, w)
        BY <2>7 DEF FinderAlike
      <3> QED
        BY <3>1, StillOnTheCircle DEF Good
    <2>11. \A q \in Rids : w.dl[q].sources \subseteq Attached(w)
      BY DEF Attached
    <2> HIDE DEF u
    <2>12. CASE r \in w.req["p2p"]
      <3>1. w.dl[r].on
        BY <2>12 DEF Good, Whereabouts
      <3>2. Delivers(v, u, "p2p", r, s)
        BY <2>6, <2>7, <2>12, <3>1, FoundFacts
      <3> HIDE DEF v
      <3>3. /\ v \in Worlds
            /\ v.boot = w.boot /\ v.res = w.res /\ v.posted = w.posted /\ v.known = w.known \union new
            /\ v.fin = w.fin /\ v.net = w.net /\ v.before = w.before
            /\ v.req = [w.req EXCEPT !["p2p"] = @ \ {r}]
            /\ \A q \in Rids \ {r} : v.dl[q] = w.dl[q]
            /\ v.dl[r].on /\ v.dl[r].sources = w.dl[r].sources \union S
            /\ IsInjective(s) /\ (\A i \in DOMAIN s : s[i] \notin w.dl[r].sources) =>
                 v.dl[r].again = w.dl[r].again
            /\ Attached(v) = Attached(w) \union S
        BY <2>5, <2>7, <2>8, <3>2 DEF Delivers
      <3>4. v.dl[r].again = w.dl[r].again
        BY <2>1, <2>5, <2>11, <3>3
      <3>5. v.req["http"] = w.req["http"] /\ v.req["p2p"] = w.req["p2p"] \ {r}
        BY <2>1, <3>3
      <3>6. HostsCome(v)
        BY <3>3 DEF Good, HostsCome
      <3>7. OnTheCircle(v)
        <4>1. FinderAlike(v, w)
          BY <3>3 DEF FinderAlike
        <4> QED
          BY <4>1, StillOnTheCircle DEF Good
      <3>8. \A i \in DOMAIN v.posted : OnItsWay(v, v.posted[i])
        <4> SUFFICES ASSUME NEW i \in DOMAIN w.posted
                     PROVE  OnItsWay(v, w.posted[i])
          BY <3>3
        <4> DEFINE b == w.posted[i]
        <4>1. OnItsWay(w, b)
          BY DEF Good, Whereabouts
        <4>2. b.rid \in Rids
          BY <2>1, <4>1 DEF OnItsWay
        <4> HIDE DEF b
        <4>3. \A x \in v.dl[b.rid].sources : x.proto = "p2p"
          <5>1. \A x \in w.dl[b.rid].sources : x.proto = "p2p"
            BY <4>1 DEF OnItsWay
          <5>2. v.dl[b.rid].sources \subseteq w.dl[b.rid].sources \union S
            <6>1. CASE b.rid = r
              BY <3>3, <6>1, Zenon
            <6>2. CASE b.rid # r
              <7>1. v.dl[b.rid] = w.dl[b.rid]
                BY <3>3, <4>2, <6>2, Zenon
              <7> QED
                BY <7>1
            <6> QED
              BY <6>1, <6>2
          <5>3. \A x \in S : x.proto = "p2p"
            BY <2>2
          <5> QED
            BY <5>1, <5>2, <5>3
        <4>4. OnItsWay(v, b)
          BY <3>3, <3>5, <4>1, <4>3 DEF OnItsWay
        <4> QED
          BY <4>4 DEF b
      <3>9. Whereabouts(v)
        <4>1. \A q \in Rids : /\ v.dl[q].on => q \in v.res.ids
                              /\ ~v.dl[q].on => v.dl[q].sources = {}
                              /\ v.dl[q].sources \subseteq v.known
                              /\ v.dl[q].again = {} \/ "same url" \in v.before
          <5> SUFFICES ASSUME NEW q \in Rids
                       PROVE  /\ v.dl[q].on => q \in v.res.ids
                              /\ ~v.dl[q].on => v.dl[q].sources = {}
                              /\ v.dl[q].sources \subseteq v.known
                              /\ v.dl[q].again = {} \/ "same url" \in v.before
            OBVIOUS
          <5>1. CASE q = r
            <6>1. /\ r \in w.res.ids /\ w.dl[r].sources \subseteq w.known
                  /\ w.dl[r].again = {} \/ "same url" \in w.before
              BY <2>1, <3>1 DEF Good, Whereabouts
            <6>2. v.dl[r].sources \subseteq v.known
              BY <3>3, <6>1
            <6>3. v.dl[r].on /\ r \in v.res.ids
              BY <3>3, <6>1
            <6>4. v.dl[r].again = {} \/ "same url" \in v.before
              BY <3>3, <3>4, <6>1, Zenon
            <6> QED
              BY <5>1, <6>2, <6>3, <6>4
          <5>2. CASE q # r
            <6>1. v.dl[q] = w.dl[q] /\ v.res.ids = w.res.ids /\ w.known \subseteq v.known /\ v.before = w.before
              BY <3>3, <5>2
            <6>2. /\ w.dl[q].on => q \in w.res.ids
                  /\ ~w.dl[q].on => w.dl[q].sources = {}
                  /\ w.dl[q].sources \subseteq w.known
                  /\ w.dl[q].again = {} \/ "same url" \in w.before
              BY DEF Good, Whereabouts
            <6> QED
              BY <6>1, <6>2
          <5> QED
            BY <5>1, <5>2
        <4>2. \A q \in v.req["http"] \union v.req["p2p"] : v.dl[q].on
          <5>1. \A q \in w.req["http"] \union w.req["p2p"] : w.dl[q].on /\ q \in Rids
            BY <2>1 DEF Good, Whereabouts
          <5> QED
            BY <3>3, <3>5, <5>1
        <4>3. \A i, j \in DOMAIN v.posted : v.posted[i].rid = v.posted[j].rid => i = j
          BY <3>3 DEF Good, Whereabouts
        <4>4. \A x \in v.known :
                /\ x.proto = "http" => \/ x \in Attached(v)
                                       \/ \E i \in DOMAIN v.posted : x \in Range(v.posted[i].sources)
                /\ x.proto = "p2p" => x \in Attached(v) \/ "late" \in v.before
          <5> SUFFICES ASSUME NEW x \in w.known \union new
                       PROVE  /\ x.proto = "http" => \/ x \in Attached(v)
                                                     \/ \E i \in DOMAIN v.posted : x \in Range(v.posted[i].sources)
                              /\ x.proto = "p2p" => x \in Attached(v) \/ "late" \in v.before
            BY <3>3
          <5>1. CASE x \in w.known
            BY <3>3, <5>1 DEF Good, Whereabouts
          <5>2. CASE x \in new
            BY <2>2, <3>3, <5>2
          <5> QED
            BY <5>1, <5>2
        <4> QED
          BY <3>8, <4>1, <4>2, <4>3, <4>4 DEF Whereabouts
      <3>10. Good(v)
        BY <3>3, <3>6, <3>7, <3>9 DEF Good
      <3> QED
        BY <2>3, <3>10
    <2>13. CASE r \notin w.req["p2p"]
      <3> DEFINE more == IF DOMAIN s = {} THEN w.before ELSE w.before \union {"late"}
      <3>1. v = IF DOMAIN s = {} THEN u ELSE Note(u, "late")
        BY <2>7, <2>13 DEF found
      <3> HIDE DEF v
      <3>2. /\ v \in Worlds
            /\ v.boot = w.boot /\ v.res = w.res /\ v.posted = w.posted /\ v.known = w.known \union new
            /\ v.fin = w.fin /\ v.net = w.net /\ v.before = more
            /\ v.req = w.req /\ v.dl = w.dl
        BY <2>7, <3>1 DEF Note, Worlds, Notes
      <3>3. w.before \subseteq v.before /\ Attached(v) = Attached(w)
        BY <3>2 DEF Attached
      <3>4. HostsCome(v)
        BY <3>2 DEF Good, HostsCome
      <3>5. OnTheCircle(v)
        <4>1. FinderAlike(v, w)
          BY <3>2, <3>3 DEF FinderAlike
        <4> QED
          BY <4>1, StillOnTheCircle DEF Good
      <3>6. \A x \in new : x.proto = "p2p" /\ (x \in Attached(v) \/ "late" \in v.before)
        BY <2>2, <2>5, <3>2, <3>3 DEF Range
      <3>7. \A a : OnItsWay(w, a) => OnItsWay(v, a)
        BY <3>2, <3>3 DEF OnItsWay
      <3>8. Whereabouts(v)
        <4>1. \A q \in Rids : /\ v.dl[q].on => q \in v.res.ids
                              /\ ~v.dl[q].on => v.dl[q].sources = {}
                              /\ v.dl[q].sources \subseteq v.known
                              /\ v.dl[q].again = {} \/ "same url" \in v.before
          BY <3>2, <3>3 DEF Good, Whereabouts
        <4>2. \A q \in v.req["http"] \union v.req["p2p"] : v.dl[q].on
          BY <3>2 DEF Good, Whereabouts
        <4>3. /\ \A i \in DOMAIN v.posted : OnItsWay(v, v.posted[i])
              /\ \A i, j \in DOMAIN v.posted : v.posted[i].rid = v.posted[j].rid => i = j
          BY <3>2, <3>7 DEF Good, Whereabouts
        <4>4. \A x \in v.known :
                /\ x.proto = "http" => \/ x \in Attached(v)
                                       \/ \E i \in DOMAIN v.posted : x \in Range(v.posted[i].sources)
                /\ x.proto = "p2p" => x \in Attached(v) \/ "late" \in v.before
          <5> SUFFICES ASSUME NEW x \in w.known \union new
                       PROVE  /\ x.proto = "http" => \/ x \in Attached(v)
                                                     \/ \E i \in DOMAIN v.posted : x \in Range(v.posted[i].sources)
                              /\ x.proto = "p2p" => x \in Attached(v) \/ "late" \in v.before
            BY <3>2
          <5>1. CASE x \in w.known
            BY <3>2, <3>3, <5>1 DEF Good, Whereabouts
          <5>2. CASE x \in new
            BY <3>6, <5>2
          <5> QED
            BY <5>1, <5>2
        <4> QED
          BY <4>1, <4>2, <4>3, <4>4 DEF Whereabouts
      <3>9. Good(v)
        BY <3>2, <3>4, <3>5, <3>8 DEF Good
      <3> QED
        BY <2>3, <3>9
    <2> QED
      BY <2>12, <2>13
  <1> QED
    BY <1>1, <1>2

-----------------------------------------------------------------------------
(* The finder. *)

\* A change of the finder alone is good when it stays on its circle.
LEMMA FinderSet ==
  ASSUME NEW w, Good(w), NEW f \in Fins
  PROVE  LET v == [w EXCEPT !.fin = f]
         IN  /\ OnTheCircle(v) => Good(v)
             /\ v.fin = f /\ v.boot = w.boot /\ v.before = w.before /\ v.trk = w.trk /\ v.dl = w.dl
  <1> DEFINE v == [w EXCEPT !.fin = f]
  <1>1. /\ v \in Worlds /\ v.fin = f /\ v.boot = w.boot /\ v.before = w.before /\ v.trk = w.trk
        /\ v.net = w.net /\ v.dl = w.dl /\ SourcesAlike(v, w)
    BY DEF Good, Worlds, SourcesAlike
  <1> HIDE DEF v
  <1>2. Whereabouts(v)
    BY <1>1, StillWhereabouts DEF Good
  <1>3. HostsCome(v)
    BY <1>1 DEF Good, HostsCome
  <1>4. OnTheCircle(v) => Good(v)
    BY <1>1, <1>2, <1>3 DEF Good
  <1> QED
    BY <1>1, <1>4 DEF v

\* What is known of the finder of a good record.
LEMMA FinderFacts ==
  ASSUME NEW w, Good(w)
  PROVE  /\ w.fin \in Fins /\ OnTheCircle(w)
         /\ w.fin.index # None => /\ w.fin.index \in Tracks /\ w.fin.n \in Nat \ {0} /\ w.fin.n <= Trackers
                                  /\ w.fin.start \in 1 .. w.fin.n /\ w.fin.index \in 1 .. w.fin.n
                                  /\ w.boot = "ready"
  <1>1. w.fin \in Fins /\ OnTheCircle(w)
    BY DEF Good, Worlds
  <1>2. ASSUME w.fin.index # None
        PROVE  /\ w.fin.index \in Tracks /\ w.fin.n \in Nat \ {0} /\ w.fin.n <= Trackers
               /\ w.fin.start \in 1 .. w.fin.n /\ w.fin.index \in 1 .. w.fin.n
               /\ w.boot = "ready"
    BY <1>1, <1>2, Constants DEF Fins, OnTheCircle, Tracks
  <1> QED
    BY <1>1, <1>2

\* rotate leaves for the next tracker, or for none when that is the one it began with.
LEMMA RotateGood ==
  ASSUME NEW w, Good(w), w.fin.index # None
  PROVE  Good(rotate(w))
  <1> DEFINE n == w.fin.n
             a == w.fin.start
             b == w.fin.index
             i == IF b = n THEN 1 ELSE b + 1
             f == IF i = a THEN [w.fin EXCEPT !.index = None, !.open = FALSE]
                  ELSE [w.fin EXCEPT !.index = i, !.open = FALSE, !.tried = @ \union {i}]
             v == [w EXCEPT !.fin = f]
  <1>1. /\ w.fin \in Fins /\ OnTheCircle(w) /\ n \in Nat \ {0} /\ n <= Trackers
        /\ a \in 1 .. n /\ b \in 1 .. n /\ w.boot = "ready"
    BY FinderFacts
  <1>2. rotate(w) = v
    BY DEF rotate
  <1>3. i \in 1 .. n /\ i \in 0 .. Trackers /\ None = 0 /\ Trackers \in Nat \ {0}
    BY <1>1, Constants
  <1>4. /\ f \in Fins /\ f.n = n /\ f.start = a /\ f.open = FALSE
        /\ f.index = IF i = a THEN None ELSE i
        /\ f.tried = IF i = a THEN w.fin.tried ELSE w.fin.tried \union {i}
    <2>1. w.fin.tried \union {i} \in SUBSET Nat /\ None \in 0 .. Trackers /\ FALSE \in BOOLEAN
      BY <1>1, <1>3 DEF Fins
    <2> HIDE DEF i
    <2>2. CASE i = a
      <3>1. f = [w.fin EXCEPT !.index = None, !.open = FALSE]
        BY <2>2
      <3> QED
        BY <1>1, <2>1, <2>2, <3>1 DEF Fins
    <2>3. CASE i # a
      <3> DEFINE t == w.fin.tried \union {i}
      <3> HIDE DEF t
      <3>1. f = [w.fin EXCEPT !.index = i, !.open = FALSE, !.tried = t] /\ t \in SUBSET Nat
        BY <2>1, <2>3 DEF t
      <3>2. /\ f \in Fins /\ f.n = n /\ f.start = a /\ f.open = FALSE
            /\ f.index = i /\ f.tried = t
        BY <1>1, <1>3, <2>1, <3>1 DEF Fins
      <3> QED
        BY <2>3, <3>2 DEF t
    <2> QED
      BY <2>2, <2>3
  <1>7. PICK t \in 1 .. n : Along(w.fin, t) /\ (t = a \/ "moved" \in w.before)
    BY <1>1 DEF OnTheCircle
  <1>10. w.fin.tried = Circle(n, t, b) /\ (t = a \/ a \notin Circle(n, t, b))
    BY <1>7 DEF Along
  <1>5. i = a => b = IF a = 1 THEN n ELSE a - 1
    <2> HIDE DEF a, b, n
    <2> QED
      BY <1>1
  <1>6. i # a => /\ Circle(n, t, b) \union {i} = Circle(n, t, i)
                 /\ t = a \/ a \notin Circle(n, t, i)
    <2> SUFFICES ASSUME i # a PROVE /\ Circle(n, t, b) \union {i} = Circle(n, t, i)
                                    /\ t = a \/ a \notin Circle(n, t, i)
      OBVIOUS
    <2> DEFINE C == Circle(n, t, b)
               D == Circle(n, t, i)
    <2>1. C = (IF t <= b THEN t .. b ELSE (t .. n) \union (1 .. b))
          /\ D = (IF t <= i THEN t .. i ELSE (t .. n) \union (1 .. i))
      BY DEF Circle
    <2>2. t = a \/ a \notin C
      BY <1>10
    <2> HIDE DEF C, D, a, b, n
    <2>3. \A x \in Int : x \in D <=> x \in C \/ x = i
      <3>1. CASE b = n
        BY <1>1, <2>1, <2>2, <3>1
      <3>2. CASE b # n
        BY <1>1, <2>1, <2>2, <3>2
      <3> QED
        BY <3>1, <3>2
    <2>4. C \subseteq Int /\ D \subseteq Int /\ i \in Int
      BY <1>1, <2>1
    <2>5. C \union {i} = D
      BY <2>3, <2>4
    <2>6. a \in Int
      BY <1>1
    <2>7. t = a \/ a \notin D
      BY <2>2, <2>3, <2>6
    <2> QED
      BY <2>5, <2>7 DEF C, D
  <1>8. /\ OnTheCircle(v) => Good(v)
        /\ v.fin = f /\ v.boot = w.boot /\ v.before = w.before
    <2> HIDE DEF f
    <2> QED
      BY <1>4, FinderSet
  <1> HIDE DEF v, f, i
  <1>9. OnTheCircle(v)
    <2>1. v.fin.n # 0 /\ v.boot = "ready" /\ v.fin.open = FALSE
      BY <1>1, <1>4, <1>8
    <2>2. v.fin.start \in 1 .. v.fin.n /\ v.fin.index \in 0 .. v.fin.n
      <3>1. f.index \in 0 .. n
        <4>1. None \in 0 .. n /\ i \in 0 .. n
          BY <1>1, <1>3
        <4> QED
          BY <1>4, <4>1
      <3> QED
        BY <1>1, <1>4, <1>8, <3>1
    <2>3. t \in 1 .. v.fin.n /\ Along(v.fin, t) /\ (t = v.fin.start \/ "moved" \in v.before)
      <3>1. v.fin.n = n /\ v.fin.start = a /\ v.before = w.before
        BY <1>4, <1>8
      <3>2. CASE i = a
        <4>1. v.fin.index = None /\ v.fin.tried = Circle(n, t, b)
          BY <1>4, <1>8, <1>10, <3>2
        <4> QED
          BY <1>5, <1>7, <3>1, <3>2, <4>1 DEF Along, Prev
      <3>3. CASE i # a
        <4>1. i # None
          BY <1>1, <1>3
        <4>2. v.fin.index = i /\ v.fin.tried = Circle(n, t, i)
          BY <1>4, <1>6, <1>8, <1>10, <3>3
        <4> QED
          BY <1>6, <1>7, <3>1, <3>3, <4>1, <4>2 DEF Along
      <3> QED
        BY <3>2, <3>3
    <2> QED
      BY <2>1, <2>2, <2>3 DEF OnTheCircle
  <1> QED
    BY <1>2, <1>8, <1>9

\* on_disconnect of a tunnel that was open: the round of the trackers begins anew.
LEMMA DisconnectGood ==
  ASSUME NEW w, Good(w), w.fin.open
  PROVE  Good(on_disconnect(w)) /\ on_disconnect(w).fin.index # None
  <1> DEFINE f == [w.fin EXCEPT !.open = FALSE, !.pending = <<>>, !.logged = FALSE, !.tried = {w.fin.index}]
             v == [w EXCEPT !.fin = f]
             n == w.fin.n
  <1>1. w.fin.index # None
    BY DEF Good, OnTheCircle
  <1>2. /\ w.fin \in Fins /\ OnTheCircle(w) /\ n \in Nat \ {0} /\ n <= Trackers
        /\ w.fin.start \in 1 .. n /\ w.fin.index \in 1 .. n /\ w.boot = "ready"
    BY <1>1, FinderFacts
  <1>3. on_disconnect(w) = v
    BY DEF on_disconnect
  <1>4. f \in Fins /\ f.n = n /\ f.start = w.fin.start /\ f.open = FALSE /\ f.index = w.fin.index
        /\ f.tried = {w.fin.index}
    <2>1. <<>> \in Seq(Listing) /\ {w.fin.index} \in SUBSET Nat
      BY <1>2
    <2> QED
      BY <1>2, <2>1 DEF Fins
  <1>5. /\ OnTheCircle(v) => Good(v)
        /\ v.fin = f /\ v.boot = w.boot /\ v.before = w.before
    BY <1>4, FinderSet
  <1>6. Circle(n, w.fin.index, w.fin.index) = {w.fin.index} /\ (w.fin.index = w.fin.start \/ "moved" \in w.before)
    BY <1>2 DEF OnTheCircle, Circle
  <1> HIDE DEF v, f
  <1>8. Along(v.fin, v.fin.index)
    BY <1>1, <1>4, <1>5, <1>6 DEF Along
  <1>7. OnTheCircle(v)
    BY <1>1, <1>2, <1>4, <1>5, <1>6, <1>8 DEF OnTheCircle
  <1> QED
    BY <1>1, <1>3, <1>4, <1>5, <1>7

\* The lists that wait, or are sent.
LEMMA ListingAsked ==
  ASSUME NEW ms \in Seq(Listing), NEW t \in Tracks
  PROVE  {[m EXCEPT !.t = t] : m \in Range(ms)} \subseteq Question
  <1>1. \A m \in Range(ms) : m \in Listing
    BY DEF Range
  <1>2. \A m \in Listing : [m EXCEPT !.t = t] \in Question
    BY DEF Listing, Question
  <1> QED
    BY <1>1, <1>2

\* The finder changes but for where it is.
LEMMA FinderStays ==
  ASSUME NEW w, Good(w), NEW f \in Fins, f.n = w.fin.n, f.start = w.fin.start, f.index = w.fin.index,
         f.open = w.fin.open, f.tried = w.fin.tried
  PROVE  Good([w EXCEPT !.fin = f])
  <1> DEFINE v == [w EXCEPT !.fin = f]
  <1>1. /\ OnTheCircle(v) => Good(v)
        /\ v.fin = f /\ v.boot = w.boot /\ v.before = w.before
    BY FinderSet
  <1> HIDE DEF v
  <1>2. OnTheCircle(v)
    BY <1>1 DEF Good, OnTheCircle, Along, Prev
  <1> QED
    BY <1>1, <1>2 DEF v

\* connecting sends Login and what has waited for the tunnel.
LEMMA ConnectingGood ==
  ASSUME NEW w, Good(w), w.fin.index # None
  PROVE  Good(connecting(w))
  <1> DEFINE f  == [w.fin EXCEPT !.pending = <<>>]
             v  == [w EXCEPT !.fin = f]
             ms == {Login(w.fin.index)} \union {[m EXCEPT !.t = w.fin.index] : m \in Range(w.fin.pending)}
  <1>1. w.fin \in Fins /\ w.fin.index \in Tracks /\ w.fin.pending \in Seq(Listing)
    BY FinderFacts DEF Fins
  <1>2. f \in Fins /\ f.n = w.fin.n /\ f.start = w.fin.start /\ f.index = w.fin.index
        /\ f.open = w.fin.open /\ f.tried = w.fin.tried
    <2>1. <<>> \in Seq(Listing)
      OBVIOUS
    <2> QED
      BY <1>1, <2>1 DEF Fins
  <1>3. Good(v)
    BY <1>2, FinderStays
  <1>4. ms \in SUBSET Question
    <2>1. Login(w.fin.index) \in Question
      BY <1>1 DEF Login, Msg, Question
    <2> QED
      BY <1>1, <2>1, ListingAsked
  <1>5. connecting(w) = Send(v, ms)
    BY DEF connecting
  <1> QED
    BY <1>3, <1>4, <1>5, SendFacts

\* send_msg sends to the tracker, or keeps for it, what it is given.
LEMMA SendMsgGood ==
  ASSUME NEW w, Good(w), NEW ms \in Seq(Listing)
  PROVE  Good(send_msg(w, ms))
  <1>1. CASE w.fin.open
    <2>1. w.fin.index \in Tracks
      <3>1. w.fin.index # None
        BY <1>1 DEF Good, OnTheCircle
      <3> QED
        BY <3>1, FinderFacts
    <2> QED
      BY <1>1, <2>1, ListingAsked, SendFacts DEF send_msg
  <1>2. CASE ~w.fin.open
    <2> DEFINE f == [w.fin EXCEPT !.pending = @ \o ms]
    <2>1. w.fin \in Fins /\ w.fin.pending \in Seq(Listing)
      BY FinderFacts DEF Fins
    <2>2. w.fin.pending \o ms \in Seq(Listing)
      BY <2>1
    <2>3. f \in Fins /\ f.n = w.fin.n /\ f.start = w.fin.start /\ f.index = w.fin.index
          /\ f.open = w.fin.open /\ f.tried = w.fin.tried
      <3> DEFINE p == w.fin.pending \o ms
      <3> HIDE DEF p
      <3>1. p \in Seq(Listing) /\ f = [w.fin EXCEPT !.pending = p]
        BY <2>2 DEF p
      <3> QED
        BY <2>1, <3>1 DEF Fins
    <2>4. send_msg(w, ms) = [w EXCEPT !.fin = f]
      BY <1>2 DEF send_msg
    <2> HIDE DEF f
    <2> QED
      BY <2>3, <2>4, FinderStays
  <1> QED
    BY <1>1, <1>2

\* The parts of a list of resources.
LEMMA PartsFacts ==
  ASSUME NEW ids \in SUBSET Rids
  PROVE  \E k \in Nat : /\ Parts(ids) \in [1 .. k -> SUBSET Rids]
                        /\ [j \in DOMAIN Parts(ids) |-> Sync(IF j = 1 THEN "full" ELSE "more", Parts(ids)[j])]
                             \in Seq(Listing)
  <1> DEFINE c == Cardinality(ids)
             n == (c + Chunk - 1) \div Chunk
             P == Parts(ids)
             ms == [j \in DOMAIN P |-> Sync(IF j = 1 THEN "full" ELSE "more", P[j])]
  <1>1. c \in Nat /\ Chunk \in Nat \ {0} /\ Trackers \in Nat \ {0}
    BY Constants, FS_Subset, FS_CardinalityType
  <1>2. n \in Nat
    <2>1. c + Chunk - 1 \in Nat
      BY <1>1
    <2>2. \A x \in Nat, y \in Nat \ {0} : x \div y \in Nat
      BY SMT
    <2> HIDE DEF c
    <2> QED
      BY <1>1, <2>1, <2>2
  <1>3. P \in [1 .. n -> SUBSET Rids]
    BY DEF Parts
  <1> HIDE DEF P, n
  <1>4. \A j \in 1 .. n : Sync(IF j = 1 THEN "full" ELSE "more", P[j]) \in Listing
    <2>1. \A l \in SUBSET Rids, k \in {"full", "more"} : Sync(k, l) \in Listing
      BY <1>1, Constants DEF Sync, Msg, Listing
    <2> QED
      BY <1>3, <2>1
  <1>5. ms \in [1 .. n -> Listing]
    BY <1>3, <1>4
  <1>6. ms \in Seq(Listing)
    BY <1>2, <1>5
  <1> QED
    BY <1>2, <1>3, <1>6 DEF P

\* RSP_Login, and the list of resources it makes the host send.
LEMMA LoggedGood ==
  ASSUME NEW w, Good(w), NEW t
  PROVE  Good(logged(w, t))
  <1> DEFINE v == IF w.fin.open THEN w ELSE Note(w, "overtaken")
             f == [[v.fin EXCEPT !.logged = TRUE] EXCEPT !.told = v.res.ids]
             x == [v EXCEPT !.fin = f]
             ms == [j \in DOMAIN Parts(x.res.ids) |->
                      Sync(IF j = 1 THEN "full" ELSE "more", Parts(x.res.ids)[j])]
  <1>1. Good(v)
    <2> DEFINE y == Note(w, "overtaken")
    <2>1. /\ y \in Worlds /\ y.net = w.net /\ y.boot = w.boot /\ y.fin = w.fin
          /\ w.before \subseteq y.before /\ SourcesAlike(y, w)
      BY DEF Good, Note, Worlds, Notes, SourcesAlike
    <2> HIDE DEF y
    <2>2. FinderAlike(y, w) /\ HostsCome(y)
      BY <2>1 DEF Good, FinderAlike, HostsCome
    <2>3. Good(y)
      BY <2>1, <2>2, StillWhereabouts, StillOnTheCircle DEF Good
    <2> QED
      BY <2>3 DEF y
  <1> HIDE DEF v
  <1>2. v.fin \in Fins /\ v.res.ids \in SUBSET Rids
    BY <1>1 DEF Good, Worlds
  <1>3. /\ f \in Fins /\ f.n = v.fin.n /\ f.start = v.fin.start /\ f.index = v.fin.index
        /\ f.open = v.fin.open /\ f.tried = v.fin.tried
    BY <1>2 DEF Fins
  <1>4. Good(x)
    BY <1>1, <1>3, FinderStays
  <1>5. x.res.ids \in SUBSET Rids
    BY <1>4 DEF Good, Worlds
  <1>6. sync([v EXCEPT !.fin.logged = TRUE]) = send_msg(x, ms)
    <2> DEFINE y == [v EXCEPT !.fin.logged = TRUE]
    <2>1. y.fin = [v.fin EXCEPT !.logged = TRUE] /\ y.res = v.res
      BY <1>1 DEF Good, Worlds
    <2>2. [y EXCEPT !.fin.told = y.res.ids] = x
      BY <1>1, <2>1 DEF Good, Worlds
    <2>3. x.res = v.res
      BY <1>1 DEF Good, Worlds
    <2> HIDE DEF y, x
    <2>4. sync(y) = send_msg(x, ms)
      BY <2>1, <2>2, <2>3 DEF sync
    <2> QED
      BY <2>4 DEF y
  <1> HIDE DEF x, f
  <1>7. ms \in Seq(Listing)
    BY <1>5, PartsFacts
  <1> HIDE DEF ms
  <1>8. Good(send_msg(x, ms))
    BY <1>4, <1>7, SendMsgGood
  <1>9. logged(w, t) = IF t = v.fin.index THEN sync([v EXCEPT !.fin.logged = TRUE]) ELSE w
    <2>1. v.fin = w.fin
      BY DEF v, Note, Good, Worlds
    <2> QED
      BY <2>1 DEF logged, v
  <1> QED
    BY <1>6, <1>8, <1>9

\* The tunnel to a tracker is open: the round of the trackers begins anew.
LEMMA ConnectedGood ==
  ASSUME NEW w, Good(w), NEW t \in Tracks
  PROVE  Good(connected(w, t))
  <1> DEFINE more == IF t = w.fin.start THEN w.before ELSE w.before \union {"moved"}
             f == [w.fin EXCEPT !.open = TRUE, !.tried = {t}]
             u == [w EXCEPT !.before = more]
             v == [u EXCEPT !.fin = f]
  <1>1. CASE t # w.fin.index
    BY <1>1 DEF connected
  <1>2. CASE t = w.fin.index
    <2>1. t # None /\ t \in Nat
      BY Constants
    <2>2. /\ w.fin \in Fins /\ OnTheCircle(w) /\ w.fin.n \in Nat \ {0}
          /\ w.fin.start \in 1 .. w.fin.n /\ w.fin.index \in 1 .. w.fin.n /\ w.boot = "ready"
      BY <1>2, <2>1, FinderFacts
    <2>3. connected(w, t) = v
      <3>1. u = IF t = w.fin.start THEN w ELSE Note(w, "moved")
        BY DEF Good, Worlds, Note
      <3> HIDE DEF u
      <3> QED
        BY <1>2, <3>1 DEF connected, Note, Good, Worlds
    <2>4. /\ f \in Fins /\ f.n = w.fin.n /\ f.start = w.fin.start /\ f.open = TRUE
          /\ f.index = w.fin.index /\ f.tried = {t}
      <3>1. {t} \in SUBSET Nat
        BY <2>1
      <3> QED
        BY <2>2, <3>1 DEF Fins
    <2> HIDE DEF f
    <2>5. /\ u \in Worlds /\ u.net = w.net /\ u.boot = w.boot /\ u.fin = w.fin /\ u.before = more
          /\ w.before \subseteq u.before /\ SourcesAlike(u, w)
      BY DEF Good, Note, Worlds, Notes, SourcesAlike
    <2> HIDE DEF u
    <2>6. FinderAlike(u, w) /\ HostsCome(u)
      BY <2>5 DEF Good, FinderAlike, HostsCome
    <2>7. Good(u)
      BY <2>5, <2>6, StillWhereabouts, StillOnTheCircle DEF Good
    <2>8. (OnTheCircle(v) => Good(v)) /\ v.fin = f /\ v.boot = u.boot /\ v.before = more
      BY <2>4, <2>5, <2>7, FinderSet
    <2>9. Circle(w.fin.n, t, t) = {t}
      BY <1>2, <2>1 DEF Circle
    <2>10. t # w.fin.start => "moved" \in more
      OBVIOUS
    <2> HIDE DEF v, more
    <2>12. Along(v.fin, t)
      BY <1>2, <2>1, <2>4, <2>8, <2>9 DEF Along
    <2>11. OnTheCircle(v)
      BY <1>2, <2>1, <2>2, <2>4, <2>5, <2>8, <2>10, <2>12 DEF OnTheCircle
    <2> QED
      BY <2>3, <2>8, <2>11
  <1> QED
    BY <1>1, <1>2

\* The bootstrap file has come.
LEMMA BootstrapGood ==
  ASSUME NEW w, Good(w), w.boot = "asked", NEW n \in Tracks, NEW t \in 1 .. n
  PROVE  Good(on_event(w, n, t))
  <1> DEFINE f == [w.fin EXCEPT !.n = n, !.start = t, !.index = t, !.tried = {t}]
             u == [w EXCEPT !.boot = "ready"]
             v == [u EXCEPT !.fin = f]
  <1>1. w.fin \in Fins /\ OnTheCircle(w)
    BY FinderFacts
  <1>2. n \in Nat \ {0} /\ n \in 0 .. Trackers /\ t \in Nat \ {0} /\ t \in 0 .. Trackers /\ None = 0
    BY Constants DEF Tracks
  <1>3. w.fin.n = 0 /\ w.fin.open = FALSE
    BY <1>1 DEF OnTheCircle, Fins
  <1>4. /\ f \in Fins /\ f.n = n /\ f.start = t /\ f.index = t /\ f.open = FALSE /\ f.tried = {t}
    <2>1. {t} \in SUBSET Nat
      BY <1>2
    <2> QED
      BY <1>1, <1>2, <1>3, <2>1 DEF Fins
  <1>5. on_event(w, n, t) = v
    BY DEF on_event, init, Good, Worlds
  <1> HIDE DEF f
  <1>6. /\ v \in Worlds /\ v.net = w.net /\ v.boot = "ready" /\ v.fin = f /\ SourcesAlike(v, w)
    BY <1>4 DEF Good, Worlds, SourcesAlike
  <1> HIDE DEF v
  <1>7. HostsCome(v)
    BY <1>6 DEF Good, HostsCome
  <1>8. Circle(n, t, t) = {t}
    BY <1>2 DEF Circle
  <1>9. OnTheCircle(v)
    <2>1. v.fin.n # 0 /\ v.boot = "ready" /\ v.fin.open = FALSE /\ v.fin.index # None
      BY <1>2, <1>4, <1>6
    <2>2. v.fin.start \in 1 .. v.fin.n /\ v.fin.index \in 0 .. v.fin.n
      BY <1>2, <1>4, <1>6
    <2>3. t \in 1 .. v.fin.n /\ Along(v.fin, t) /\ t = v.fin.start
      BY <1>2, <1>4, <1>6, <1>8 DEF Along
    <2> QED
      BY <2>1, <2>2, <2>3 DEF OnTheCircle
  <1> QED
    BY <1>5, <1>6, <1>7, <1>9, StillWhereabouts DEF Good

-----------------------------------------------------------------------------
(* The steps. *)

IInv == Good(World)

\* A step to a good world.
LEMMA Became ==
  ASSUME NEW w, Good(w), Become(w)
  PROVE  IInv'
  <1>1. w = [boot |-> w.boot, res |-> w.res, dl |-> w.dl, req |-> w.req, posted |-> w.posted,
             known |-> w.known, fin |-> w.fin, trk |-> w.trk, net |-> w.net, before |-> w.before]
    BY DEF Good, Worlds
  <1>2. World' = w
    BY <1>1 DEF World, Become
  <1> QED
    BY <1>2 DEF IInv

\* The variables are the parts of World.
LEMMA WorldFields ==
  /\ World.boot = boot /\ World.res = res /\ World.dl = dl /\ World.req = req /\ World.posted = posted
  /\ World.known = known /\ World.fin = fin /\ World.trk = trk /\ World.net = net /\ World.before = before
  BY DEF World

\* What happens between host and trackers, without the host.
LEMMA Elsewhere ==
  ASSUME NEW w, Good(w), NEW v \in Worlds, SourcesAlike(v, w), FinderAlike(v, w), v.net \subseteq w.net
  PROVE  Good(v)
  <1>1. HostsCome(v)
    BY DEF Good, HostsCome
  <1> QED
    BY <1>1, StillWhereabouts, StillOnTheCircle DEF Good

\* The invariant holds at the start.
LEMMA InitGood == Init => IInv
  <1> SUFFICES ASSUME Init PROVE IInv
    OBVIOUS
  <1>1. World \in Worlds
    <2>1. res \in [ids : SUBSET Rids, urls : [Rids -> Seq(STRING)]]
      <3>1. [r \in Rids |-> <<>>] \in [Rids -> Seq(STRING)]
        OBVIOUS
      <3> QED
        BY <3>1 DEF Init
    <2>2. dl \in [Rids -> Loader]
      BY DEF Init, NoDownloader, Loader
    <2>3. req \in [{"http", "p2p"} -> SUBSET Rids]
      BY DEF Init
    <2>4. fin \in Fins
      <3>1. <<>> \in Seq(Listing) /\ 0 \in 0 .. Trackers
        BY Constants
      <3> QED
        BY <3>1 DEF Init, NoFinder, Fins, None
    <2>5. trk \in [Tracks -> Host]
      BY DEF Init, Tracker, Host
    <2>6. posted \in Seq(Answer) /\ known \subseteq Sources /\ net \subseteq Message /\ before \subseteq Notes
          /\ boot \in {"asked", "ready", "failed"}
      BY DEF Init
    <2> QED
      BY <2>1, <2>2, <2>3, <2>4, <2>5, <2>6 DEF World, Worlds
  <1>2. HostsCome(World)
    BY WorldFields DEF Init, HostsCome
  <1>3. Whereabouts(World)
    <2>1. /\ \A r \in Rids : dl[r].on = FALSE /\ dl[r].sources = {} /\ dl[r].again = {}
          /\ req["http"] = {} /\ req["p2p"] = {} /\ DOMAIN posted = {} /\ known = {}
      BY DEF Init, NoDownloader
    <2> QED
      BY <2>1, WorldFields DEF Whereabouts
  <1>4. OnTheCircle(World)
    <2>1. /\ fin.n = 0 /\ fin.open = FALSE /\ fin.index = None /\ boot # "ready"
      BY DEF Init, NoFinder
    <2> QED
      BY <2>1, WorldFields DEF OnTheCircle
  <1> QED
    BY <1>1, <1>2, <1>3, <1>4 DEF IInv, Good

\* The steps of the finder keep the invariant.
LEMMA FinderSteps ==
  ASSUME IInv, Bootstrapped \/ NotBootstrapped \/ Connecting \/ Silence
  PROVE  IInv'
  <1> DEFINE W == World
  <1>1. Good(W) /\ W.boot = boot /\ W.fin = fin /\ W.trk = trk
    BY WorldFields DEF IInv
  <1> HIDE DEF W
  <1>2. CASE Bootstrapped
    <2>1. PICK n \in Tracks : \E t \in 1 .. n : Become(on_event(W, n, t))
      BY <1>2 DEF Bootstrapped, W
    <2>2. PICK t \in 1 .. n : Become(on_event(W, n, t))
      BY <2>1
    <2>3. Good(on_event(W, n, t))
      BY <1>1, <1>2, BootstrapGood DEF Bootstrapped
    <2> QED
      BY <2>2, <2>3, Became
  <1>3. CASE NotBootstrapped
    <2> DEFINE v == [W EXCEPT !.boot = "failed"]
    <2>1. boot = "asked" /\ Become(v)
      BY <1>3 DEF NotBootstrapped, W
    <2>2. v \in Worlds /\ SourcesAlike(v, W) /\ v.net = W.net /\ v.fin = W.fin /\ v.boot = "failed"
          /\ v.before = W.before
      BY <1>1 DEF Good, Worlds, SourcesAlike
    <2> HIDE DEF v
    <2>3. OnTheCircle(v)
      BY <1>1, <2>1, <2>2 DEF Good, OnTheCircle
    <2>4. HostsCome(v)
      BY <1>1, <2>2 DEF Good, HostsCome
    <2>5. Good(v)
      BY <1>1, <2>2, <2>3, <2>4, StillWhereabouts DEF Good
    <2> QED
      BY <2>1, <2>5, Became
  <1>4. CASE Connecting
    <2>1. fin.index # None /\ (Become(connecting(W)) \/ Become(rotate(W)))
      BY <1>4 DEF Connecting, W
    <2>2. Good(connecting(W)) /\ Good(rotate(W))
      BY <1>1, <2>1, ConnectingGood, RotateGood
    <2> QED
      BY <2>1, <2>2, Became
  <1>5. CASE Silence
    <2> DEFINE w == on_disconnect(W)
    <2>1. fin.open /\ (Become(rotate(w)) \/ Become(connecting(w)))
      BY <1>5 DEF Silence, W
    <2>2. Good(w) /\ w.fin.index # None
      BY <1>1, <2>1, DisconnectGood
    <2> HIDE DEF w
    <2>3. Good(connecting(w)) /\ Good(rotate(w))
      BY <2>2, ConnectingGood, RotateGood
    <2> QED
      BY <2>1, <2>3, Became
  <1> QED
    BY <1>2, <1>3, <1>4, <1>5

\* The steps of the downloaders keep it.
LEMMA DownloaderSteps ==
  ASSUME IInv, Posted \/ \E r \in Wanted : Played(r) \/ Window(r)
  PROVE  IInv'
  <1> DEFINE W == World
  <1>1. Good(W) /\ W.dl = dl /\ W.posted = posted
    BY WorldFields DEF IInv
  <1>2. Wanted \subseteq Rids
    BY Constants
  <1>3. ASSUME NEW r \in Wanted, Played(r)
        PROVE  IInv'
    <2>1. PICK us \in Lists :
            Become(prepare_taskwindow(
                     DownloadManager_get([ResourceManager_get(W, r) EXCEPT !.res.urls[r] = us], r), r))
      BY <1>3 DEF Played
    <2> DEFINE v == DownloadManager_get([ResourceManager_get(W, r) EXCEPT !.res.urls[r] = us], r)
    <2>2. ~W.dl[r].on
      BY <1>1, <1>3 DEF Played
    <2> HIDE DEF W
    <2>3. Good(v) /\ v.dl[r].on
      BY <1>1, <1>2, <2>2, NewDownloader
    <2> HIDE DEF v
    <2>4. Good(prepare_taskwindow(v, r))
      BY <1>2, <2>3, PrepareGood
    <2> QED
      BY <2>1, <2>4, Became DEF v
  <1>4. ASSUME NEW r \in Wanted, Window(r)
        PROVE  IInv'
    <2>1. W.dl[r].on /\ Become(prepare_taskwindow(W, r))
      BY <1>1, <1>4 DEF Window
    <2> HIDE DEF W
    <2>2. Good(prepare_taskwindow(W, r))
      BY <1>1, <1>2, <2>1, PrepareGood
    <2> QED
      BY <2>1, <2>2, Became
  <1>5. CASE Posted
    <2>1. W.posted # <<>> /\ Become(found([W EXCEPT !.posted = Tail(@)], "http", Head(W.posted).rid, Head(W.posted).sources))
      BY <1>1, <1>5 DEF Posted
    <2> HIDE DEF W
    <2>2. Good(found([W EXCEPT !.posted = Tail(@)], "http", Head(W.posted).rid, Head(W.posted).sources))
      BY <1>1, <2>1, PostedGood
    <2> QED
      BY <2>1, <2>2, Became
  <1> QED
    BY <1>3, <1>4, <1>5

\* The messages keep it, whether they arrive or are lost.
LEMMA MessageSteps ==
  ASSUME IInv, NEW m \in net, Receive(m) \/ Lose(m)
  PROVE  IInv'
  <1> DEFINE W == World
             w == [W EXCEPT !.net = @ \ {m}]
  <1>1. Good(W) /\ m \in W.net
    BY WorldFields DEF IInv
  <1> HIDE DEF W
  <1>2. m \in Message /\ (m.type = "found" => m.list \subseteq STRING \union {Self} /\ IsFiniteSet(m.list))
    BY <1>1 DEF Good, HostsCome, Worlds
  <1>3. w \in Worlds /\ SourcesAlike(w, W) /\ FinderAlike(w, W) /\ w.net \subseteq W.net
    BY <1>1 DEF Good, Worlds, SourcesAlike, FinderAlike
  <1>4. Good(w)
    <2> HIDE DEF w
    <2> QED
      BY <1>1, <1>3, Elsewhere
  <1>5. CASE Lose(m)
    <2>1. Become(Note(w, "lost"))
      BY <1>5 DEF Lose, W
    <2> HIDE DEF w
    <2> DEFINE v == Note(w, "lost")
    <2>2. v \in Worlds /\ SourcesAlike(v, w) /\ FinderAlike(v, w) /\ v.net = w.net
      BY <1>4 DEF Note, Good, Worlds, Notes, SourcesAlike, FinderAlike
    <2> HIDE DEF v
    <2>3. Good(v)
      BY <1>4, <2>2, Elsewhere
    <2> QED
      BY <2>1, <2>3, Became DEF v
  <1>6. CASE Receive(m)
    <2>1. IF m.type \in {"full", "more"} THEN Become(Tracked(w, m)) ELSE Become(handle_msg(w, m))
      BY <1>6 DEF Receive, W
    <2> HIDE DEF w
    <2>2. CASE m.type \in {"full", "more"}
      <3> DEFINE v == Tracked(w, m)
                 u == IF \E f \in w.net : f.t = m.t /\ f.type = "full" THEN Note(w, "shuffled") ELSE w
      <3>1. m.t \in Tracks /\ m.list \subseteq Rids \union STRING \union {Self}
        BY <1>2 DEF Message
      <3>2. u \in Worlds /\ SourcesAlike(u, w) /\ FinderAlike(u, w) /\ u.net = w.net /\ u.trk = w.trk
        BY <1>4 DEF Note, Good, Worlds, Notes, SourcesAlike, FinderAlike
      <3>3. /\ [w.trk EXCEPT ![m.t].rids = m.list] \in [Tracks -> Host]
            /\ [w.trk EXCEPT ![m.t].rids = @ \union m.list] \in [Tracks -> Host]
        <4>1. w.trk \in [Tracks -> Host]
          BY <1>4 DEF Good, Worlds
        <4>2. \A h \in Host, l \in SUBSET (Rids \union STRING \union {Self}) :
                [h EXCEPT !.rids = l] \in Host /\ [h EXCEPT !.rids = @ \union l] \in Host
          BY DEF Host
        <4> QED
          BY <3>1, <4>1, <4>2
      <3>4. CASE ~w.trk[m.t].up
        BY <1>4, <2>1, <2>2, <3>4, Became DEF Tracked
      <3>5. CASE w.trk[m.t].up /\ m.type = "full"
        <4>1. v = [w EXCEPT !.trk[m.t].rids = m.list]
          BY <3>5 DEF Tracked
        <4>2. v \in Worlds /\ SourcesAlike(v, w) /\ FinderAlike(v, w) /\ v.net = w.net
          BY <1>4, <3>3, <4>1 DEF Good, Worlds, SourcesAlike, FinderAlike
        <4> HIDE DEF v
        <4>3. Good(v)
          BY <1>4, <4>2, Elsewhere
        <4> QED
          BY <2>1, <2>2, <4>3, Became DEF v
      <3>6. CASE w.trk[m.t].up /\ m.type # "full"
        <4>1. v = [u EXCEPT !.trk[m.t].rids = @ \union m.list]
          BY <3>6 DEF Tracked
        <4> HIDE DEF u
        <4>2. v \in Worlds /\ SourcesAlike(v, w) /\ FinderAlike(v, w) /\ v.net = w.net
          <5> DEFINE x == [w.trk EXCEPT ![m.t].rids = @ \union m.list]
          <5>1. v = [u EXCEPT !.trk = x] /\ x \in [Tracks -> Host]
            BY <3>2, <3>3, <4>1
          <5> HIDE DEF x, v
          <5>2. /\ v \in Worlds /\ v.boot = u.boot /\ v.res = u.res /\ v.dl = u.dl /\ v.req = u.req
                /\ v.posted = u.posted /\ v.known = u.known /\ v.fin = u.fin /\ v.net = u.net
                /\ v.before = u.before
            BY <3>2, <5>1 DEF Worlds
          <5> QED
            BY <3>2, <5>2 DEF SourcesAlike, FinderAlike
        <4> HIDE DEF v
        <4>3. Good(v)
          BY <1>4, <4>2, Elsewhere
        <4> QED
          BY <2>1, <2>2, <4>3, Became DEF v
      <3> QED
        BY <3>4, <3>5, <3>6
    <2>3. CASE m.type \notin {"full", "more"}
      <3>1. /\ m.type \in {"connected", "logged", "found"} /\ m.t \in Tracks
        BY <1>2, <2>3 DEF Message, Kinds
      <3>2. CASE m.type = "connected"
        BY <1>4, <2>1, <2>3, <3>1, <3>2, ConnectedGood, Became DEF handle_msg
      <3>3. CASE m.type = "logged"
        BY <1>4, <2>1, <2>3, <3>1, <3>3, LoggedGood, Became DEF handle_msg
      <3>4. CASE m.type = "found"
        <4>1. Good(handle_found(w, m.rid, m.list))
          BY <1>2, <1>4, <3>4, HandleFoundGood
        <4>2. handle_msg(w, m) = handle_found(w, m.rid, m.list)
          BY <3>4 DEF handle_msg
        <4> QED
          BY <2>1, <2>3, <4>1, <4>2, Became
      <3> QED
        BY <3>1, <3>2, <3>3, <3>4
    <2> QED
      BY <2>2, <2>3
  <1> QED
    BY <1>5, <1>6

\* A tracker that stops or starts keeps it.
LEMMA TrackerSteps ==
  ASSUME IInv, NEW t \in Tracks, Down(t) \/ Up(t)
  PROVE  IInv'
  <1> DEFINE W == World
  <1>1. Good(W)
    BY DEF IInv
  <1>2. Become([W EXCEPT !.trk[t].up = FALSE]) \/ Become([W EXCEPT !.trk[t] = Tracker])
    BY DEF Down, Up
  <1> HIDE DEF W
  <1>3. W.trk \in [Tracks -> Host] /\ W \in Worlds
    BY <1>1 DEF Good, Worlds
  <1>4. [W.trk EXCEPT ![t].up = FALSE] \in [Tracks -> Host] /\ [W.trk EXCEPT ![t] = Tracker] \in [Tracks -> Host]
    BY <1>3 DEF Host, Tracker
  <1>5. ASSUME NEW x \in [Tracks -> Host]
        PROVE  Good([W EXCEPT !.trk = x])
    <2> DEFINE v == [W EXCEPT !.trk = x]
    <2>1. v \in Worlds /\ SourcesAlike(v, W) /\ FinderAlike(v, W) /\ v.net = W.net
      BY <1>3 DEF Worlds, SourcesAlike, FinderAlike
    <2> HIDE DEF v
    <2>2. Good(v)
      BY <1>1, <2>1, Elsewhere
    <2> QED
      BY <2>2 DEF v
  <1>6. Good([W EXCEPT !.trk[t].up = FALSE]) /\ Good([W EXCEPT !.trk[t] = Tracker])
    BY <1>4, <1>5
  <1> QED
    BY <1>2, <1>6, Became

\* Every step keeps the invariant.
LEMMA NextGood == IInv /\ [Next]_vars => IInv'
  <1> SUFFICES ASSUME IInv, [Next]_vars PROVE IInv'
    OBVIOUS
  <1>1. CASE UNCHANGED vars
    <2>1. World' = World
      BY <1>1 DEF vars, World
    <2> QED
      BY <2>1 DEF IInv
  <1>2. CASE Bootstrapped \/ NotBootstrapped \/ Connecting \/ Silence
    BY <1>2, FinderSteps
  <1>3. CASE Posted \/ \E r \in Wanted : Played(r) \/ Window(r)
    BY <1>3, DownloaderSteps
  <1>4. CASE \E m \in net : Receive(m) \/ Lose(m)
    BY <1>4, MessageSteps
  <1>5. CASE \E t \in Tracks : Down(t) \/ Up(t)
    BY <1>5, TrackerSteps
  <1> QED
    BY <1>1, <1>2, <1>3, <1>4, <1>5 DEF Next

-----------------------------------------------------------------------------
(* What follows. *)

\* The properties of the runs follow.
LEMMA GoodIsRight == IInv => SourcesInv /\ GivesUpLast
  <1> SUFFICES ASSUME IInv PROVE SourcesInv /\ GivesUpLast
    OBVIOUS
  <1>1. World \in Worlds /\ Whereabouts(World) /\ OnTheCircle(World)
    BY DEF IInv, Good
  <1>2. /\ boot \in {"asked", "ready", "failed"} /\ res.ids \subseteq Rids /\ dl \in [Rids -> Loader]
        /\ req \in [{"http", "p2p"} -> SUBSET Rids] /\ known \subseteq Sources /\ before \subseteq Notes
        /\ fin \in Fins
    BY <1>1, WorldFields DEF Worlds
  <1>3. /\ \A r \in Rids : /\ dl[r].on => r \in res.ids
                           /\ dl[r].sources \subseteq known
                           /\ dl[r].again = {} \/ "same url" \in before
        /\ \A r \in req["http"] \union req["p2p"] : dl[r].on
        /\ \A s \in known :
             /\ s.proto = "http" => \/ s \in Attached(World)
                                    \/ \E i \in DOMAIN posted : s \in Range(posted[i].sources)
             /\ s.proto = "p2p" => s \in Attached(World) \/ "late" \in before
    BY <1>1, WorldFields DEF Whereabouts
  <1>4. NoSourceTwice /\ CdnSourcesAreUsed /\ PeersAreUsed
    BY <1>3 DEF NoSourceTwice, CdnSourcesAreUsed, PeersAreUsed
  <1>5. /\ (fin.n = 0) <=> (boot # "ready")
        /\ fin.open => fin.index # None
        /\ fin.n > 0 => \E t \in 1 .. fin.n : Along(fin, t) /\ (t = fin.start \/ "moved" \in before)
    BY <1>1, WorldFields DEF OnTheCircle
  <1>8. GivesUpLast
    BY <1>5 DEF GivesUpLast, Along, Prev
  <1>6. fin.index \in Tracks \union {None} /\ fin.n \in 0 .. Trackers
    BY <1>2, Constants DEF Fins, Tracks
  <1>7. TypeOK
    <2>1. \A r \in Rids : dl[r].on \in BOOLEAN
      BY <1>2 DEF Loader
    <2>2. \A p \in DOMAIN req : \A r \in req[p] : dl[r].on
      BY <1>2, <1>3
    <2> QED
      BY <1>2, <1>3, <1>5, <1>6, <2>1, <2>2, Zenon DEF TypeOK, Notes
  <1> QED
    BY <1>4, <1>7, <1>8 DEF SourcesInv

\* Whatever messages are lost, late or reordered and whichever trackers stop, what a finder
\* makes becomes a source of the downloader, once, but for the answers that Finder::found
\* (Finder.cpp:38) finds no request for and the urls that are named twice.
THEOREM SourcesReachTheDownloader == Spec => []SourcesInv
  <1> QED
    BY InitGood, NextGood, GoodIsRight, PTL DEF Spec

\* P2pUdpFinder gives up only when it has been on its way to each tracker, or, once it has
\* moved to another than the first, to each from the last that answered to the one before
\* the first: the first itself is then not tried again (P2pUdpFinder.cpp:121).
THEOREM EveryTrackerIsTried == Spec => []GivesUpLast
  <1> QED
    BY InitGood, NextGood, GoodIsRight, PTL DEF Spec
=============================================================================
