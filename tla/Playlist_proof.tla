---------------------------- MODULE Playlist_proof ----------------------------
(* Proofs about Playlist, for all lists at the origin and however they move on. *)
EXTENDS Playlist, WellFoundedInduction, SequenceTheorems, TLAPS

-----------------------------------------------------------------------------
(* The invariant *)

MediaType ==
  [st : {"opening", "reading", "timer", "idle", "failed"},
   start : Nat, lastest : Nat, play : Nat, segs : Seq(Nat), hasEnd : BOOLEAN,
   prefix : {"unset", "here", "there", "host", ""}, at : {"here", "there"},
   master : BOOLEAN, resp : BOOLEAN]

UrlType == [number : Nat \union {-1}, base : {"", "host", "here", "there"}]
SourceType == [open : BOOLEAN, task : [seg : Segments \union {-1}], url : UrlType]

Types ==
  /\ media \in MediaType /\ origin \in Origin
  /\ source \in SourceType
  /\ before \in [base : Nat \union {-1}, breaks : SUBSET {"gap", "anew"}]
  /\ left \in 0 .. MaxTrouble

\* The list is known as soon as it has segments, and does not become empty again.
Known ==
  /\ media.segs = <<>> <=> before.base = -1
  /\ media.segs = <<>> => media.start = 0 /\ media.play = 0
  /\ source.open => media.segs # <<>>
  /\ media.lastest <= origin.lo

\* What is played is not past the end of the list, nor before its start unless the numbers
\* have started anew.
Plays ==
  /\ media.play > 0 => media.play < NextNumber(media)
  /\ media.play > 0 /\ "anew" \notin before.breaks => media.lastest <= media.play

\* The numbers of the list follow each other.
Ordered(m) == \A i \in DOMAIN m.segs : m.segs[i] = m.lastest + i - 1
Numbered ==
  before.breaks = {} /\ media.segs # <<>> => media.start = before.base /\ Ordered(media)

\* What the urls of the list are put after, where the first url decides for all.
Prefix ==
  /\ media.master => media.prefix = "unset" /\ media.segs = <<>>
  /\ origin.streams = "none" =>
       ~media.master /\ media.at = "here" /\ media.prefix \in {"unset", Base(origin.kind, "here")}
  /\ ~media.master /\ Fits(origin.streams, origin.kind) =>
       media.prefix = Base(origin.kind, Place(origin))

Inv == Types /\ Known /\ Plays /\ Numbered /\ Prefix /\ RightPlace

-----------------------------------------------------------------------------
(* The parts of parse_m3u8 *)

\* What there is stays, and what is appended are numbers.
LEMMA AppendedFacts ==
  ASSUME NEW m \in MediaType, origin \in Origin
  PROVE  \E new \in Seq(Nat) :
           /\ Appended(m) = [m EXCEPT !.segs = m.segs \o new]
           /\ \A i \in DOMAIN new :
                new[i] = (IF origin.lo < NextNumber(m) THEN NextNumber(m) ELSE origin.lo) + i - 1
  <1> DEFINE first == IF origin.lo < NextNumber(m) THEN NextNumber(m) ELSE origin.lo
             new == [i \in 1 .. origin.hi - first |-> first + i - 1]
  <1>1. m.segs \in Seq(Nat) /\ Len(m.segs) \in Nat /\ m.lastest \in Nat /\ origin.lo \in Nat /\ origin.hi \in Nat
    <2>1. m.segs \in Seq(Nat) /\ m.lastest \in Nat
      BY DEF MediaType
    <2>2. origin.lo \in Nat /\ origin.hi \in Nat
      BY DEF Origin
    <2> QED
      BY <2>1, <2>2
  <1>2. first \in Nat
    BY <1>1 DEF NextNumber
  <1>3. new \in Seq(Nat)
    <2> HIDE DEF first
    <2>1. CASE origin.hi - first \in Nat
      <3>1. \A i \in 1 .. origin.hi - first : first + i - 1 \in Nat
        BY <1>1, <1>2
      <3> QED
        BY <1>1, <1>2, <2>1, <3>1
    <2>2. CASE origin.hi - first < 0
      <3>1. 1 .. origin.hi - first = {} /\ 1 .. 0 = {}
        BY <1>1, <1>2, <2>2
      <3>2. new = [i \in 1 .. 0 |-> first + i - 1]
        BY <3>1
      <3>3. new \in [1 .. 0 -> Nat]
        BY <3>1, <3>2
      <3>4. \A f \in [1 .. 0 -> Nat] : f \in Seq(Nat)
        BY SeqDef
      <3> HIDE DEF new
      <3> QED
        BY <3>3, <3>4
    <2> QED
      BY <1>1, <1>2, <2>1, <2>2
  <1>4. Appended(m) = [m EXCEPT !.segs = m.segs \o new]
    BY DEF Appended
  <1>5. \A i \in DOMAIN new : new[i] = first + i - 1
    OBVIOUS
  <1> QED
    BY <1>3, <1>4, <1>5

\* The first number to keep is not after the one played, nor after the start of the list.
LEMMA KeepBounds ==
  ASSUME NEW m \in MediaType, origin \in Origin
  PROVE  Keep(m) \in Nat /\ Keep(m) <= m.play /\ Keep(m) <= origin.lo
  <1>1. m.play \in Nat /\ origin.lo \in Nat
    BY DEF MediaType, Origin
  <1> DEFINE S == {origin.lo, m.play}
  <1>2. \E x \in S : \A y \in S : x <= y
    BY <1>1
  <1>3. Min(S) \in S /\ \A y \in S : Min(S) <= y
    BY <1>2 DEF Min
  <1> QED
    BY <1>1, <1>3 DEF Keep

\* Media with other values in some fields.
LEMMA MediaFields ==
  ASSUME NEW m \in MediaType, NEW segs \in Seq(Nat), NEW start \in Nat, NEW lastest \in Nat, NEW end \in BOOLEAN
  PROVE  /\ [m EXCEPT !.segs = segs] \in MediaType
         /\ [m EXCEPT !.start = start] \in MediaType
         /\ [m EXCEPT !.start = start, !.lastest = lastest] \in MediaType
         /\ [m EXCEPT !.segs = segs, !.lastest = lastest, !.hasEnd = end] \in MediaType
  BY DEF MediaType

\* The two parts of a sequence.
LEMMA Concat ==
  ASSUME NEW S, NEW s \in Seq(S), NEW t \in Seq(S)
  PROVE  /\ \A x \in 1 .. Len(s) : (s \o t)[x] = s[x]
         /\ \A x \in 1 .. Len(t) : (s \o t)[Len(s) + x] = t[x]
  OBVIOUS

\* parse_m3u8 of a list of segments: whatever the origin has dropped, what is played stays;
\* and unless the numbers break, they go on where they ended.
LEMMA ParseFacts ==
  ASSUME NEW m \in MediaType, origin \in Origin,
         m.segs = <<>> => m.start = 0 /\ m.play = 0,
         m.play > 0 => m.play < NextNumber(m), m.lastest <= origin.lo
  PROVE  LET p == parse_m3u8(m)
         IN  /\ p \in MediaType
             /\ p.st = m.st /\ p.play = m.play /\ p.prefix = m.prefix /\ p.at = m.at
             /\ p.master = m.master /\ p.resp = m.resp
             /\ m.segs # <<>> => p.segs # <<>>
             /\ p.segs = <<>> => p.start = 0
             /\ p.play > 0 => p.play < NextNumber(p)
             /\ p.play > 0 /\ m.start # 0 /\ m.lastest <= m.play => p.lastest <= p.play
             /\ Breaks(m) = {} /\ (m.segs # <<>> => Ordered(m)) => Ordered(p)
             /\ m.start # 0 => p.start = m.start
             /\ p.lastest <= origin.lo
  <1> DEFINE first   == m.start = 0
             started == IF first THEN [m EXCEPT !.start = origin.lo, !.lastest = origin.lo] ELSE m
             read    == Appended(started)
             keep    == Keep(m)
             drop    == IF read.lastest < keep THEN keep - read.lastest ELSE 0
             kept    == [read EXCEPT !.segs = SubSeq(read.segs, drop + 1, Len(read.segs)),
                                     !.lastest = read.lastest + drop, !.hasEnd = origin.end]
             shifted == IF ~origin.end /\ first /\ origin.noshift /\ Len(kept.segs) > Behind
                        THEN [kept EXCEPT !.start = kept.start + Len(kept.segs) - Behind] ELSE kept
             p       == IF read.segs = <<>> THEN [read EXCEPT !.start = 0] ELSE shifted
  <1>1. parse_m3u8(m) = p
    BY DEF parse_m3u8
  <1>2. /\ origin.lo \in Nat /\ origin.end \in BOOLEAN /\ Behind \in Nat
        /\ m.start \in Nat /\ m.lastest \in Nat /\ m.play \in Nat /\ m.segs \in Seq(Nat)
    BY PlaylistAssumption DEF MediaType, Origin
  <1>3. /\ started \in MediaType
        /\ started.st = m.st /\ started.play = m.play /\ started.prefix = m.prefix /\ started.at = m.at
        /\ started.master = m.master /\ started.resp = m.resp /\ started.segs = m.segs
        /\ first => started.start = origin.lo /\ started.lastest = origin.lo
        /\ ~first => started.start = m.start /\ started.lastest = m.lastest
    BY <1>2 DEF MediaType
  <1> HIDE DEF started
  <1>4. PICK new \in Seq(Nat) :
          /\ read = [started EXCEPT !.segs = started.segs \o new]
          /\ \A i \in DOMAIN new :
               new[i] = (IF origin.lo < NextNumber(started) THEN NextNumber(started) ELSE origin.lo) + i - 1
    BY <1>3, AppendedFacts
  <1> DEFINE both == m.segs \o new
  <1>5. /\ both \in Seq(Nat) /\ Len(both) = Len(m.segs) + Len(new)
        /\ Len(m.segs) \in Nat /\ Len(new) \in Nat
        /\ \A i \in 1 .. Len(m.segs) + Len(new) :
             both[i] = IF i <= Len(m.segs) THEN m.segs[i] ELSE new[i - Len(m.segs)]
    BY <1>2, SMTT(30)
  <1>5a. read = [started EXCEPT !.segs = both]
    BY <1>3, <1>4
  <1> HIDE DEF both
  <1>5b. /\ \A x \in 1 .. Len(m.segs) : both[x] = m.segs[x]
         /\ \A x \in 1 .. Len(new) : both[Len(m.segs) + x] = new[x]
    BY <1>2, Concat DEF both
  <1>5c. NextNumber(m) \in Nat
    <2>1. m.lastest \in Nat /\ Len(m.segs) \in Nat
      BY <1>2, <1>5
    <2> QED
      BY <2>1 DEF NextNumber
  <1>6. /\ read \in MediaType /\ read.segs = both
        /\ read.st = m.st /\ read.play = m.play /\ read.prefix = m.prefix /\ read.at = m.at
        /\ read.master = m.master /\ read.resp = m.resp
        /\ read.start = started.start /\ read.lastest = started.lastest
    <2>1. read \in MediaType
      BY <1>3, <1>5, <1>5a, MediaFields
    <2>2. DOMAIN started = {"st", "start", "lastest", "play", "segs", "hasEnd", "prefix", "at", "master", "resp"}
      BY <1>3 DEF MediaType
    <2>3. /\ read.segs = both /\ read.start = started.start /\ read.lastest = started.lastest
          /\ read.st = started.st /\ read.play = started.play /\ read.prefix = started.prefix
          /\ read.at = started.at /\ read.master = started.master /\ read.resp = started.resp
      BY <1>5a, <2>2
    <2> QED
      BY <1>3, <2>1, <2>3
  <1> HIDE DEF read
  <1>7. keep \in Nat /\ keep <= m.play /\ keep <= origin.lo
    BY KeepBounds
  <1> HIDE DEF keep
  <1>8. read.lastest \in Nat /\ read.start \in Nat /\ read.segs \in Seq(Nat) /\ Len(read.segs) = Len(m.segs) + Len(new)
    BY <1>5, <1>6 DEF MediaType
  <1>9. /\ drop \in Nat /\ read.lastest + drop >= read.lastest
        /\ drop > 0 => ~first /\ read.lastest + drop = keep
        /\ drop > 0 => m.lastest + drop <= m.play /\ drop < Len(m.segs) /\ m.segs # <<>>
    <2>1. drop \in Nat /\ (drop > 0 => read.lastest < keep /\ read.lastest + drop = keep)
      BY <1>7, <1>8
    <2>2. drop > 0 => ~first
      <3>1. first => read.lastest = origin.lo
        BY <1>3, <1>6
      <3> HIDE DEF first
      <3> QED
        BY <1>2, <1>7, <1>8, <2>1, <3>1
    <2>3. drop > 0 => m.lastest + drop <= m.play /\ m.play > 0
      BY <1>2, <1>3, <1>6, <1>7, <2>1, <2>2
    <2>4. drop > 0 => drop < Len(m.segs)
      BY <1>2, <1>5, <2>1, <2>3, SMTT(30) DEF NextNumber
    <2>5. Len(<<>>) = 0
      OBVIOUS
    <2> QED
      BY <1>8, <2>1, <2>2, <2>3, <2>4, <2>5
  <1> HIDE DEF drop
  <1>10. CASE read.segs = <<>>
    <2>1. m.segs = <<>> /\ Len(new) = 0
      BY <1>2, <1>5, <1>6, <1>10
    <2>2. p = [read EXCEPT !.start = 0]
      BY <1>10
    <2>3. /\ p \in MediaType /\ p.start = 0 /\ p.segs = <<>> /\ p.play = m.play /\ p.lastest = read.lastest
          /\ p.st = m.st /\ p.prefix = m.prefix /\ p.at = m.at /\ p.master = m.master /\ p.resp = m.resp
      BY <1>6, <1>10, <2>2 DEF MediaType
    <2> HIDE DEF p
    <2>4. Ordered(p)
      BY <2>3 DEF Ordered
    <2>5. m.start = 0 /\ m.play = 0 /\ p.lastest = origin.lo
      BY <1>3, <1>6, <2>1, <2>3
    <2> QED
      BY <1>1, <1>2, <2>1, <2>3, <2>4, <2>5
  <1>11. CASE read.segs # <<>>
    <2> DEFINE n == Len(read.segs) - drop
    <2>1. n \in Nat /\ n > 0 /\ Len(read.segs) \in Nat
      <3>1. Len(read.segs) \in Nat /\ Len(read.segs) > 0
        BY <1>8, <1>11
      <3>2. drop \in Nat /\ (drop = 0 \/ drop < Len(m.segs))
        BY <1>9
      <3>3. Len(m.segs) \in Nat /\ Len(new) \in Nat /\ Len(read.segs) = Len(m.segs) + Len(new)
        BY <1>5, <1>8
      <3>4. \A a, b, c, d \in Nat : a > 0 /\ a = b + c /\ (d = 0 \/ d < b) => a - d \in Nat /\ a - d > 0
        OBVIOUS
      <3> QED
        BY <3>1, <3>2, <3>3, <3>4
    <2>2. /\ SubSeq(read.segs, drop + 1, Len(read.segs)) \in Seq(Nat)
          /\ Len(SubSeq(read.segs, drop + 1, Len(read.segs))) = n
          /\ \A i \in 1 .. n : SubSeq(read.segs, drop + 1, Len(read.segs))[i] = read.segs[i + drop]
      <3>1. \A i \in drop + 1 .. Len(read.segs) : read.segs[i] \in Nat
        BY <1>8, <1>9, SMTT(30)
      <3>2. drop + 1 \in Int /\ Len(read.segs) \in Int
        BY <1>9, <2>1
      <3>3. /\ SubSeq(read.segs, drop + 1, Len(read.segs)) \in Seq(Nat)
            /\ Len(SubSeq(read.segs, drop + 1, Len(read.segs))) =
                 IF drop + 1 <= Len(read.segs) THEN Len(read.segs) - (drop + 1) + 1 ELSE 0
            /\ \A i \in 1 .. Len(read.segs) - (drop + 1) + 1 :
                 SubSeq(read.segs, drop + 1, Len(read.segs))[i] = read.segs[drop + 1 + i - 1]
        BY <3>1, <3>2, SubSeqProperties
      <3>4. Len(read.segs) - (drop + 1) + 1 = n /\ drop + 1 <= Len(read.segs)
        BY <1>9, <2>1
      <3>5. \A i \in 1 .. n : drop + 1 + i - 1 = i + drop
        BY <1>9, <2>1
      <3> HIDE DEF n
      <3> QED
        BY <3>3, <3>4, <3>5
    <2>3. /\ kept \in MediaType /\ kept.segs = SubSeq(read.segs, drop + 1, Len(read.segs))
          /\ kept.lastest = read.lastest + drop /\ kept.start = read.start
          /\ kept.st = m.st /\ kept.play = m.play /\ kept.prefix = m.prefix /\ kept.at = m.at
          /\ kept.master = m.master /\ kept.resp = m.resp
      <3>1. read.lastest + drop \in Nat
        BY <1>8, <1>9
      <3>2. kept \in MediaType
        BY <1>2, <1>6, <2>2, <3>1, MediaFields
      <3> DEFINE cut == SubSeq(read.segs, drop + 1, Len(read.segs))
                 at  == read.lastest + drop
      <3>3. kept = [read EXCEPT !.segs = cut, !.lastest = at, !.hasEnd = origin.end]
        OBVIOUS
      <3> HIDE DEF cut, at
      <3>4. /\ kept.segs = cut /\ kept.lastest = at /\ kept.start = read.start
            /\ kept.st = m.st /\ kept.play = m.play /\ kept.prefix = m.prefix /\ kept.at = m.at
            /\ kept.master = m.master /\ kept.resp = m.resp
        BY <1>6, <3>3 DEF MediaType
      <3> QED
        BY <3>2, <3>4 DEF cut, at
    <2> HIDE DEF kept
    <2>4. p = shifted
      BY <1>11
    <2> HIDE DEF p
    <2>5. /\ p \in MediaType /\ p.segs = kept.segs /\ p.lastest = kept.lastest
          /\ ~first => p.start = kept.start
          /\ p.st = m.st /\ p.play = m.play /\ p.prefix = m.prefix /\ p.at = m.at
          /\ p.master = m.master /\ p.resp = m.resp
      <3>1. CASE p = kept
        BY <2>3, <3>1
      <3>2. CASE p = [kept EXCEPT !.start = kept.start + Len(kept.segs) - Behind] /\ Len(kept.segs) > Behind /\ first
        <4>1. kept.start \in Nat /\ Len(kept.segs) \in Nat
          BY <1>8, <2>1, <2>2, <2>3
        <4> DEFINE begin == kept.start + Len(kept.segs) - Behind
        <4>2. begin \in Nat
          BY <1>2, <3>2, <4>1
        <4> HIDE DEF begin
        <4>3. p = [kept EXCEPT !.start = begin]
          BY <3>2 DEF begin
        <4>4. p \in MediaType
          BY <2>3, <4>2, <4>3, MediaFields
        <4>5. /\ p.segs = kept.segs /\ p.lastest = kept.lastest
              /\ p.st = kept.st /\ p.play = kept.play /\ p.prefix = kept.prefix /\ p.at = kept.at
              /\ p.master = kept.master /\ p.resp = kept.resp
          <5>1. DOMAIN kept = {"st", "start", "lastest", "play", "segs", "hasEnd", "prefix", "at", "master", "resp"}
            BY <2>3 DEF MediaType
          <5> QED
            BY <4>3, <5>1
        <4> QED
          BY <2>3, <3>2, <4>4, <4>5
      <3>3. p = kept \/ (/\ p = [kept EXCEPT !.start = kept.start + Len(kept.segs) - Behind]
                         /\ Len(kept.segs) > Behind /\ first)
        BY <2>4
      <3> HIDE DEF first, shifted
      <3> QED
        BY <3>1, <3>2, <3>3
    <2>6. /\ p.segs \in Seq(Nat) /\ Len(p.segs) = n /\ DOMAIN p.segs = 1 .. n
          /\ p.lastest = read.lastest + drop
          /\ \A i \in 1 .. n : p.segs[i] = read.segs[i + drop]
      <3> HIDE DEF n
      <3> QED
        BY <2>2, <2>3, <2>5
    <2>7. p.segs # <<>>
      BY <2>1, <2>6
    <2>8. p.play > 0 => p.play < NextNumber(p)
      <3>1. NextNumber(p) = read.lastest + drop + (Len(m.segs) + Len(new) - drop)
        BY <1>5, <1>8, <1>9, <2>1, <2>6 DEF NextNumber
      <3>2. NextNumber(p) = read.lastest + Len(m.segs) + Len(new)
        BY <1>5, <1>8, <1>9, <3>1
      <3>3. m.play > 0 => m.play < m.lastest + Len(m.segs)
        BY DEF NextNumber
      <3>4. read.lastest >= m.lastest
        BY <1>2, <1>3, <1>6
      <3> QED
        BY <1>2, <1>5, <1>8, <2>5, <3>2, <3>3, <3>4
    <2>9. p.play > 0 /\ m.start # 0 /\ m.lastest <= m.play => p.lastest <= p.play
      BY <1>2, <1>3, <1>6, <1>9, <2>5, <2>6
    <2>10. m.start # 0 => p.start = m.start
      BY <1>3, <1>6, <2>3, <2>5
    <2>11. Breaks(m) = {} /\ (m.segs # <<>> => Ordered(m)) => Ordered(p)
      <3>1. SUFFICES ASSUME Breaks(m) = {}, m.segs # <<>> => Ordered(m), NEW i \in 1 .. n
                     PROVE  p.segs[i] = p.lastest + i - 1
        BY <2>6 DEF Ordered
      <3>2. p.segs[i] = both[i + drop] /\ i + drop \in 1 .. Len(m.segs) + Len(new)
        <4>1. i \in Nat /\ i >= 1 /\ i <= Len(read.segs) - drop /\ drop \in Nat
          BY <1>9, <2>1
        <4>2. i + drop \in 1 .. Len(m.segs) + Len(new)
          BY <1>5, <1>8, <4>1
        <4>3. p.segs[i] = read.segs[i + drop]
          BY <2>6
        <4> QED
          BY <1>6, <4>2, <4>3
      <3>2a. i \in Nat /\ drop \in Nat /\ i + drop \in Nat \ {0} /\ Len(m.segs) \in Nat /\ Len(new) \in Nat
        BY <1>5, <1>9, <2>1
      <3> HIDE DEF n
      <3>3. NextNumber(started) = started.lastest + Len(m.segs) /\ started.lastest = read.lastest
        BY <1>3, <1>6 DEF NextNumber
      <3>4. m.segs # <<>> => m.start # 0 /\ origin.lo <= NextNumber(m)
        BY <1>2, <1>5c, <3>1 DEF Breaks
      <3>5. CASE i + drop <= Len(m.segs)
        <4>1. i + drop \in DOMAIN m.segs /\ m.segs # <<>> /\ both[i + drop] = m.segs[i + drop]
          <5>1. i + drop \in 1 .. Len(m.segs) /\ DOMAIN m.segs = 1 .. Len(m.segs)
            BY <1>2, <3>2a, <3>5
          <5>2. Len(<<>>) = 0
            OBVIOUS
          <5>3. m.segs # <<>>
            BY <3>2a, <5>1, <5>2
          <5> QED
            BY <1>5b, <5>1, <5>3
        <4>2. m.segs[i + drop] = m.lastest + (i + drop) - 1
          BY <3>1, <4>1 DEF Ordered
        <4>3. read.lastest = m.lastest
          BY <1>3, <1>6, <3>4, <4>1
        <4> QED
          BY <1>8, <2>6, <3>2, <3>2a, <4>1, <4>2, <4>3, SMTT(30)
      <3>6. CASE i + drop > Len(m.segs)
        <4>1. i + drop - Len(m.segs) \in DOMAIN new /\ both[i + drop] = new[i + drop - Len(m.segs)]
          <5>1. i + drop - Len(m.segs) \in 1 .. Len(new) /\ DOMAIN new = 1 .. Len(new)
            BY <3>2, <3>2a, <3>6
          <5>2. Len(m.segs) + (i + drop - Len(m.segs)) = i + drop
            BY <3>2a
          <5> QED
            BY <1>5b, <5>1, <5>2
        <4>2. ~(origin.lo < NextNumber(started)) => origin.lo = NextNumber(started)
          <5>1. m.segs # <<>> => NextNumber(m) = NextNumber(started)
            BY <1>3, <3>4 DEF NextNumber
          <5>2. m.segs = <<>> => NextNumber(started) = origin.lo
            <6>1. m.segs = <<>> => Len(m.segs) = 0 /\ first
              OBVIOUS
            <6> QED
              BY <1>2, <1>3, <3>3, <6>1
          <5>3. NextNumber(started) \in Nat
            BY <1>5, <1>8, <3>3, SMTT(30)
          <5> QED
            BY <1>2, <3>4, <5>1, <5>2, <5>3
        <4>3. new[i + drop - Len(m.segs)] = NextNumber(started) + (i + drop - Len(m.segs)) - 1
          BY <1>4, <4>1, <4>2
        <4> QED
          <5>1. p.lastest = read.lastest + drop /\ read.lastest \in Nat /\ NextNumber(started) = read.lastest + Len(m.segs)
            BY <1>8, <2>6, <3>3
          <5>2. read.lastest + Len(m.segs) + (i + drop - Len(m.segs)) - 1 = read.lastest + drop + i - 1
            <6> DEFINE l == Len(m.segs)
                       a == read.lastest
            <6>1. l \in Nat /\ a \in Nat /\ i \in Nat /\ drop \in Nat
              BY <3>2a, <5>1
            <6> HIDE DEF l, a
            <6>2. a + l + (i + drop - l) - 1 = a + drop + i - 1
              BY <6>1
            <6> QED
              BY <6>2 DEF l, a
          <5> QED
            BY <3>2, <4>1, <4>3, <5>1, <5>2
      <3> QED
        BY <1>5, <1>9, <2>1, <3>5, <3>6
    <2>12. p.lastest <= origin.lo
      <3>1. CASE drop > 0
        BY <1>7, <1>9, <2>6, <3>1
      <3>2. CASE drop = 0
        <4>1. read.lastest = origin.lo \/ read.lastest = m.lastest
          BY <1>3, <1>6
        <4> QED
          BY <1>2, <1>8, <2>6, <3>2, <4>1
      <3> QED
        BY <1>9, <3>1, <3>2
    <2> QED
      BY <1>1, <2>5, <2>7, <2>8, <2>9, <2>10, <2>11, <2>12
  <1> QED
    BY <1>10, <1>11

-----------------------------------------------------------------------------
(* The list is named, taken, read and played *)

\* Segments have natural numbers.
LEMMA SegmentsAreNumbers == Segments \subseteq Nat
  BY PlaylistAssumption DEF Segments

\* No url is one of the values of a url.
LEMMA NoUrlType == NoUrl \in UrlType
  BY DEF NoUrl, UrlType

\* The place a url is relative to is one of those known.
LEMMA BaseType ==
  \A kind, at : at \in {"here", "there"} => Base(kind, at) \in {"", "host", "here", "there"}
  BY DEF Base

\* The invariant holds at the start.
LEMMA InitInv == Init => Inv
  <1> SUFFICES ASSUME Init PROVE Inv
    OBVIOUS
  <1>1. origin \in Origin
    BY OriginsAssumption DEF Init
  <1>2. origin.lo \in Nat
    BY <1>1 DEF Origin
  <1>3. <<>> \in Seq(Nat)
    OBVIOUS
  <1>4. /\ media \in MediaType /\ media.segs = <<>> /\ media.start = 0 /\ media.play = 0 /\ media.lastest = 0
        /\ media.prefix = "unset" /\ media.at = "here" /\ (media.master <=> origin.streams # "none")
    BY <1>3 DEF Init, M3u8Media, MediaType
  <1>5. source \in SourceType
    BY NoUrlType DEF Init, NoRequest, SourceType
  <1>6. Types
    BY <1>1, <1>4, <1>5, PlaylistAssumption DEF Init, Types
  <1>7. Known /\ Plays /\ Numbered /\ RightPlace
    BY <1>2, <1>4 DEF Init, Known, Plays, Numbered, RightPlace
  <1>8. Prefix
    BY <1>4 DEF Prefix, Fits
  <1> QED
    BY <1>6, <1>7, <1>8 DEF Inv

\* The source is given a segment, or has none any more.
LEMMA SourceFields ==
  ASSUME source \in SourceType, NEW k \in Segments \union {-1}, NEW url \in UrlType,
         source' = [source EXCEPT !.task = [seg |-> k], !.url = url]
  PROVE  source' \in SourceType /\ source'.open = source.open /\ source'.url = url
  <1> DEFINE task == [seg |-> k]
  <1>1. task \in [seg : Segments \union {-1}]
    OBVIOUS
  <1> HIDE DEF task
  <1>2. source' = [source EXCEPT !.task = task, !.url = url]
    BY DEF task
  <1>3. source' \in SourceType
    BY <1>1, <1>2 DEF SourceType
  <1>4. DOMAIN source = {"open", "task", "url"}
    BY DEF SourceType
  <1>5. source'.open = source.open /\ source'.url = url
    BY <1>2, <1>4
  <1> QED
    BY <1>3, <1>5

\* Nothing but where M3u8Media stands and whether it answers: all else in Inv is the same.
LEMMA OnlyStands ==
  ASSUME Inv, media' \in MediaType, UNCHANGED <<origin, before>>, left' \in 0 .. MaxTrouble,
         media'.segs = media.segs, media'.start = media.start, media'.lastest = media.lastest,
         media'.play = media.play, media'.prefix = media.prefix, media'.at = media.at,
         media'.master = media.master,
         UNCHANGED source \/ source' = [source EXCEPT !.task = NoRequest, !.url = NoUrl]
  PROVE  Inv'
  <1>1. /\ source' \in SourceType
        /\ source'.open = source.open /\ source'.url \in {source.url, NoUrl}
    <2>1. source \in SourceType /\ NoUrl \in UrlType /\ -1 \in Segments \union {-1}
      BY NoUrlType DEF Inv, Types
    <2>2. CASE UNCHANGED source
      BY <2>1, <2>2
    <2>3. CASE source' = [source EXCEPT !.task = NoRequest, !.url = NoUrl]
      <3>1. source' = [source EXCEPT !.task = [seg |-> -1], !.url = NoUrl]
        BY <2>3 DEF NoRequest
      <3> QED
        BY <2>1, <3>1, SourceFields
    <2> QED
      BY <2>2, <2>3, Zenon
  <1>2. Types'
    BY <1>1 DEF Inv, Types
  <1>3. Known' /\ Plays' /\ Numbered'
    BY <1>1 DEF Inv, Known, Plays, Numbered, NextNumber, Ordered
  <1>4. Prefix' /\ RightPlace'
    BY <1>1 DEF Inv, Prefix, RightPlace, Fits, Base, Place
  <1> QED
    BY <1>2, <1>3, <1>4 DEF Inv

\* The steps that leave the list as it is keep the invariant.
LEMMA StandsInv ==
  ASSUME Inv, handle_open \/ Fail \/ handle_timer \/ Fetched \/ cancel
  PROVE  Inv'
  <1>1. media \in MediaType /\ left \in 0 .. MaxTrouble /\ MaxTrouble \in Nat
    BY PlaylistAssumption DEF Inv, Types
  <1>2. ASSUME NEW st \in {"opening", "reading", "failed"}, NEW resp \in BOOLEAN,
               media' = [media EXCEPT !.st = st, !.resp = resp] \/ media' = [media EXCEPT !.st = st]
        PROVE  /\ media' \in MediaType
               /\ media'.segs = media.segs /\ media'.start = media.start /\ media'.lastest = media.lastest
               /\ media'.play = media.play /\ media'.prefix = media.prefix /\ media'.at = media.at
               /\ media'.master = media.master
    <2>1. DOMAIN media = {"st", "start", "lastest", "play", "segs", "hasEnd", "prefix", "at", "master", "resp"}
      BY <1>1 DEF MediaType
    <2>2. media' \in MediaType
      <3>1. [media EXCEPT !.st = st] \in MediaType
        BY <1>1 DEF MediaType
      <3>2. [media EXCEPT !.st = st, !.resp = resp] \in MediaType
        BY <1>1 DEF MediaType
      <3> QED
        BY <1>2, <3>1, <3>2
    <2> QED
      BY <1>2, <2>1, <2>2
  <1>3. left' \in 0 .. MaxTrouble
    BY <1>1 DEF handle_open, Fail, handle_timer, Fetched, cancel
  <1>4. CASE handle_open
    BY <1>1, <1>2, <1>3, <1>4, OnlyStands DEF handle_open
  <1>5. CASE Fail
    BY <1>1, <1>2, <1>3, <1>5, OnlyStands DEF Fail
  <1>6. CASE handle_timer
    BY <1>1, <1>2, <1>3, <1>6, OnlyStands DEF handle_timer
  <1>7. CASE Fetched
    BY <1>1, <1>3, <1>7, OnlyStands DEF Fetched
  <1>8. CASE cancel
    <2>1. CASE media' = media
      BY <1>1, <1>3, <1>8, <2>1, OnlyStands DEF cancel
    <2>2. CASE media' = [media EXCEPT !.st = "failed"]
      BY <1>1, <1>2, <1>3, <1>8, <2>2, OnlyStands DEF cancel
    <2> QED
      BY <1>8, <2>1, <2>2 DEF cancel
  <1> QED
    BY <1>4, <1>5, <1>6, <1>7, <1>8

\* The list that is taken has its segments where the prefix says, if it fits at all.
LEMMA ReadStreamsInv ==
  ASSUME Inv, ReadStreams
  PROVE  Inv'
  <1> DEFINE kind == IF origin.streams \in {"beside", "below"} THEN "relative" ELSE origin.streams
  <1>1. /\ media \in MediaType /\ origin \in Origin /\ media.master /\ media.prefix = "unset"
        /\ media.segs = <<>> /\ origin.streams # "none"
    BY DEF Inv, Types, Prefix, ReadStreams
  <1>2. /\ complete_url(media, kind) = Base(kind, "here")
        /\ Base(kind, "here") \in {"", "host", "here", "there"} /\ Place(origin) \in {"here", "there"}
    BY <1>1, BaseType DEF complete_url, Place
  <1> DEFINE prefix == Base(kind, "here")
             at     == Place(origin)
  <1>3. media' = [media EXCEPT !.prefix = prefix, !.at = at, !.segs = <<>>, !.master = FALSE, !.st = "opening"]
    <2>1. media' = [TakeStream(media) EXCEPT !.st = "opening"]
      BY DEF ReadStreams
    <2>2. TakeStream(media) = [media EXCEPT !.prefix = prefix, !.at = at, !.segs = <<>>, !.master = FALSE]
      BY <1>2 DEF TakeStream
    <2> HIDE DEF prefix, at
    <2> QED
      BY <2>1, <2>2
  <1>4. /\ origin.kind \in {"relative", "rooted", "absolute"}
        /\ Fits(origin.streams, origin.kind) => prefix = Base(origin.kind, at)
    BY <1>1 DEF Origin, Fits, Base, Place
  <1>5. prefix \in {"", "host", "here", "there"} /\ at \in {"here", "there"} /\ at = Place(origin)
    BY <1>2
  <1> HIDE DEF prefix, at, kind
  <1>6. DOMAIN media = {"st", "start", "lastest", "play", "segs", "hasEnd", "prefix", "at", "master", "resp"}
    BY <1>1 DEF MediaType
  <1>7. /\ media'.segs = media.segs /\ media'.start = media.start /\ media'.lastest = media.lastest
        /\ media'.play = media.play /\ media'.prefix = prefix /\ media'.at = at /\ media'.master = FALSE
    BY <1>1, <1>3, <1>6
  <1>8. media' \in MediaType
    <2>1. <<>> \in Seq(Nat)
      OBVIOUS
    <2> QED
      BY <1>1, <1>3, <1>5, <2>1 DEF MediaType
  <1>9. Types'
    BY <1>8 DEF Inv, Types, ReadStreams
  <1>10. Known' /\ Plays' /\ Numbered' /\ RightPlace'
    BY <1>7 DEF Inv, Known, Plays, Numbered, NextNumber, Ordered, RightPlace, Fits, Base, Place, ReadStreams
  <1>11. Prefix'
    <2>1. UNCHANGED origin
      BY DEF ReadStreams
    <2> QED
      BY <1>1, <1>4, <1>5, <1>7, <2>1 DEF Prefix, Fits, Base, Place
  <1> QED
    BY <1>9, <1>10, <1>11 DEF Inv

\* Reading the list again renumbers nothing, unless it says so in breaks.
LEMMA ReadInv ==
  ASSUME Inv, handle_read
  PROVE  Inv'
  <1> DEFINE p == parse_m3u8(media)
  <1>1. /\ media \in MediaType /\ origin \in Origin /\ UNCHANGED <<origin, left>> /\ ~media.master
        /\ media.start \in Nat
    BY DEF Inv, Types, handle_read, MediaType
  <1>2. /\ p \in MediaType
        /\ p.st = media.st /\ p.play = media.play /\ p.prefix = media.prefix /\ p.at = media.at
        /\ p.master = media.master /\ p.resp = media.resp
        /\ media.segs # <<>> => p.segs # <<>>
        /\ p.segs = <<>> => p.start = 0
        /\ p.play > 0 => p.play < NextNumber(p)
        /\ p.play > 0 /\ media.start # 0 /\ media.lastest <= media.play => p.lastest <= p.play
        /\ Breaks(media) = {} /\ (media.segs # <<>> => Ordered(media)) => Ordered(p)
        /\ media.start # 0 => p.start = media.start
        /\ p.lastest <= origin.lo
    <2> HIDE DEF p
    <2>1. /\ media.segs = <<>> => media.start = 0 /\ media.play = 0
          /\ media.play > 0 => media.play < NextNumber(media)
          /\ media.lastest <= origin.lo
      BY DEF Inv, Known, Plays
    <2> QED
      BY <1>1, <2>1, ParseFacts DEF p
  <1>3. /\ media' = [p EXCEPT !.st = IF Again(p) THEN "timer" ELSE "idle", !.resp = p.resp /\ ~Opens(p)]
        /\ source' = [source EXCEPT !.open = source.open \/ Opens(p)]
        /\ before' = [base |-> IF before.base = -1 /\ p.segs # <<>> THEN p.start ELSE before.base,
                      breaks |-> before.breaks \union Breaks(media)]
    BY DEF handle_read
  <1> HIDE DEF p
  <1>4. DOMAIN p = {"st", "start", "lastest", "play", "segs", "hasEnd", "prefix", "at", "master", "resp"}
    BY <1>2 DEF MediaType
  <1>5. /\ media'.segs = p.segs /\ media'.start = p.start /\ media'.lastest = p.lastest
        /\ media'.play = p.play /\ media'.prefix = p.prefix /\ media'.at = p.at /\ media'.master = p.master
    BY <1>3, <1>4
  <1>6. media' \in MediaType
    <2>1. p.resp \in BOOLEAN
      BY <1>2 DEF MediaType
    <2> DEFINE st   == IF Again(p) THEN "timer" ELSE "idle"
               resp == p.resp /\ ~Opens(p)
    <2>2. st \in {"timer", "idle"} /\ resp \in BOOLEAN /\ media' = [p EXCEPT !.st = st, !.resp = resp]
      BY <1>3, <2>1
    <2> HIDE DEF st, resp
    <2> QED
      BY <1>2, <2>2 DEF MediaType
  <1>7. /\ before'.breaks = before.breaks \union Breaks(media)
        /\ before'.base = IF before.base = -1 /\ p.segs # <<>> THEN p.start ELSE before.base
    BY <1>3
  <1>8. /\ source' \in SourceType
        /\ source'.url = source.url /\ (source'.open => source.open \/ p.segs # <<>>)
    <2>1. source \in SourceType
      BY DEF Inv, Types
    <2> DEFINE open == source.open \/ Opens(p)
    <2>2. open \in BOOLEAN /\ (open => source.open \/ p.segs # <<>>) /\ source' = [source EXCEPT !.open = open]
      BY <1>3, <2>1 DEF Opens
    <2> HIDE DEF open
    <2> QED
      BY <2>1, <2>2 DEF SourceType
  <1>9. Types'
    <2>1. p.start \in Nat
      BY <1>2 DEF MediaType
    <2>2. before.base \in Nat \union {-1} /\ before.breaks \in SUBSET {"gap", "anew"}
      BY DEF Inv, Types
    <2>3. Breaks(media) \subseteq {"gap", "anew"}
      BY DEF Breaks
    <2>4. before' \in [base : Nat \union {-1}, breaks : SUBSET {"gap", "anew"}]
      BY <1>3, <2>1, <2>2, <2>3
    <2> QED
      BY <1>1, <1>6, <1>8, <2>4 DEF Inv, Types
  <1>10. Known'
    <2>1. p.start \in Nat
      BY <1>2 DEF MediaType
    <2>2. p.segs = <<>> <=> before'.base = -1
      BY <1>2, <1>7, <2>1 DEF Inv, Known
    <2>3. p.segs = <<>> => p.start = 0 /\ p.play = 0
      BY <1>2 DEF Inv, Known
    <2>4. source'.open => p.segs # <<>>
      BY <1>2, <1>8 DEF Inv, Known
    <2> QED
      BY <1>1, <1>2, <1>5, <2>2, <2>3, <2>4 DEF Known
  <1>11. Plays'
    <2>1. p.play > 0 /\ "anew" \notin before'.breaks => media.start # 0 /\ media.lastest <= media.play
      <3>1. ASSUME p.play > 0, "anew" \notin before'.breaks
            PROVE  media.start # 0 /\ media.lastest <= media.play
        <4>1. media.play > 0 /\ media.segs # <<>>
          BY <1>2, <3>1 DEF Inv, Known
        <4>2. "anew" \notin Breaks(media) /\ "anew" \notin before.breaks
          BY <1>7, <3>1
        <4> QED
          BY <4>1, <4>2 DEF Inv, Plays, Breaks
      <3> QED
        BY <3>1
    <2> QED
      BY <1>2, <1>5, <2>1 DEF Plays, NextNumber
  <1>12. Numbered'
    <2>1. SUFFICES ASSUME before'.breaks = {}, p.segs # <<>>
                   PROVE  p.start = before'.base /\ Ordered(p)
      BY <1>5 DEF Numbered, Ordered
    <2>2. Breaks(media) = {} /\ before.breaks = {}
      BY <1>7, <2>1
    <2>3. media.segs # <<>> => media.start # 0 /\ Ordered(media) /\ media.start = before.base
      BY <2>2 DEF Breaks, Inv, Numbered
    <2>4. Ordered(p)
      BY <1>2, <2>2, <2>3
    <2>5. media.segs # <<>> => before.base # -1
      BY DEF Inv, Known
    <2>6. media.segs = <<>> => before.base = -1
      BY DEF Inv, Known
    <2> QED
      BY <1>2, <1>7, <2>1, <2>3, <2>4, <2>5, <2>6
  <1>13. Prefix' /\ RightPlace'
    BY <1>1, <1>2, <1>5, <1>8 DEF Inv, Prefix, RightPlace, Fits, Base, Place
  <1> QED
    BY <1>9, <1>10, <1>11, <1>12, <1>13 DEF Inv

\* A segment that the list has is played, and its url put after the right place.
LEMMA RequestInv ==
  ASSUME Inv, NEW k \in Segments, request(k)
  PROVE  Inv'
  <1>1. /\ media \in MediaType /\ origin \in Origin /\ UNCHANGED <<origin, left, before>>
        /\ source \in SourceType
        /\ source' = [source EXCEPT !.task = [seg |-> k], !.url = segment_url(media, k)]
        /\ media' = Played(media, k)
    BY DEF Inv, Types, request
  <1>2. media.segs \in Seq(Nat) /\ media.start \in Nat /\ media.lastest \in Nat /\ k \in Nat
    <2>1. k \in Nat
      BY SegmentsAreNumbers
    <2> QED
      BY <1>1, <2>1 DEF MediaType
  <1>2a. media.prefix \in {"unset", "here", "there", "host", ""} /\ media.at \in {"here", "there"}
    BY <1>1 DEF MediaType
  <1> DEFINE prefix == complete_url(media, origin.kind)
  <1>3. CASE ~Has(media, k)
    <2>1. media' = media /\ source' = [source EXCEPT !.task = [seg |-> k], !.url = NoUrl]
      BY <1>1, <1>3 DEF Played, segment_url
    <2>2. /\ source' \in SourceType
          /\ source'.open = source.open /\ source'.url = NoUrl
      <3>1. k \in Segments \union {-1}
        OBVIOUS
      <3> QED
        BY <1>1, <2>1, <3>1, NoUrlType, SourceFields
    <2>3. Types'
      BY <1>1, <2>1, <2>2 DEF Inv, Types
    <2>4. Known' /\ Plays' /\ Numbered' /\ Prefix' /\ RightPlace'
      BY <1>1, <2>1, <2>2 DEF Inv, Known, Plays, Numbered, NextNumber, Ordered, Prefix, RightPlace, Fits, Base, Place
    <2> QED
      BY <2>3, <2>4 DEF Inv
  <1>4. CASE Has(media, k)
    <2>1. /\ k + media.start \in Nat /\ media.lastest <= k + media.start
          /\ k + media.start < media.lastest + Len(media.segs) /\ Len(media.segs) \in Nat
      <3>1. Len(media.segs) \in Nat
        BY <1>2
      <3>2. k + media.start \in media.lastest .. media.lastest + Len(media.segs) - 1
        BY <1>2, <1>4, <3>1 DEF Has, NextNumber
      <3> QED
        BY <1>2, <3>1, <3>2
    <2>2. media.segs # <<>> /\ ~media.master
      <3>1. Len(<<>>) = 0
        OBVIOUS
      <3>2. media.segs # <<>>
        BY <1>2, <2>1, <3>1
      <3> QED
        BY <3>2 DEF Inv, Prefix
    <2>3. /\ prefix \in {"", "host", "here", "there"}
          /\ origin.streams = "none" => prefix = Base(origin.kind, "here")
          /\ Fits(origin.streams, origin.kind) => prefix = Base(origin.kind, Place(origin))
      <3>1. prefix = IF media.prefix = "unset" THEN Base(origin.kind, media.at) ELSE media.prefix
        BY <2>2 DEF complete_url
      <3>2. Place(origin) \in {"here", "there"}
        BY DEF Place
      <3>3. Base(origin.kind, Place(origin)) # "unset" /\ Base(origin.kind, media.at) \in {"", "host", "here", "there"}
        BY <1>2a, <3>2, BaseType
      <3>4. /\ origin.streams = "none" =>
                 media.at = "here" /\ media.prefix \in {"unset", Base(origin.kind, "here")}
            /\ Fits(origin.streams, origin.kind) => media.prefix = Base(origin.kind, Place(origin))
        BY <2>2 DEF Inv, Prefix
      <3> QED
        BY <1>2a, <3>1, <3>3, <3>4
    <2>4. media' = [media EXCEPT !.play = k + media.start, !.prefix = prefix]
      BY <1>1, <1>4 DEF Played
    <2> DEFINE number == media.segs[k + media.start - media.lastest + 1]
               url    == [number |-> number, base |-> prefix]
    <2>5. number \in Nat
      <3>1. \A a, b, l \in Nat : b <= a /\ a < b + l => a - b + 1 \in 1 .. l
        OBVIOUS
      <3>2. k + media.start - media.lastest + 1 \in 1 .. Len(media.segs)
        BY <1>2, <2>1, <3>1, SMTT(30)
      <3> HIDE DEF prefix
      <3> DEFINE at == k + media.start - media.lastest + 1
      <3>3. at \in 1 .. Len(media.segs)
        BY <3>2
      <3>4. number = media.segs[at]
        OBVIOUS
      <3> HIDE DEF at, number
      <3> QED
        BY <1>2, <3>3, <3>4
    <2>6. url \in UrlType /\ url.base = prefix /\ source' = [source EXCEPT !.task = [seg |-> k], !.url = url]
      BY <1>1, <1>4, <2>3, <2>5 DEF UrlType, segment_url
    <2> HIDE DEF prefix, url
    <2>7. /\ source' \in SourceType
          /\ source'.open = source.open /\ source'.url = url
      <3>1. k \in Segments \union {-1}
        OBVIOUS
      <3> QED
        BY <1>1, <2>6, <3>1, SourceFields
    <2>8. DOMAIN media = {"st", "start", "lastest", "play", "segs", "hasEnd", "prefix", "at", "master", "resp"}
      BY <1>1 DEF MediaType
    <2>9. /\ media'.segs = media.segs /\ media'.start = media.start /\ media'.lastest = media.lastest
          /\ media'.play = k + media.start /\ media'.prefix = prefix /\ media'.at = media.at
          /\ media'.master = media.master
      BY <2>4, <2>8
    <2>10. media' \in MediaType
      BY <1>1, <2>1, <2>3, <2>4 DEF MediaType
    <2>11. Types'
      BY <1>1, <2>7, <2>10 DEF Inv, Types
    <2>12. Known' /\ Numbered'
      BY <1>1, <2>2, <2>7, <2>9 DEF Inv, Known, Numbered, Ordered
    <2>13. Plays'
      BY <2>1, <2>9 DEF Plays, NextNumber
    <2>14. Prefix'
      BY <1>1, <2>2, <2>3, <2>9 DEF Inv, Prefix, Fits, Base, Place
    <2>15. RightPlace'
      <3>1. origin.streams = "none" => Place(origin) = "here"
        BY DEF Place
      <3>2. url.base = prefix
        BY <2>6
      <3> QED
        BY <1>1, <2>3, <2>7, <3>1, <3>2 DEF RightPlace, Fits, Base, Place
    <2> QED
      BY <2>11, <2>12, <2>13, <2>14, <2>15 DEF Inv
  <1> QED
    BY <1>3, <1>4

\* The list at the origin moves on: nothing that is known of it goes back.
LEMMA MovesInv ==
  ASSUME Inv, Grow \/ End
  PROVE  Inv'
  <1>1. origin \in Origin /\ UNCHANGED <<media, source, left, before>>
    BY DEF Inv, Types, Grow, End
  <1>2. origin.lo \in Nat /\ origin.hi \in Nat
    BY <1>1 DEF Origin
  <1>3. /\ origin' \in Origin /\ origin'.streams = origin.streams /\ origin'.kind = origin.kind
        /\ origin'.lo >= origin.lo
    <2>1. CASE Grow
      <3> DEFINE lo == IF origin.hi - origin.lo < Size THEN origin.lo ELSE origin.lo + 1
                 hi == origin.hi + 1
      <3>1. lo \in Nat /\ lo >= origin.lo /\ hi \in Nat
        BY <1>2
      <3>2. origin' = [origin EXCEPT !.hi = hi, !.lo = lo]
        BY <2>1 DEF Grow
      <3> HIDE DEF lo, hi
      <3>3. origin' \in Origin
        BY <1>1, <3>1, <3>2 DEF Origin
      <3>4. origin'.streams = origin.streams /\ origin'.kind = origin.kind /\ origin'.lo = lo
        BY <1>1, <3>2 DEF Origin
      <3> QED
        BY <2>1, <3>1, <3>3, <3>4
    <2>2. CASE End
      <3>1. origin' = [origin EXCEPT !.end = TRUE]
        BY <2>2 DEF End
      <3> QED
        <4>1. origin' \in Origin
          BY <1>1, <3>1 DEF Origin
        <4>2. origin'.streams = origin.streams /\ origin'.kind = origin.kind /\ origin'.lo = origin.lo
          BY <1>1, <3>1 DEF Origin
        <4> QED
          BY <1>2, <4>1, <4>2
    <2> QED
      BY <2>1, <2>2
  <1>4. Types'
    BY <1>1, <1>3 DEF Inv, Types
  <1>5. Known'
    <2>1. media.lastest \in Nat /\ origin'.lo \in Nat
      BY <1>1, <1>3 DEF Inv, Types, MediaType, Origin
    <2>2. media.lastest <= origin'.lo
      BY <1>2, <1>3, <2>1 DEF Inv, Known
    <2> QED
      BY <1>1, <2>2 DEF Inv, Known
  <1>6. Plays' /\ Numbered' /\ Prefix' /\ RightPlace'
    BY <1>1, <1>3 DEF Inv, Plays, Numbered, NextNumber, Ordered, Prefix, RightPlace, Fits, Base, Place
  <1> QED
    BY <1>4, <1>5, <1>6 DEF Inv

\* Every step keeps the invariant.
LEMMA NextInv ==
  ASSUME Inv, [Next]_vars
  PROVE  Inv'
  <1>1. CASE UNCHANGED vars
    BY <1>1 DEF vars, Inv, Types, Known, Plays, Numbered, NextNumber, Ordered, Prefix, RightPlace, Fits, Base, Place
  <1>2. CASE Next
    BY <1>2, StandsInv, ReadStreamsInv, ReadInv, RequestInv, MovesInv DEF Next
  <1> QED
    BY <1>1, <1>2

-----------------------------------------------------------------------------
(* What follows *)

\* Segment k of the list is the k-th of what it was opened with.
LEMMA InvInOrder == Inv => InOrder
  <1> SUFFICES ASSUME Inv, before.breaks = {}, NEW k \in Segments, Has(media, k)
               PROVE  segment_url(media, k).number = before.base + k
    BY DEF InOrder
  <1>1. media.segs \in Seq(Nat) /\ media.start \in Nat /\ media.lastest \in Nat /\ k \in Nat
    BY SegmentsAreNumbers DEF Inv, Types, MediaType
  <1>2. k + media.start - media.lastest + 1 \in 1 .. Len(media.segs) /\ Len(media.segs) \in Nat
    <2> DEFINE n == Len(media.segs)
               a == media.start
               b == media.lastest
    <2>1. n \in Nat /\ a \in Nat /\ b \in Nat /\ k \in Nat
      BY <1>1
    <2>2. NextNumber(media) = b + n
      BY DEF NextNumber
    <2>3. k + a \in b .. b + n - 1
      BY <2>1, <2>2 DEF Has
    <2> HIDE DEF n, a, b
    <2>4. k + a - b + 1 \in 1 .. n
      BY <2>1, <2>3
    <2> QED
      BY <2>1, <2>4 DEF n, a, b
  <1>3. media.segs # <<>>
    <2>1. Len(<<>>) = 0
      OBVIOUS
    <2> QED
      BY <1>2, <2>1
  <1>4. media.start = before.base /\ Ordered(media)
    BY <1>3 DEF Inv, Numbered
  <1>5. media.segs[k + media.start - media.lastest + 1] = media.lastest + (k + media.start - media.lastest + 1) - 1
    BY <1>1, <1>2, <1>4 DEF Ordered
  <1>6. media.lastest + (k + media.start - media.lastest + 1) - 1 = media.start + k
    BY <1>1
  <1> QED
    BY <1>4, <1>5, <1>6 DEF segment_url

\* The invariant of the runs follows.
LEMMA InvListInv == Inv => ListInv
  <1> SUFFICES ASSUME Inv PROVE ListInv
    OBVIOUS
  <1>1. media \in MediaType /\ media.play \in Nat /\ media.lastest \in Nat /\ media.segs \in Seq(Nat)
    BY DEF Inv, Types, MediaType
  <1>2. TypeOK
    <2>1. before.base \in Nat \union {-1} /\ (source.open => before.base # -1)
      BY DEF Inv, Types, Known
    <2>2. source.open => before.base >= 0
      BY <2>1
    <2>3. source.task.seg \in Segments \union {-1} /\ source.url.number \in {-1} \union Nat /\ source.open \in BOOLEAN
      <3>1. source \in SourceType
        BY DEF Inv, Types
      <3>2. source.task \in [seg : Segments \union {-1}] /\ source.url \in UrlType /\ source.open \in BOOLEAN
        BY <3>1 DEF SourceType
      <3>3. source.url.number \in Nat \union {-1}
        BY <3>2 DEF UrlType
      <3> QED
        BY <3>2, <3>3
    <2>4. /\ media.st \in {"opening", "reading", "timer", "idle", "failed"} /\ media.start \in Nat
          /\ {media.hasEnd, media.master, media.resp} \subseteq BOOLEAN
          /\ media.prefix \in {"unset", "here", "there", "host", ""}
      BY <1>1 DEF MediaType
    <2>5. left \in 0 .. MaxTrouble
      BY DEF Inv, Types
    <2> QED
      BY <1>1, <2>2, <2>3, <2>4, <2>5 DEF TypeOK
  <1>3. PlayedStays
    <2>1. Len(media.segs) \in Nat
      BY <1>1
    <2> QED
      BY <1>1, <2>1 DEF Inv, Plays, PlayedStays, NextNumber
  <1> QED
    BY <1>2, <1>3, InvInOrder DEF ListInv, Inv

\* Whatever the origin does to its list, a segment keeps its number, what is played stays
\* in the list, and its url is put after the place it is relative to (M3u8Media.cpp:279,
\* :346, :373).
THEOREM ListKeepsItsNumbers == Spec => []ListInv
  <1>1. Init => Inv
    BY InitInv
  <1>2. Inv /\ [Next]_vars => Inv'
    BY NextInv
  <1>3. Inv => ListInv
    BY InvListInv
  <1> QED
    BY <1>1, <1>2, <1>3, PTL DEF Spec

-----------------------------------------------------------------------------
(* Folds *)

\* A set of naturals has a least member, by induction on the numbers below one.
LEMMA Smallest ==
  ASSUME NEW T, T \subseteq Nat, T # {}
  PROVE  \E x \in T : \A y \in T : x <= y
  <1>1. PICK x \in T : \A y \in T : ~ (<<y, x>> \in OpToRel(<, Nat))
    BY NatLessThanWellFounded, WFMin
  <1>2. \A y \in T : ~ (y < x)
    BY <1>1 DEF OpToRel
  <1> QED
    BY <1>2

\* What holds of 0, and of each number up to m if of the one before it, holds of m.
LEMMA Climbs ==
  ASSUME NEW m \in Nat, NEW T, 0 \in T, \A i \in 1 .. m : i - 1 \in T => i \in T
  PROVE  \A i \in 0 .. m : i \in T
  <1> DEFINE Bad == {k \in Nat : k <= m /\ k \notin T}
  <1> SUFFICES ASSUME Bad # {} PROVE FALSE
    OBVIOUS
  <1>1. PICK k \in Bad : \A j \in Bad : k <= j
    <2>1. Bad \subseteq Nat
      OBVIOUS
    <2> HIDE DEF Bad
    <2> QED
      BY <2>1, Smallest
  <1>2. k \in Nat /\ k <= m /\ k \notin T /\ k # 0
    OBVIOUS
  <1>3. k - 1 \in Nat /\ k - 1 <= m /\ ~(k <= k - 1) /\ k \in 1 .. m
    BY <1>2
  <1>4. k - 1 \in T
    BY <1>1, <1>3
  <1> QED
    BY <1>2, <1>3, <1>4

\* The last of the numbers up to i, and of a set of them.
LEMMA MaxFacts ==
  /\ \A n \in Nat \ {0} : Max(1 .. n) = n
  /\ \A n \in Nat : \A s \in SUBSET (1 .. n) : n \in s => Max(s) = n
  <1>1. ASSUME NEW n \in Nat, NEW s \in SUBSET (1 .. n), n \in s
        PROVE  Max(s) = n
    <2>1. \A y \in s : n >= y
      OBVIOUS
    <2>2. \E x \in s : \A y \in s : x >= y
      BY <1>1, <2>1
    <2>3. Max(s) \in s /\ \A y \in s : Max(s) >= y
      BY <2>2 DEF Max
    <2>4. \A x \in s : x >= n /\ n >= x => x = n
      OBVIOUS
    <2>5. Max(s) >= n /\ n >= Max(s)
      BY <1>1, <2>1, <2>3, Zenon
    <2> QED
      BY <2>3, <2>4, <2>5, Zenon
  <1>2. \A n \in Nat \ {0} : Max(1 .. n) = n
    <2> SUFFICES ASSUME NEW n \in Nat \ {0} PROVE Max(1 .. n) = n
      OBVIOUS
    <2>1. n \in 1 .. n /\ 1 .. n \in SUBSET (1 .. n)
      OBVIOUS
    <2> QED
      BY <1>1, <2>1
  <1> QED
    BY <1>1, <1>2

\* A set of numbers up to n that is not empty has a greatest.
LEMMA MaxOfSome ==
  ASSUME NEW n \in Nat, NEW s \in SUBSET (1 .. n), s # {}
  PROVE  Max(s) \in s /\ \A y \in s : Max(s) >= y
  <1> DEFINE U == {k \in Nat : n - k \in s}
  <1>1. U \subseteq Nat /\ U # {}
    <2>1. PICK y \in s : TRUE
      OBVIOUS
    <2>2. n - y \in Nat /\ n - (n - y) = y
      OBVIOUS
    <2> QED
      BY <2>2
  <1>2. PICK k \in U : \A j \in U : k <= j
    <2> HIDE DEF U
    <2> QED
      BY <1>1, Smallest
  <1>3. \A y \in s : n - k >= y
    <2> SUFFICES ASSUME NEW y \in s PROVE n - k >= y
      OBVIOUS
    <2>1. n - y \in Nat /\ n - (n - y) = y /\ y \in Nat
      OBVIOUS
    <2>2. k <= n - y
      BY <1>2, <2>1
    <2> QED
      BY <2>1, <2>2
  <1>4. \E x \in s : \A y \in s : x >= y
    BY <1>2, <1>3
  <1> QED
    BY <1>4 DEF Max

\* g folds the members of each set of numbers up to m with step, the greatest last.
Folded(g, b, m, step) ==
  g = [s \in SUBSET (1 .. m) |-> IF s = {} THEN b ELSE step[<<g[s \ {Max(s)}], Max(s)>>]]

\* A fold over the sets of the numbers up to m, by their greatest: there is such a function,
\* as each is made for the sets of the numbers up to n from one for those up to n - 1.
LEMMA FoldExists ==
  ASSUME NEW W, NEW b \in W, NEW m \in Nat, NEW step \in [W \X (1 .. m) -> W]
  PROVE  \E g \in [SUBSET (1 .. m) -> W] : Folded(g, b, m, step)
  <1> DEFINE Folds(g, n) == \A s \in SUBSET (1 .. n) :
               g[s] = IF s = {} THEN b ELSE step[<<g[s \ {Max(s)}], Max(s)>>]
             T == {n \in 0 .. m : \E g \in [SUBSET (1 .. m) -> W] : Folds(g, n)}
  <1>1. 0 \in T
    <2> DEFINE g == [s \in SUBSET (1 .. m) |-> b]
    <2>1. g \in [SUBSET (1 .. m) -> W]
      OBVIOUS
    <2>2. \A s \in SUBSET (1 .. 0) : s = {} /\ s \in SUBSET (1 .. m)
      OBVIOUS
    <2>3. Folds(g, 0)
      BY <2>2
    <2> HIDE DEF g, Folds
    <2> QED
      BY <2>1, <2>3
  <1>2. ASSUME NEW n \in 1 .. m, n - 1 \in T PROVE n \in T
    <2> HIDE DEF Folds
    <2>1. PICK f \in [SUBSET (1 .. m) -> W] : Folds(f, n - 1)
      BY <1>2
    <2> DEFINE g == [s \in SUBSET (1 .. m) |-> IF n \in s THEN step[<<f[s \ {n}], n>>] ELSE f[s]]
    <2>2. g \in [SUBSET (1 .. m) -> W]
      <3> SUFFICES ASSUME NEW s \in SUBSET (1 .. m) PROVE (IF n \in s THEN step[<<f[s \ {n}], n>>] ELSE f[s]) \in W
        OBVIOUS
      <3>1. s \ {n} \in SUBSET (1 .. m) /\ n \in 1 .. m
        OBVIOUS
      <3>2. f[s \ {n}] \in W /\ f[s] \in W
        BY <2>1, <3>1
      <3>3. <<f[s \ {n}], n>> \in W \X (1 .. m)
        BY <3>1, <3>2
      <3> QED
        BY <3>2, <3>3
    <2>3. ASSUME NEW s \in SUBSET (1 .. n)
          PROVE  g[s] = IF s = {} THEN b ELSE step[<<g[s \ {Max(s)}], Max(s)>>]
      <3>1. s \in SUBSET (1 .. m) /\ n \in Nat
        OBVIOUS
      <3>2. CASE n \in s
        <4>1. Max(s) = n
          BY <3>1, <3>2, MaxFacts
        <4>2. s \ {n} \in SUBSET (1 .. m) /\ n \notin s \ {n} /\ s # {}
          BY <3>1, <3>2
        <4>3. g[s \ {n}] = f[s \ {n}]
          BY <4>2
        <4>4. g[s] = step[<<f[s \ {n}], n>>]
          BY <3>1, <3>2
        <4> QED
          BY <4>1, <4>2, <4>3, <4>4
      <3>3. CASE n \notin s
        <4>1. s \in SUBSET (1 .. n - 1)
          BY <3>1, <3>3
        <4>2. g[s] = f[s]
          BY <3>1, <3>3
        <4>3. f[s] = IF s = {} THEN b ELSE step[<<f[s \ {Max(s)}], Max(s)>>]
          BY <2>1, <4>1 DEF Folds
        <4>4. s \ {Max(s)} \in SUBSET (1 .. m) /\ n \notin s \ {Max(s)}
          BY <3>1, <3>3
        <4>5. g[s \ {Max(s)}] = f[s \ {Max(s)}]
          BY <4>4
        <4> QED
          BY <4>2, <4>3, <4>5
      <3> QED
        BY <3>2, <3>3
    <2> HIDE DEF g
    <2>4. Folds(g, n)
      BY <2>3 DEF Folds
    <2>5. n \in 0 .. m
      OBVIOUS
    <2> QED
      BY <2>2, <2>4, <2>5
  <1>3. m \in T
    <2> HIDE DEF T
    <2>1. \A i \in 0 .. m : i \in T
      BY <1>1, <1>2, Climbs
    <2> QED
      BY <2>1
  <1>4. PICK g \in [SUBSET (1 .. m) -> W] : Folds(g, m)
    <2> HIDE DEF Folds
    <2> QED
      BY <1>3
  <1>5. g = [s \in SUBSET (1 .. m) |-> IF s = {} THEN b ELSE step[<<g[s \ {Max(s)}], Max(s)>>]]
    BY <1>4
  <1> QED
    BY <1>5 DEF Folded

\* The numbers up to i, without their greatest.
LEMMA UpTo ==
  ASSUME NEW m \in Nat, NEW i \in 1 .. m
  PROVE  /\ 1 .. i \in SUBSET (1 .. m) /\ 1 .. i # {}
         /\ Max(1 .. i) = i /\ (1 .. i) \ {i} = 1 .. i - 1
  <1>1. i \in Nat \ {0}
    OBVIOUS
  <1>2. Max(1 .. i) = i
    BY <1>1, MaxFacts
  <1>3. 1 .. i \in SUBSET (1 .. m) /\ 1 .. i # {} /\ (1 .. i) \ {i} = 1 .. i - 1
    OBVIOUS
  <1> QED
    BY <1>2, <1>3

-----------------------------------------------------------------------------
(* The lengths that M3u8Protocol writes *)

\* P holds the sums of the first members of a sequence, up to the m-th.
Sums(P, q, m) == P[0] = 0 /\ \A i \in 1 .. m : P[i] = P[i - 1] + q[i]

\* FoldLeft(+, 0, q) is the last of the sums.
LEMMA SumExists ==
  ASSUME NEW q \in Seq(Nat)
  PROVE  \E P \in [0 .. Len(q) -> Nat] : Sums(P, q, Len(q)) /\ FoldLeft(+, 0, q) = P[Len(q)]
  <1> DEFINE m == Len(q)
             step == [w \in Nat \X (1 .. m) |-> w[1] + q[w[2]]]
             Body(h) == [s \in SUBSET DOMAIN q |-> IF s = {} THEN 0 ELSE h[s \ {Max(s)}] + q[Max(s)]]
             Made(h) == [s \in SUBSET (1 .. m) |-> IF s = {} THEN 0 ELSE step[<<h[s \ {Max(s)}], Max(s)>>]]
  <1>1. m \in Nat /\ DOMAIN q = 1 .. m /\ \A i \in 1 .. m : q[i] \in Nat
    OBVIOUS
  <1>2. step \in [Nat \X (1 .. m) -> Nat]
    BY <1>1
  <1>3. ASSUME NEW x \in Nat, NEW i \in 1 .. m PROVE step[<<x, i>>] = x + q[i]
    OBVIOUS
  <1>4. FoldLeft(+, 0, q) = (CHOOSE h : h = Body(h))[DOMAIN q]
    BY DEF FoldLeft, MapThenFoldSet
  <1> HIDE DEF m, step
  <1>5. ASSUME NEW h \in [SUBSET (1 .. m) -> Nat] PROVE Made(h) = Body(h)
    <2> SUFFICES ASSUME NEW s \in SUBSET (1 .. m), s # {}
                 PROVE  step[<<h[s \ {Max(s)}], Max(s)>>] = h[s \ {Max(s)}] + q[Max(s)]
      BY <1>1
    <2>1. Max(s) \in s
      BY <1>1, MaxOfSome
    <2>2. s \ {Max(s)} \in SUBSET (1 .. m)
      OBVIOUS
    <2>3. h[s \ {Max(s)}] \in Nat
      BY <2>2
    <2>4. Max(s) \in 1 .. m
      BY <2>1
    <2> QED
      BY <1>3, <2>3, <2>4
  <1>6. PICK g \in [SUBSET (1 .. m) -> Nat] : g = Made(g)
    <2>1. 0 \in Nat
      OBVIOUS
    <2>2. m \in Nat
      BY <1>1
    <2>3. \E g \in [SUBSET (1 .. m) -> Nat] : Folded(g, 0, m, step)
      BY <1>2, <2>1, <2>2, FoldExists
    <2> QED
      BY <2>3 DEF Folded
  <1> DEFINE c == CHOOSE h : h = Body(h)
  <1>7. c = Body(c)
    <2>1. g = Body(g)
      BY <1>5, <1>6
    <2> HIDE DEF Body
    <2> QED
      BY <2>1
  <1> HIDE DEF c
  <1>8. \A s \in SUBSET (1 .. m) : c[s] = IF s = {} THEN 0 ELSE c[s \ {Max(s)}] + q[Max(s)]
    BY <1>1, <1>7, Zenon
  <1>9. c[1 .. 0] = 0
    <2>1. 1 .. 0 = {} /\ {} \in SUBSET (1 .. m)
      OBVIOUS
    <2>2. c[{}] = 0
      BY <1>8, <2>1
    <2> QED
      BY <2>1, <2>2
  <1>10. ASSUME NEW i \in 1 .. m PROVE c[1 .. i] = c[1 .. i - 1] + q[i]
    <2>1. 1 .. i \in SUBSET (1 .. m) /\ 1 .. i # {} /\ Max(1 .. i) = i /\ (1 .. i) \ {i} = 1 .. i - 1
      BY <1>1, UpTo
    <2>2. c[1 .. i] = c[(1 .. i) \ {Max(1 .. i)}] + q[Max(1 .. i)]
      BY <1>8, <2>1
    <2> QED
      BY <2>1, <2>2
  <1> DEFINE P == [i \in 0 .. m |-> c[1 .. i]]
             T == {i \in 0 .. m : P[i] \in Nat}
  <1>11. P[0] = 0 /\ \A i \in 1 .. m : P[i] = P[i - 1] + q[i]
    <2>1. 0 \in 0 .. m /\ \A i \in 1 .. m : i \in 0 .. m /\ i - 1 \in 0 .. m
      BY <1>1
    <2> QED
      BY <1>9, <1>10, <2>1
  <1>12. \A i \in 0 .. m : i \in T
    <2> HIDE DEF P
    <2>1. 0 \in T
      BY <1>1, <1>11
    <2>2. ASSUME NEW i \in 1 .. m, i - 1 \in T PROVE i \in T
      BY <1>1, <1>11, <2>2
    <2> HIDE DEF T
    <2> QED
      BY <1>1, <2>1, <2>2, Climbs
  <1>13. P \in [0 .. m -> Nat]
    BY <1>12
  <1>14. FoldLeft(+, 0, q) = P[m]
    <2>1. FoldLeft(+, 0, q) = c[1 .. m]
      BY <1>1, <1>4, Zenon DEF c
    <2>2. m \in 0 .. m
      BY <1>1
    <2> QED
      BY <2>1, <2>2
  <1> HIDE DEF P
  <1> QED
    BY <1>11, <1>13, <1>14 DEF Sums, m

\* The sums of two sequences that begin alike are alike.
LEMMA SumsAgree ==
  ASSUME NEW m \in Nat, NEW P, NEW Q, NEW p, NEW q, Sums(P, p, m), Sums(Q, q, m),
         \A i \in 1 .. m : p[i] = q[i]
  PROVE  P[m] = Q[m]
  <1> DEFINE T == {i \in 0 .. m : P[i] = Q[i]}
  <1>1. 0 \in T
    BY DEF Sums
  <1>2. ASSUME NEW i \in 1 .. m, i - 1 \in T PROVE i \in T
    <2>1. P[i] = P[i - 1] + p[i] /\ Q[i] = Q[i - 1] + q[i] /\ p[i] = q[i] /\ i \in 0 .. m
      BY DEF Sums
    <2>2. P[i - 1] = Q[i - 1]
      BY <1>2
    <2> QED
      BY <2>1, <2>2
  <1>3. \A i \in 0 .. m : i \in T
    <2> HIDE DEF T
    <2> QED
      BY <1>1, <1>2, Climbs
  <1> QED
    BY <1>3

\* The sums of a sequence are the folds of its beginnings.
LEMMA SumFacts ==
  ASSUME NEW q \in Seq(Nat)
  PROVE  \E P \in [0 .. Len(q) -> Nat] :
           Sums(P, q, Len(q)) /\ \A n \in 0 .. Len(q) : EndOf(q, n) = P[n]
  <1>1. PICK P \in [0 .. Len(q) -> Nat] : Sums(P, q, Len(q))
    BY SumExists
  <1>2. ASSUME NEW n \in 0 .. Len(q) PROVE EndOf(q, n) = P[n]
    <2> DEFINE p == SubSeq(q, 1, n)
    <2>1. p \in Seq(Nat) /\ Len(p) = n /\ (\A i \in 1 .. n : p[i] = q[i]) /\ n \in Nat
      OBVIOUS
    <2> HIDE DEF p
    <2>2. PICK Q \in [0 .. Len(p) -> Nat] : Sums(Q, p, Len(p)) /\ FoldLeft(+, 0, p) = Q[Len(p)]
      BY <2>1, SumExists
    <2>3. Sums(Q, p, n)
      BY <2>1, <2>2
    <2>4. Sums(P, q, n)
      <3>1. \A i \in 1 .. n : i \in 1 .. Len(q)
        OBVIOUS
      <3>2. P[0] = 0 /\ \A i \in 1 .. Len(q) : P[i] = P[i - 1] + q[i]
        BY <1>1 DEF Sums
      <3>3. \A i \in 1 .. n : P[i] = P[i - 1] + q[i]
        BY <3>1, <3>2, Zenon
      <3> QED
        BY <3>2, <3>3 DEF Sums
    <2>5. Q[n] = P[n]
      BY <2>1, <2>3, <2>4, SumsAgree
    <2>6. FoldLeft(+, 0, p) = P[n]
      BY <2>1, <2>2, <2>5
    <2> QED
      BY <2>6 DEF p, EndOf
  <1> QED
    BY <1>1, <1>2

\* Numbers below Wrap, and those that went below 0.
LEMMA Unwrapped ==
  ASSUME NEW x \in Nat, x < Wrap
  PROVE  x % Wrap = x /\ (x + Wrap) % Wrap = x
  <1>1. Wrap \in Nat /\ Wrap >= 1
    BY PlaylistAssumption
  <1>2. ASSUME NEW y \in Nat
        PROVE  /\ y \div Wrap \in Nat /\ y % Wrap \in 0 .. Wrap - 1
               /\ y = Wrap * (y \div Wrap) + (y % Wrap)
    BY <1>1
  <1>3. ASSUME NEW q \in Nat, NEW r \in 0 .. Wrap - 1, x = Wrap * q + r PROVE x = r
    <2>1. CASE q = 0
      BY <1>1, <1>3, <2>1
    <2>2. CASE q >= 1
      <3>1. Wrap * q >= Wrap
        BY <1>1, <2>2
      <3> QED
        BY <1>1, <1>3, <3>1
    <2> QED
      BY <2>1, <2>2
  <1>4. x % Wrap = x
    BY <1>2, <1>3
  <1>5. (x + Wrap) % Wrap = x
    <2> DEFINE q == (x + Wrap) \div Wrap
               r == (x + Wrap) % Wrap
    <2>1. q \in Nat /\ r \in 0 .. Wrap - 1 /\ x + Wrap = Wrap * q + r
      BY <1>1, <1>2
    <2> HIDE DEF q, r
    <2>2. CASE q = 0
      BY <1>1, <2>1, <2>2
    <2>3. CASE q >= 1
      <3>1. q - 1 \in Nat /\ Wrap * q = Wrap * (q - 1) + Wrap /\ Wrap * (q - 1) \in Int
        BY <1>1, <2>1, <2>3
      <3>2. x = Wrap * (q - 1) + r
        BY <1>1, <2>1, <3>1
      <3>3. x = r
        BY <1>3, <2>1, <3>1, <3>2
      <3> QED
        BY <3>3 DEF r
    <2> QED
      BY <2>1, <2>2, <2>3
  <1> QED
    BY <1>4, <1>5

\* What append_body has done so far, and what it does with a duration t.
Written == [real : Nat, sum : 0 .. Wrap - 1, lens : Seq(Nat)]
Rest(w, t) == (Ceil(w.real + t) - w.sum + Wrap) % Wrap
Length(w, t) == IF Rest(w, t) = 0 THEN 1 ELSE Rest(w, t)
Write(w, t) ==
  [real |-> w.real + t, sum |-> (w.sum + Length(w, t)) % Wrap, lens |-> Append(w.lens, Length(w, t))]
Unwritten == [real |-> 0, sum |-> 0, lens |-> <<>>]

\* R holds what append_body has done after each of the first durations of d.
Writes(R, d, m) ==
  /\ R[0] = Unwritten /\ \A i \in 1 .. m : R[i] = Write(R[i - 1], d[i])
  /\ \A i \in 0 .. m : R[i] \in Written

\* No duration is below a second, and each end is a number of the program.
Bounded(D, d) == \A i \in 1 .. Len(d) : d[i] >= Second /\ D[i] < Wrap

\* Each length is the end of the segment rounded up less its start rounded up.
RoundsUp(R, D, m) ==
  \A i \in 0 .. m :
    /\ R[i].real = D[i] /\ R[i].sum = Ceil(D[i]) /\ Len(R[i].lens) = i
    /\ \A j \in 1 .. i : R[i].lens[j] = Ceil(D[j]) - Ceil(D[j - 1])

\* A time rounded up to seconds.
LEMMA CeilFacts ==
  /\ \A t \in Nat : Ceil(t) \in Nat /\ Ceil(t) <= t
  /\ Ceil(0) = 0
  /\ \A t \in Nat : \A u \in Nat : Ceil(t) <= Ceil(t + u) /\ (u >= Second => Ceil(t) < Ceil(t + u))
  /\ \A k \in Nat : Ceil(Second * k) = k
  <1>1. Second \in Nat /\ Second >= 1
    BY PlaylistAssumption
  <1>2. ASSUME NEW t \in Nat
        PROVE  Ceil(t) \in Nat /\ Second * Ceil(t) \in Nat /\ Second * Ceil(t) >= t /\ Second * Ceil(t) < t + Second
    <2>1. t + Second - 1 \in Nat
      BY <1>1
    <2> DEFINE u == t + Second - 1
    <2>2. u \in Nat /\ u >= t /\ u < t + Second
      BY <1>1
    <2> HIDE DEF u
    <2>3. u \div Second \in Nat /\ Second * (u \div Second) \in Nat
          /\ Second * (u \div Second) <= u /\ u < Second * (u \div Second) + Second
      BY <1>1, <2>2
    <2>4. Ceil(t) = u \div Second
      BY DEF Ceil, u
    <2>5. u = t + Second - 1
      BY DEF u
    <2> QED
      BY <1>1, <2>2, <2>3, <2>4, <2>5
  <1>3. ASSUME NEW a \in Nat, NEW b \in Nat, Second * a < Second * b PROVE a < b
    BY <1>1, <1>3
  <1>4. ASSUME NEW a \in Nat, NEW b \in Nat, Second * a < Second * b + Second PROVE a <= b
    <2>1. Second * b + Second = Second * (b + 1)
      BY <1>1
    <2> QED
      BY <1>3, <1>4, <2>1
  <1>5. ASSUME NEW t \in Nat, NEW u \in Nat
        PROVE  Ceil(t) <= Ceil(t + u) /\ (u >= Second => Ceil(t) < Ceil(t + u))
    <2> DEFINE a == Ceil(t)
               b == Ceil(t + u)
               p == Second * Ceil(t)
               q == Second * Ceil(t + u)
    <2>1. a \in Nat /\ p \in Nat /\ p >= t /\ p < t + Second
      BY <1>2
    <2>2. b \in Nat /\ q \in Nat /\ q >= t + u /\ q < t + u + Second
      BY <1>2
    <2> HIDE DEF a, b, p, q
    <2>3. p < q + Second /\ (u >= Second => p < q)
      BY <1>1, <2>1, <2>2
    <2>4. p = Second * a /\ q = Second * b
      BY DEF a, b, p, q
    <2>5. a <= b /\ (u >= Second => a < b)
      BY <1>3, <1>4, <2>1, <2>2, <2>3, <2>4
    <2> QED
      BY <2>5 DEF a, b
  <1>6. ASSUME NEW t \in Nat PROVE Ceil(t) <= t
    <2> DEFINE a == Ceil(t)
    <2>1. a \in Nat /\ Second * a < t + Second
      BY <1>2
    <2> HIDE DEF a
    <2>2. a <= t
      <3> SUFFICES ASSUME a >= t + 1 PROVE FALSE
        BY <2>1
      <3>1. Second * a >= Second * (t + 1)
        BY <1>1, <2>1
      <3>2. Second * (t + 1) = Second * t + Second /\ Second * t >= t /\ Second * t \in Nat
        BY <1>1
      <3> QED
        BY <1>1, <2>1, <3>1, <3>2
    <2> QED
      BY <2>2 DEF a
  <1>7. Ceil(0) = 0
    BY <1>6, <1>2
  <1>8. ASSUME NEW k \in Nat PROVE Ceil(Second * k) = k
    <2> DEFINE t == Second * k
               a == Ceil(t)
    <2>1. t \in Nat
      BY <1>1
    <2>2. a \in Nat /\ Second * a >= t /\ Second * a < t + Second
      BY <1>2, <2>1
    <2> HIDE DEF a
    <2>3. a <= k
      BY <1>4, <2>2
    <2>4. k <= a
      <3>1. Second * k < Second * a + Second
        BY <1>1, <2>2
      <3> QED
        BY <1>4, <2>2, <3>1
    <2>5. a = k
      BY <2>2, <2>3, <2>4
    <2> QED
      BY <2>5 DEF a
  <1> QED
    BY <1>2, <1>5, <1>6, <1>7, <1>8

\* What append_body does with a duration.
LEMMA WriteType ==
  ASSUME NEW w \in Written, NEW t \in Nat
  PROVE  /\ Write(w, t) \in Written /\ Length(w, t) \in Nat
         /\ Len(Write(w, t).lens) = Len(w.lens) + 1
         /\ \A j \in 1 .. Len(w.lens) : Write(w, t).lens[j] = w.lens[j]
         /\ Write(w, t).lens[Len(w.lens) + 1] = Length(w, t)
  <1>1. w.real \in Nat /\ w.sum \in 0 .. Wrap - 1 /\ w.lens \in Seq(Nat)
    BY DEF Written
  <1>2. Wrap \in Nat /\ Wrap >= 1
    BY PlaylistAssumption
  <1>3. Ceil(w.real + t) \in Nat
    <2>1. w.real + t \in Nat
      BY <1>1
    <2> QED
      BY <2>1, CeilFacts
  <1>4. Rest(w, t) \in Nat
    BY <1>1, <1>2, <1>3 DEF Rest
  <1>5. Length(w, t) \in Nat
    BY <1>4 DEF Length
  <1>6. (w.sum + Length(w, t)) % Wrap \in 0 .. Wrap - 1
    BY <1>1, <1>2, <1>5
  <1> DEFINE l == Length(w, t)
             s == Append(w.lens, l)
  <1> HIDE DEF l
  <1>7. l \in Nat
    BY <1>5 DEF l
  <1>8. s \in Seq(Nat) /\ Len(s) = Len(w.lens) + 1 /\ s[Len(w.lens) + 1] = l
        /\ \A j \in 1 .. Len(w.lens) : s[j] = w.lens[j]
    BY <1>1, <1>7
  <1> HIDE DEF s
  <1>9. Write(w, t) = [real |-> w.real + t, sum |-> (w.sum + Length(w, t)) % Wrap, lens |-> s]
    BY DEF Write, s, l
  <1>10. w.real + t \in Nat
    BY <1>1
  <1>11. Write(w, t) \in Written /\ Write(w, t).lens = s
    BY <1>6, <1>8, <1>9, <1>10 DEF Written
  <1> QED
    BY <1>5, <1>8, <1>11 DEF l

\* append_body is the last of what is written.
LEMMA WritesExist ==
  ASSUME NEW d \in Seq(Nat)
  PROVE  \E R : Writes(R, d, Len(d)) /\ append_body(d) = R[Len(d)]
  <1> DEFINE m == Len(d)
             step == [w \in Written \X (1 .. m) |-> Write(w[1], d[w[2]])]
             Body(h) == [s \in SUBSET DOMAIN d |->
                           IF s = {} THEN Unwritten ELSE Write(h[s \ {Max(s)}], d[Max(s)])]
             Made(h) == [s \in SUBSET (1 .. m) |->
                           IF s = {} THEN Unwritten ELSE step[<<h[s \ {Max(s)}], Max(s)>>]]
  <1>1. m \in Nat /\ DOMAIN d = 1 .. m /\ \A i \in 1 .. m : d[i] \in Nat
    OBVIOUS
  <1>2. step \in [Written \X (1 .. m) -> Written]
    <2>1. ASSUME NEW w \in Written \X (1 .. m) PROVE Write(w[1], d[w[2]]) \in Written
      BY <1>1, WriteType
    <2> QED
      BY <2>1
  <1>3. ASSUME NEW x \in Written, NEW i \in 1 .. m PROVE step[<<x, i>>] = Write(x, d[i])
    OBVIOUS
  <1>4. append_body(d) = (CHOOSE h : h = Body(h))[DOMAIN d]
    BY DEF append_body, FoldLeft, MapThenFoldSet, Write, Length, Rest, Unwritten
  <1> HIDE DEF m, step
  <1>5. ASSUME NEW h \in [SUBSET (1 .. m) -> Written] PROVE Made(h) = Body(h)
    <2> SUFFICES ASSUME NEW s \in SUBSET (1 .. m), s # {}
                 PROVE  step[<<h[s \ {Max(s)}], Max(s)>>] = Write(h[s \ {Max(s)}], d[Max(s)])
      BY <1>1
    <2>1. Max(s) \in s
      BY <1>1, MaxOfSome
    <2>2. s \ {Max(s)} \in SUBSET (1 .. m)
      OBVIOUS
    <2>3. h[s \ {Max(s)}] \in Written
      BY <2>2
    <2>4. Max(s) \in 1 .. m
      BY <2>1
    <2> QED
      BY <1>3, <2>3, <2>4
  <1>0. Unwritten \in Written
    BY PlaylistAssumption DEF Unwritten, Written
  <1>6. PICK g \in [SUBSET (1 .. m) -> Written] : g = Made(g)
    <2>1. m \in Nat
      BY <1>1
    <2>2. \E g \in [SUBSET (1 .. m) -> Written] : Folded(g, Unwritten, m, step)
      BY <1>0, <1>2, <2>1, FoldExists
    <2> QED
      BY <2>2 DEF Folded
  <1> DEFINE c == CHOOSE h : h = Body(h)
  <1>7. c = Body(c)
    <2>1. g = Body(g)
      BY <1>5, <1>6
    <2> HIDE DEF Body
    <2> QED
      BY <2>1
  <1> HIDE DEF c
  <1>8. \A s \in SUBSET (1 .. m) :
          c[s] = IF s = {} THEN Unwritten ELSE Write(c[s \ {Max(s)}], d[Max(s)])
    BY <1>1, <1>7, Zenon
  <1>9. c[1 .. 0] = Unwritten
    <2>1. 1 .. 0 = {} /\ {} \in SUBSET (1 .. m)
      OBVIOUS
    <2>2. c[{}] = Unwritten
      BY <1>8, <2>1
    <2> QED
      BY <2>1, <2>2
  <1>10. ASSUME NEW i \in 1 .. m PROVE c[1 .. i] = Write(c[1 .. i - 1], d[i])
    <2>1. 1 .. i \in SUBSET (1 .. m) /\ 1 .. i # {} /\ Max(1 .. i) = i /\ (1 .. i) \ {i} = 1 .. i - 1
      BY <1>1, UpTo
    <2>2. c[1 .. i] = Write(c[(1 .. i) \ {Max(1 .. i)}], d[Max(1 .. i)])
      BY <1>8, <2>1
    <2> QED
      BY <2>1, <2>2
  <1> DEFINE R == [i \in 0 .. m |-> c[1 .. i]]
             T == {i \in 0 .. m : R[i] \in Written}
  <1>11. R[0] = Unwritten /\ \A i \in 1 .. m : R[i] = Write(R[i - 1], d[i])
    <2>1. 0 \in 0 .. m /\ \A i \in 1 .. m : i \in 0 .. m /\ i - 1 \in 0 .. m
      BY <1>1
    <2> QED
      BY <1>9, <1>10, <2>1
  <1>12. \A i \in 0 .. m : i \in T
    <2> HIDE DEF R
    <2>1. 0 \in T
      BY <1>0, <1>1, <1>11
    <2>2. ASSUME NEW i \in 1 .. m, i - 1 \in T PROVE i \in T
      <3>1. R[i - 1] \in Written /\ d[i] \in Nat
        BY <1>1, <2>2
      <3>2. Write(R[i - 1], d[i]) \in Written
        BY <3>1, WriteType
      <3> QED
        BY <1>1, <1>11, <3>2
    <2> HIDE DEF T
    <2> QED
      BY <1>1, <2>1, <2>2, Climbs
  <1>13. \A i \in 0 .. m : R[i] \in Written
    <2> HIDE DEF R
    <2> QED
      BY <1>12
  <1>14. append_body(d) = R[m]
    <2>1. append_body(d) = c[1 .. m]
      BY <1>1, <1>4, Zenon DEF c
    <2>2. m \in 0 .. m
      BY <1>1
    <2> QED
      BY <2>1, <2>2
  <1> HIDE DEF R
  <1> QED
    BY <1>11, <1>13, <1>14 DEF Writes, m

\* The lengths that append_body writes are the ends rounded up less the starts rounded up:
\* none is 0, as no duration is below a second, and no difference wraps, as the end of the
\* last segment is a number of the program.
LEMMA WritesRoundUp ==
  ASSUME NEW d \in Seq(Nat), NEW R, Writes(R, d, Len(d)),
         NEW D \in [0 .. Len(d) -> Nat], Sums(D, d, Len(d)), Bounded(D, d)
  PROVE  RoundsUp(R, D, Len(d))
  <1> DEFINE m == Len(d)
             Right(i) == /\ R[i].real = D[i] /\ R[i].sum = Ceil(D[i]) /\ Len(R[i].lens) = i
                         /\ \A j \in 1 .. i : R[i].lens[j] = Ceil(D[j]) - Ceil(D[j - 1])
             T == {i \in 0 .. m : Right(i)}
  <1>1. m \in Nat
    OBVIOUS
  <1>2. R[0] = Unwritten /\ \A i \in 1 .. m : R[i] = Write(R[i - 1], d[i])
    BY DEF Writes
  <1>3. D[0] = 0 /\ \A i \in 1 .. m : D[i] = D[i - 1] + d[i]
    BY DEF Sums
  <1>4. \A i \in 1 .. m : d[i] \in Nat /\ d[i] >= Second /\ D[i] < Wrap
    BY DEF Bounded
  <1>5. \A i \in 0 .. m : R[i] \in Written /\ D[i] \in Nat
    BY DEF Writes
  <1> HIDE DEF m
  <1>6. 0 \in T
    <2>1. R[0].real = 0 /\ R[0].sum = 0 /\ R[0].lens = <<>>
      BY <1>2 DEF Unwritten
    <2>2. Len(R[0].lens) = 0 /\ 1 .. 0 = {} /\ 0 \in 0 .. m
      BY <1>1, <2>1
    <2>3. R[0].real = D[0] /\ R[0].sum = Ceil(D[0])
      BY <1>3, <2>1, CeilFacts
    <2>4. Right(0)
      BY <2>2, <2>3
    <2> HIDE DEF Right
    <2> QED
      BY <2>2, <2>4
  <1>7. ASSUME NEW i \in 1 .. m, i - 1 \in T PROVE i \in T
    <2> DEFINE w == R[i - 1]
               t == d[i]
               a == Ceil(D[i - 1])
               b == Ceil(D[i])
    <2>1. i - 1 \in 0 .. m /\ i \in 0 .. m /\ i \in Nat
      BY <1>1
    <2>2. w \in Written /\ t \in Nat /\ t >= Second /\ D[i] = D[i - 1] + t /\ D[i] < Wrap
          /\ D[i] \in Nat /\ D[i - 1] \in Nat
      BY <1>3, <1>4, <1>5, <2>1
    <2>3. w.real = D[i - 1] /\ w.sum = a /\ Len(w.lens) = i - 1
          /\ \A j \in 1 .. i - 1 : w.lens[j] = Ceil(D[j]) - Ceil(D[j - 1])
      BY <1>7
    <2>4. a \in Nat /\ b \in Nat /\ a < b /\ b < Wrap
      <3>1. a \in Nat /\ b \in Nat /\ b <= D[i]
        BY <2>2, CeilFacts
      <3>2. a < b
        BY <2>2, CeilFacts
      <3> HIDE DEF a, b
      <3> QED
        BY <2>2, <3>1, <3>2, PlaylistAssumption
    <2>5. R[i] = Write(w, t)
      BY <1>2
    <2>6. w.real + t = D[i]
      BY <2>2, <2>3
    <2> HIDE DEF w, t
    <2>7. Rest(w, t) = (b - a + Wrap) % Wrap
      BY <2>3, <2>6 DEF Rest
    <2> HIDE DEF a, b
    <2>8. (b - a + Wrap) % Wrap = b - a
      <3>1. b - a \in Nat /\ b - a < Wrap
        BY <2>4, PlaylistAssumption
      <3> QED
        BY <3>1, Unwrapped
    <2>9. Length(w, t) = b - a
      BY <2>4, <2>7, <2>8 DEF Length
    <2>10. (w.sum + Length(w, t)) % Wrap = b
      <3>1. w.sum + Length(w, t) = b
        BY <2>3, <2>4, <2>9
      <3> QED
        BY <2>4, <3>1, Unwrapped
    <2>11. R[i].real = D[i] /\ R[i].sum = b
      BY <2>5, <2>6, <2>10 DEF Write
    <2>12. /\ Len(R[i].lens) = i
           /\ \A j \in 1 .. i - 1 : R[i].lens[j] = w.lens[j]
           /\ R[i].lens[i] = b - a
      <3>1. /\ Len(Write(w, t).lens) = Len(w.lens) + 1
            /\ \A j \in 1 .. Len(w.lens) : Write(w, t).lens[j] = w.lens[j]
            /\ Write(w, t).lens[Len(w.lens) + 1] = Length(w, t)
        BY <2>2, WriteType
      <3>2. Len(w.lens) = i - 1 /\ i - 1 + 1 = i
        BY <2>1, <2>3
      <3> QED
        BY <2>5, <2>9, <3>1, <3>2
    <2>13. \A j \in 1 .. i : R[i].lens[j] = Ceil(D[j]) - Ceil(D[j - 1])
      <3> SUFFICES ASSUME NEW j \in 1 .. i PROVE R[i].lens[j] = Ceil(D[j]) - Ceil(D[j - 1])
        OBVIOUS
      <3>1. CASE j = i
        BY <2>12, <3>1 DEF a, b
      <3>2. CASE j # i
        <4>1. j \in 1 .. i - 1
          BY <2>1, <3>2
        <4> QED
          BY <2>3, <2>12, <4>1
      <3> QED
        BY <3>1, <3>2
    <2>14. Right(i)
      BY <2>11, <2>12, <2>13 DEF b
    <2> HIDE DEF Right
    <2> QED
      BY <2>1, <2>14
  <1>8. \A i \in 0 .. m : i \in T
    <2> HIDE DEF T
    <2> QED
      BY <1>1, <1>6, <1>7, Climbs
  <1>9. \A i \in 0 .. m : Right(i)
    <2> HIDE DEF Right
    <2> QED
      BY <1>8
  <1> QED
    BY <1>9 DEF m, RoundsUp

\* RoundedUp of a list with the durations d and the lengths l.
Rounded(d, l) ==
  \A n \in DOMAIN d :
    (\A i \in DOMAIN d : d[i] >= Second) =>
      EndOf(l, n) = Ceil(EndOf(d, n))

\* The lengths of segments whose durations are known.
LEMMA BodyRounded ==
  ASSUME NEW d \in Seq(Nat), NEW l, l = append_body(d).lens,
         \A n \in DOMAIN d : EndOf(d, n) < Wrap
  PROVE  Rounded(d, l)
  <1> SUFFICES ASSUME \A i \in DOMAIN d : d[i] >= Second,
                      NEW n \in DOMAIN d
               PROVE  EndOf(l, n) = Ceil(EndOf(d, n))
    BY DEF Rounded
  <1>1. Len(d) \in Nat /\ DOMAIN d = 1 .. Len(d) /\ \A i \in 1 .. Len(d) : i \in 0 .. Len(d)
    OBVIOUS
  <1>2. PICK D \in [0 .. Len(d) -> Nat] :
          Sums(D, d, Len(d)) /\ \A k \in 0 .. Len(d) : EndOf(d, k) = D[k]
    BY SumFacts
  <1>3. PICK R : Writes(R, d, Len(d)) /\ append_body(d) = R[Len(d)]
    BY WritesExist
  <1>4. Bounded(D, d)
    BY <1>1, <1>2 DEF Bounded
  <1>5. /\ Len(R[Len(d)].lens) = Len(d)
        /\ \A j \in 1 .. Len(d) : R[Len(d)].lens[j] = Ceil(D[j]) - Ceil(D[j - 1])
    <2>1. Len(d) \in 0 .. Len(d)
      BY <1>1
    <2>2. RoundsUp(R, D, Len(d))
      BY <1>2, <1>3, <1>4, WritesRoundUp
    <2> QED
      BY <2>1, <2>2 DEF RoundsUp
  <1>6. l \in Seq(Nat) /\ Len(l) = Len(d) /\ \A j \in 1 .. Len(d) : l[j] = Ceil(D[j]) - Ceil(D[j - 1])
    <2>1. R[Len(d)] \in Written /\ l = R[Len(d)].lens
      BY <1>1, <1>3 DEF Writes
    <2>2. l \in Seq(Nat)
      BY <2>1 DEF Written
    <2> QED
      BY <1>5, <2>1, <2>2
  <1>7. PICK L \in [0 .. Len(l) -> Nat] :
          Sums(L, l, Len(l)) /\ \A k \in 0 .. Len(l) : EndOf(l, k) = L[k]
    BY <1>6, SumFacts
  <1> DEFINE T == {i \in 0 .. Len(d) : L[i] = Ceil(D[i])}
  <1>8. 0 \in T
    <2>1. L[0] = 0 /\ D[0] = 0
      BY <1>2, <1>7 DEF Sums
    <2>2. Ceil(0) = 0
      BY CeilFacts
    <2>3. 0 \in 0 .. Len(d)
      BY <1>1
    <2> QED
      BY <2>1, <2>2, <2>3
  <1>9. ASSUME NEW i \in 1 .. Len(d), i - 1 \in T PROVE i \in T
    <2>1. L[i] = L[i - 1] + l[i] /\ l[i] = Ceil(D[i]) - Ceil(D[i - 1]) /\ L[i - 1] = Ceil(D[i - 1])
      BY <1>6, <1>7, <1>9 DEF Sums
    <2>0. i \in 0 .. Len(d) /\ i - 1 \in 0 .. Len(d)
      BY <1>1
    <2>2. D[i] \in Nat /\ D[i - 1] \in Nat
      BY <1>2, <2>0
    <2>3. Ceil(D[i]) \in Nat /\ Ceil(D[i - 1]) \in Nat
      BY <2>2, CeilFacts
    <2>4. L[i] = Ceil(D[i])
      <3> HIDE DEF T
      <3> QED
        BY <2>1, <2>3
    <2> QED
      BY <2>0, <2>4
  <1>10. \A i \in 0 .. Len(d) : i \in T
    <2> HIDE DEF T
    <2> QED
      BY <1>1, <1>8, <1>9, Climbs
  <1>11. n \in 0 .. Len(d) /\ n \in 0 .. Len(l)
    BY <1>1, <1>6
  <1>12. L[n] = Ceil(D[n])
    BY <1>10, <1>11
  <1> QED
    BY <1>2, <1>7, <1>11, <1>12

\* The lengths of segments that are all as long, a number of seconds.
LEMMA IntervalRounded ==
  ASSUME NEW d \in Seq(Nat), d # <<>>, NEW l, l = append_interval(Len(d), d[1]),
         d[1] % Second = 0, \A i \in DOMAIN d : d[i] = d[1]
  PROVE  Rounded(d, l)
  <1> SUFFICES ASSUME NEW n \in DOMAIN d
               PROVE  EndOf(l, n) = Ceil(EndOf(d, n))
    BY DEF Rounded
  <1>1. Len(d) \in Nat /\ DOMAIN d = 1 .. Len(d) /\ (\A i \in 1 .. Len(d) : i \in 0 .. Len(d)) /\ d[1] \in Nat
    OBVIOUS
  <1>0. Second \in Nat /\ Second >= 1
    BY PlaylistAssumption
  <1> DEFINE k == d[1] \div Second
  <1>2. k \in Nat /\ d[1] = Second * k
    BY <1>0, <1>1, SMTT(30)
  <1> HIDE DEF k
  <1>3. l = [i \in 1 .. Len(d) |-> k]
    BY DEF append_interval, k
  <1>4. l \in Seq(Nat) /\ Len(l) = Len(d) /\ \A j \in 1 .. Len(d) : l[j] = k
    BY <1>1, <1>2, <1>3
  <1>5. PICK D \in [0 .. Len(d) -> Nat] :
          Sums(D, d, Len(d)) /\ \A i \in 0 .. Len(d) : EndOf(d, i) = D[i]
    BY SumFacts
  <1>6. PICK L \in [0 .. Len(l) -> Nat] :
          Sums(L, l, Len(l)) /\ \A i \in 0 .. Len(l) : EndOf(l, i) = L[i]
    BY <1>4, SumFacts
  <1> DEFINE T == {i \in 0 .. Len(d) : D[i] = Second * L[i]}
  <1>7. 0 \in T
    BY <1>0, <1>1, <1>5, <1>6 DEF Sums
  <1>13. ASSUME NEW a \in Nat PROVE Second * (a + k) = Second * a + Second * k
    BY <1>0, <1>2
  <1>8. ASSUME NEW i \in 1 .. Len(d), i - 1 \in T PROVE i \in T
    <2>1. D[i] = D[i - 1] + d[i] /\ L[i] = L[i - 1] + l[i]
      BY <1>4, <1>5, <1>6 DEF Sums
    <2>2. d[i] = Second * k /\ l[i] = k
      BY <1>1, <1>2, <1>4
    <2>3. D[i - 1] = Second * L[i - 1]
      BY <1>8
    <2>0. i \in 0 .. Len(d) /\ i - 1 \in 0 .. Len(d)
      BY <1>1
    <2>4. L[i - 1] \in Nat
      BY <1>4, <1>6, <2>0
    <2>5. Second * (L[i - 1] + k) = Second * L[i - 1] + Second * k
      BY <1>13, <2>4
    <2> QED
      BY <2>0, <2>1, <2>2, <2>3, <2>4, <2>5
  <1>9. \A i \in 0 .. Len(d) : i \in T
    <2> HIDE DEF T
    <2> QED
      BY <1>1, <1>7, <1>8, Climbs
  <1>10. n \in 0 .. Len(d) /\ n \in 0 .. Len(l)
    BY <1>1, <1>4
  <1>11. D[n] = Second * L[n] /\ L[n] \in Nat
    BY <1>9, <1>10
  <1>12. L[n] = Ceil(D[n])
    BY <1>11, CeilFacts
  <1> QED
    BY <1>5, <1>6, <1>10, <1>12

\* RoundedUp is that of the list at the origin.
LEMMA RoundedUpIs == RoundedUp <=> Rounded(origin.durations, origin.lens)
  BY DEF RoundedUp, Rounded

\* In a list that is written here RoundedUp holds.
LEMMA WrittenRounded ==
  ASSUME NEW o \in Origin, WrittenHere(o)
  PROVE  Rounded(o.durations, o.lens)
  <1>1. o.durations \in Seq(Nat)
    BY DEF Origin
  <1>2. CASE o.durations = <<>>
    BY <1>2 DEF Rounded
  <1>3. CASE /\ o.lens = append_body(o.durations).lens
             /\ \A n \in DOMAIN o.durations : EndOf(o.durations, n) < Wrap
    BY <1>1, <1>3, BodyRounded
  <1>4. CASE /\ o.durations # <<>>
             /\ o.lens = append_interval(Len(o.durations), o.durations[1])
             /\ o.durations[1] % Second = 0
             /\ \A i \in DOMAIN o.durations : o.durations[i] = o.durations[1]
    BY <1>1, <1>4, IntervalRounded
  <1> QED
    BY <1>2, <1>3, <1>4 DEF WrittenHere

\* No step changes the durations and the lengths of the list at the origin.
LEMMA LengthsStay ==
  ASSUME Inv, [Next]_vars
  PROVE  origin'.durations = origin.durations /\ origin'.lens = origin.lens
  <1>1. origin \in Origin
    BY DEF Inv, Types
  <1>2. CASE Grow
    BY <1>1, <1>2 DEF Grow, Origin
  <1>3. CASE End
    BY <1>1, <1>3 DEF End, Origin
  <1>4. CASE UNCHANGED origin
    BY <1>4
  <1>5. Next => Grow \/ End \/ UNCHANGED origin
    BY DEF Next, handle_open, ReadStreams, handle_read, Fail, handle_timer, request, Fetched, cancel
  <1>6. UNCHANGED vars => UNCHANGED origin
    BY DEF vars
  <1> QED
    BY <1>2, <1>3, <1>4, <1>5, <1>6

\* In every list that is written here the lengths up to a segment are its end rounded up,
\* whatever the durations and however many, as long as none is below a second and their sum
\* is a number of the program (M3u8Protocol.cpp:83).
THEOREM LengthsAreRounded ==
  ASSUME \A o \in Origins : WrittenHere(o)
  PROVE  Spec => []RoundedUp
  <1> DEFINE Holds == Inv /\ Rounded(origin.durations, origin.lens)
  <1>1. Init => Holds
    <2> SUFFICES ASSUME Init PROVE Holds
      OBVIOUS
    <2>1. origin \in Origins
      BY DEF Init
    <2>2. origin \in Origin /\ WrittenHere(origin)
      BY <2>1, OriginsAssumption
    <2>3. Rounded(origin.durations, origin.lens)
      BY <2>2, WrittenRounded
    <2> QED
      BY <2>3, InitInv
  <1>2. Holds /\ [Next]_vars => Holds'
    <2> SUFFICES ASSUME Holds, [Next]_vars PROVE Holds'
      OBVIOUS
    <2>1. origin'.durations = origin.durations /\ origin'.lens = origin.lens
      BY LengthsStay
    <2>2. Inv'
      BY NextInv
    <2>3. Rounded(origin'.durations, origin'.lens)
      BY <2>1
    <2> QED
      BY <2>2, <2>3
  <1>3. Holds => RoundedUp
    BY RoundedUpIs
  <1> QED
    BY <1>1, <1>2, <1>3, PTL DEF Spec
=============================================================================
