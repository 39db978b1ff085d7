------------------------------ MODULE Playlist ------------------------------
(***************************************************************************)
(* The playlist a CdnSource reads its segments from (cdn/M3u8Media, with   *)
(* cdn/CdnSource), and the one that the HTTP front end writes for players  *)
(* (http/M3u8Protocol).                                                    *)
(*                                                                         *)
(* M3u8Media reads the list again and again while it has no end, keeps the *)
(* segments from the one that was asked last, and gives number k of the    *)
(* resource the url of number seq_start_ + k of the list.  The origin is   *)
(* external: its list moves on while M3u8Media waits, reads or is late.    *)
(* Time is not modelled: the timer runs at any moment, and one that is     *)
(* cancelled, whose handler does not look at the error, is one that runs.  *)
(***************************************************************************)
EXTENDS Integers, SequencesExt

CONSTANTS
  Origins,    \* the lists an origin may start with
  Size,       \* the number of segments a live list shows
  Numbers,    \* bound: the number after the last segment of a live list
  Behind,     \* how many segments before the end m3u8.noshift starts: 3
  Second,     \* the units of a duration in a second: 1000
  Wrap,       \* 2^64
  MaxTrouble  \* bound: how many things go wrong in a behaviour

VARIABLES
  media,      \* M3u8Media
  source,     \* CdnSource: whether m3u8_is_open_, and the request under way
  origin,     \* the list at the origin
  left,       \* how many things may still go wrong
  before      \* what happened on the way, for the properties

vars == <<media, source, origin, left, before>>

NoRequest == [seg |-> -1]
NoUrl     == [number |-> -1, base |-> ""]   \* segment_url failed: the url stays empty

ASSUME PlaylistAssumption ==
  /\ Size \in Nat \ {0} /\ Behind \in Nat /\ Numbers \in Nat
  /\ Second \in Nat \ {0} /\ Wrap \in Nat /\ Wrap > Second /\ MaxTrouble \in Nat

Origin == [streams : {"none", "beside", "below", "rooted", "absolute"},
           kind : {"relative", "rooted", "absolute"}, noshift : BOOLEAN,
           lo : Nat, hi : Nat, end : BOOLEAN, durations : Seq(Nat), lens : Seq(Nat)]

ASSUME OriginsAssumption == Origins \subseteq Origin

Segments == 0 .. Numbers - 1

-----------------------------------------------------------------------------
(* The list that M3u8Protocol writes.                                      *)

Ceil(t) == (t + Second - 1) \div Second

\* Mutant of append_body: each length is rounded up by itself.
append_body_Each(d) == [lens |-> [i \in DOMAIN d |-> Ceil(d[i])]]
\* The lengths in seconds, and their sum, of segments with the durations d: the end of
\* each is rounded up, and none has length 0.  The numbers are unsigned.
append_body(d) ==
  FoldLeft(LAMBDA w, t :
             LET rest == (Ceil(w.real + t) - w.sum + Wrap) % Wrap
                 len  == IF rest = 0 THEN 1 ELSE rest
             IN  [real |-> w.real + t, sum |-> (w.sum + len) % Wrap, lens |-> Append(w.lens, len)],
           [real |-> 0, sum |-> 0, lens |-> <<>>], d)

\* Segments of one interval, when they are not all known.
append_interval(n, interval) == [i \in 1 .. n |-> interval \div Second]

append_head(begin) == begin + 1

\* A list of the segments of a resource that is not live: the urls are absolute, and
\* the numbers start with 1.
create(known, d, interval) ==
  [streams |-> "none", kind |-> "absolute", noshift |-> FALSE,
   lo |-> append_head(0), hi |-> append_head(0) + Len(d), end |-> TRUE, durations |-> d,
   lens |-> IF known THEN append_body(d).lens ELSE append_interval(Len(d), interval)]

-----------------------------------------------------------------------------
(* What M3u8Media does with a list.                                        *)

\* Where the list with the segments is: beside the one that names it, or elsewhere.
Place(o) == IF o.streams \in {"none", "beside"} THEN "here" ELSE "there"

\* What a url of this kind, in a list at that place, has to be put after.
Base(kind, at) == CASE kind = "absolute" -> ""
                    [] kind = "rooted"   -> "host"
                    [] OTHER             -> at

\* The first url that is completed decides for all that follow.
complete_url(m, kind) ==
  IF m.prefix = "unset" THEN Base(kind, IF m.master THEN "here" ELSE m.at) ELSE m.prefix

NextNumber(m) == m.lastest + Len(m.segs)

\* The numbers of the list that are not there already go to the end, each at the place
\* after the one before it.
Appended(m) ==
  LET first == IF origin.lo < NextNumber(m) THEN NextNumber(m) ELSE origin.lo
  IN  [m EXCEPT !.segs = @ \o [i \in 1 .. origin.hi - first |-> first + i - 1]]

\* The list starts with another number than the last one ended before, or the numbers
\* start anew though there are segments.
Breaks(m) ==
  (IF m.segs # <<>> /\ origin.lo > NextNumber(m) /\ m.start # 0 THEN {"gap"} ELSE {})
  \union (IF m.segs # <<>> /\ m.start = 0 THEN {"anew"} ELSE {})

\* parse_m3u8 of a list that names other lists: the first of them is taken.
TakeStream(m) ==
  [m EXCEPT !.prefix = complete_url(m, IF origin.streams \in {"beside", "below"}
                                       THEN "relative" ELSE origin.streams),
            !.at = Place(origin), !.segs = <<>>, !.master = FALSE]

\* Mutant of Keep: what the origin has dropped is dropped.
Keep_Origin(m) == origin.lo
\* The first number to keep: that of the origin's list, or the one played.
Keep(m) == Min({origin.lo, m.play})

\* parse_m3u8 of a list of segments.
parse_m3u8(m) ==
  LET first   == m.start = 0
      started == IF first THEN [m EXCEPT !.start = origin.lo, !.lastest = origin.lo] ELSE m
      read    == Appended(started)
      keep    == Keep(m)
      drop    == IF read.lastest < keep THEN keep - read.lastest ELSE 0
      kept    == [read EXCEPT !.segs = SubSeq(@, drop + 1, Len(@)), !.lastest = @ + drop,
                              !.hasEnd = origin.end]
      shifted == IF ~origin.end /\ first /\ origin.noshift /\ Len(kept.segs) > Behind
                 THEN [kept EXCEPT !.start = @ + Len(kept.segs) - Behind] ELSE kept
  IN  IF read.segs = <<>> THEN [read EXCEPT !.start = 0] ELSE shifted

Has(m, k) == k + m.start \in m.lastest .. NextNumber(m) - 1

\* The url of segment k, and what it is put after.
segment_url(m, k) ==
  IF Has(m, k) THEN [number |-> m.segs[k + m.start - m.lastest + 1],
                     base |-> complete_url(m, origin.kind)]
  ELSE NoUrl

\* It is the place in the list from which nothing is dropped.
Played(m, k) ==
  IF Has(m, k) THEN [m EXCEPT !.play = k + m.start, !.prefix = complete_url(m, origin.kind)] ELSE m

-----------------------------------------------------------------------------
M3u8Media(o) ==
  [st |-> "opening", start |-> 0, lastest |-> 0, play |-> 0, segs |-> <<>>, hasEnd |-> TRUE,
   prefix |-> "unset", at |-> "here", master |-> o.streams # "none", resp |-> TRUE]

\* CdnSource::open has opened the playlist.
Init ==
  /\ origin \in Origins
  /\ media = M3u8Media(origin)
  /\ source = [open |-> FALSE, task |-> NoRequest, url |-> NoUrl]
  /\ left = MaxTrouble
  /\ before = [base |-> -1, breaks |-> {}]

handle_open ==
  /\ media.st = "opening"
  /\ media' = [media EXCEPT !.st = "reading"]
  /\ UNCHANGED <<source, origin, left, before>>

\* A list that names others: the one that was taken is opened at once.
ReadStreams ==
  /\ media.st = "reading" /\ media.master
  /\ media' = [TakeStream(media) EXCEPT !.st = "opening"]
  /\ UNCHANGED <<source, origin, left, before>>

\* Mutant of Again: an empty list is the last.
Again_NotEmpty(m) == m.segs # <<>> /\ ~m.hasEnd
\* The timer is to read the list again.
Again(m) == m.segs = <<>> \/ ~m.hasEnd

\* The answer to async_open.
Opens(m) == media.resp /\ m.segs # <<>>

\* The list was read.  The first with segments opens the source.
handle_read ==
  /\ media.st = "reading" /\ ~media.master
  /\ LET m == parse_m3u8(media)
     IN  /\ media' = [m EXCEPT !.st = IF Again(m) THEN "timer" ELSE "idle",
                               !.resp = @ /\ ~Opens(m)]
         /\ source' = [source EXCEPT !.open = @ \/ Opens(m)]
         /\ before' = [base |-> IF before.base = -1 /\ m.segs # <<>> THEN m.start ELSE before.base,
                       breaks |-> before.breaks \union Breaks(media)]
  /\ UNCHANGED <<origin, left>>

\* The list cannot be opened or read, or is no list: it is never read again.
Fail ==
  /\ media.st \in {"opening", "reading"} /\ left > 0
  /\ media' = [media EXCEPT !.st = "failed", !.resp = FALSE]
  /\ left' = left - 1
  /\ UNCHANGED <<source, origin, before>>

handle_timer ==
  /\ media.st = "timer"
  /\ media' = [media EXCEPT !.st = "opening"]
  /\ UNCHANGED <<source, origin, left, before>>

\* The CdnDownloader gives the source pieces of segment k.
request(k) ==
  /\ source.open \/ source.task = NoRequest
  /\ source' = [source EXCEPT !.task = [seg |-> k], !.url = segment_url(media, k)]
  /\ media' = Played(media, k)
  /\ UNCHANGED <<origin, left, before>>

\* The segment is fetched.  A request that fails is made again as it was, and one
\* without a url does so for ever.
Fetched ==
  /\ source.task # NoRequest /\ source.url # NoUrl
  /\ source.url.base = Base(origin.kind, Place(origin))
  /\ source' = [source EXCEPT !.task = NoRequest, !.url = NoUrl]
  /\ UNCHANGED <<media, origin, left, before>>

\* The segment has left the window.  Reading the list is cancelled too, unless it is
\* done and its handler is on its way.
cancel ==
  /\ source.task # NoRequest /\ left > 0
  /\ source' = [source EXCEPT !.task = NoRequest, !.url = NoUrl]
  /\ media' \in {media} \union
       (IF media.st \in {"opening", "reading"} THEN {[media EXCEPT !.st = "failed"]} ELSE {})
  /\ left' = left - 1
  /\ UNCHANGED <<origin, before>>

\* The list at the origin grows, and loses its first segment when it is full.
Grow ==
  /\ ~origin.end /\ origin.hi < Numbers
  /\ origin' = [origin EXCEPT !.hi = @ + 1,
                              !.lo = IF origin.hi - @ < Size THEN @ ELSE @ + 1]
  /\ UNCHANGED <<media, source, left, before>>

\* The origin stops, and its list has an end.
End ==
  /\ ~origin.end /\ origin.hi > origin.lo
  /\ origin' = [origin EXCEPT !.end = TRUE]
  /\ UNCHANGED <<media, source, left, before>>

Next ==
  \/ handle_open \/ ReadStreams \/ handle_read \/ Fail \/ handle_timer
  \/ \E k \in Segments : request(k)
  \/ Fetched \/ cancel \/ Grow \/ End

\* The io_service runs the handlers that are ready, and the timer.
Reads == handle_open \/ ReadStreams \/ handle_read \/ handle_timer
Fairness == WF_vars(Reads)

Spec == Init /\ [][Next]_vars /\ Fairness

-----------------------------------------------------------------------------
TypeOK ==
  /\ media.st \in {"opening", "reading", "timer", "idle", "failed"}
  /\ media.start \in Nat /\ media.lastest \in Nat /\ media.play \in Nat
  /\ media.segs \in Seq(Nat) /\ {media.hasEnd, media.master, media.resp} \subseteq BOOLEAN
  /\ media.prefix \in {"unset", "here", "there", "host", ""}
  /\ source.open \in BOOLEAN /\ source.task.seg \in Segments \union {-1}
  /\ source.url.number \in {-1} \union Nat
  /\ source.open => before.base >= 0
  /\ left \in 0 .. MaxTrouble

\* Segment k is the k-th after the first the source was opened with, whenever it is asked
\* for: reading the list again, dropping from it and growing it renumbers nothing.  It
\* does when the list has moved on past what is known, and when the first number was 0,
\* which stands for a list that was not read yet (M3u8Media.cpp:279, :323).
InOrder ==
  before.breaks = {} =>
    \A k \in Segments : Has(media, k) => segment_url(media, k).number = before.base + k

\* What was asked for last stays in the list, so that it can be asked for again, and no
\* more is erased from it than there is (M3u8Media.cpp:346).
PlayedStays ==
  "anew" \notin before.breaks /\ media.play > 0 => media.play \in media.lastest .. NextNumber(media) - 1

\* The prefix that the url of a list gives is right for the urls in the list.
Fits(s, k) == <<s, k>> \in {<<"beside", "relative">>, <<"rooted", "rooted">>, <<"absolute", "absolute">>}

\* A url is put after the place it is relative to, but for a list that another list names:
\* the prefix of the first url serves for all that follow (M3u8Media.cpp:373).
RightPlace ==
  source.url # NoUrl /\ (origin.streams = "none" \/ Fits(origin.streams, origin.kind)) =>
    source.url.base = Base(origin.kind, Place(origin))

\* The list as a whole: its numbers, what it keeps and the urls it gives.
ListInv == TypeOK /\ InOrder /\ PlayedStays /\ RightPlace

\* Where the n-th of segments with these durations ends.
EndOf(durations, n) == FoldLeft(+, 0, SubSeq(durations, 1, n))

\* A list whose durations are not given, or one that create writes: of segments that are
\* known and end before the numbers do, or of segments that are all as many whole seconds.
WrittenHere(o) ==
  \/ o.durations = <<>>
  \/ /\ o.lens = append_body(o.durations).lens
     /\ \A n \in DOMAIN o.durations : EndOf(o.durations, n) < Wrap
  \/ /\ o.lens = append_interval(Len(o.durations), o.durations[1])
     /\ o.durations[1] % Second = 0
     /\ \A i \in DOMAIN o.durations : o.durations[i] = o.durations[1]

\* In a list that is written here the lengths up to a segment are its end rounded up, as
\* long as none is shorter than a second (M3u8Protocol.cpp:83).
RoundedUp ==
  \A n \in DOMAIN origin.durations :
    (\A i \in DOMAIN origin.durations : origin.durations[i] >= Second) =>
      EndOf(origin.lens, n) = Ceil(EndOf(origin.durations, n))

\* What the list at the origin has comes to be known and opens the source, unless reading
\* it has failed or was cancelled, which ends it, or the numbers have broken.
KeepsUp ==
  <>[](\/ media.st = "failed" \/ before.breaks # {}
       \/ NextNumber(media) = origin.hi /\ (origin.lo < origin.hi => source.open))
=============================================================================
