----------------------------- MODULE MCPlaylist -----------------------------
EXTENDS Playlist

Live(first, count, ns) ==
  [streams |-> "none", kind |-> "relative", noshift |-> ns, lo |-> first, hi |-> first + count,
   end |-> FALSE, durations |-> <<>>, lens |-> <<>>]

Named(s, k) == [Live(1, 1, FALSE) EXCEPT !.streams = s, !.kind = k, !.end = TRUE]

\* Live lists, whole lists that others name, and those that are written here.
SomeOrigins ==
  {Live(f, c, ns) : f \in 0 .. 2, c \in 0 .. 2, ns \in BOOLEAN}
  \union {Named(s, k) : s \in {"none", "beside", "below", "rooted", "absolute"},
                        k \in {"relative", "rooted", "absolute"}}
  \union {create(TRUE, <<a, b, c>>, 4) : a, b, c \in {0, 4, 5, 7, 9}}
  \union {create(FALSE, <<4, 4>>, 4)}

\* The hypothesis of LengthsAreRounded.
ASSUME OriginsAreWritten == \A o \in SomeOrigins : WrittenHere(o)
=============================================================================
