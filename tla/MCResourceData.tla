--------------------------- MODULE MCResourceData ---------------------------
EXTENDS ResourceData, TLC

\* A segment of two blocks, the last one short, and one of a single block.
OneSize   == {(0 :> 3)}
LiveSizes == {(0 :> 2) @@ (1 :> 0)}

Pair(f, t) == [from |-> f, to |-> t]
\* The window of the downloader and the blocks of the caches: whole blocks.
AlignedRanges   == {Pair(0, 4), Pair(2, 8), Pair(2, 4)}
\* The blocks the memory cache locks, and a sink from the middle of the first.
BlockRanges == {Pair(0, 2), Pair(2, 4), Pair(1, 4)}
=============================================================================
