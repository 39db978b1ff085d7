-------------------------- MODULE MCCdnDownloader --------------------------
EXTENDS CdnDownloader

\* A block is two pieces here and a segment of unknown size two blocks.
ThreeLengths == (0 :> 3) @@ (1 :> 2) @@ (2 :> 3)
TwoLengths   == (0 :> 3) @@ (1 :> 2)
NoPeers      == <<>>
FirstOnly    == [p \in Peers |-> {0}]
ThreeStarts  == {0, 4, 8}
TwoStarts    == {0, 4}
=============================================================================
