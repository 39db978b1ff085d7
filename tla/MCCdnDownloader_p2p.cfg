CONSTANTS
  SegCount = 2
  PPB = 2
  SegLen <- TwoLengths
  Window = 2
  Http = {c}
  Playlist = {}
  Peers = {p}
  PeerSegs <- FirstOnly
  PeerWindow = 2
  KnownMeta = {0}
  SeekTo <- TwoStarts
  DiskCache = TRUE
SPECIFICATION Spec
INVARIANTS TaskHasPieces NothingIsForgotten
