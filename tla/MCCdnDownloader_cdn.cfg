CONSTANTS
  SegCount = 3
  PPB = 2
  SegLen <- ThreeLengths
  Window = 2
  Http = {c, d}
  Playlist = {d}
  Peers = {}
  PeerSegs <- NoPeers
  PeerWindow = 0
  KnownMeta = {0, 2}
  SeekTo <- ThreeStarts
  DiskCache = FALSE
SPECIFICATION FairSpec
INVARIANTS WindowInv NoPieceTwice NothingIsForgotten
PROPERTIES WaitingSinkIsServed
