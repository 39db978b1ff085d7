SPECIFICATION Spec
CONSTANTS
  Rids = {1, 2}
  Wanted = {1}
  Lists <- SomeLists
  Trackers = 2
  PeersOf <- SomePeers
  P2pMax = 2
  Chunk = 1
  MaxTrouble = 2
CHECK_DEADLOCK FALSE
INVARIANTS SourcesInv GivesUpLast
PROPERTIES PeersCome Announced
