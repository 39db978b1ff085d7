CONSTANTS
  SegCount = 2
  BPS = 2
  PPB = 2
  Lock = {a}
  LockRange <- AlignedRanges
  Segments <- LiveSizes
  LateSizes = {1, 3}
  DiskCache = FALSE
  MaxLeft = 2
SPECIFICATION Spec
INVARIANT PiecesInv
PROPERTIES ReadySkipsNoHole ImplementsRangeLock
