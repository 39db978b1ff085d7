CONSTANTS
  SegCount = 1
  BPS = 2
  PPB = 2
  Lock = {a, b}
  LockRange <- BlockRanges
  Segments <- OneSize
  LateSizes = {}
  DiskCache = TRUE
  MaxLeft = 2
SPECIFICATION Spec
INVARIANTS FullBlockIsComplete
PROPERTIES ImplementsRangeLock
