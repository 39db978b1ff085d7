CONSTANTS
  SegCount = 2
  Blocks <- TwoSegments
  Slots = 1
  Total = 2
  BPS = 2
  External = FALSE
  Crashes = TRUE
  ConcurrentLoad = FALSE
SPECIFICATION Spec
INVARIANTS IInv SavedIsOnDisk SavedHasOneEntry
