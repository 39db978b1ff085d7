CONSTANTS
  Lock = {a, b, c}
  MaxPos = 3
SPECIFICATION LocksSpec
SYMMETRY LockSymmetry
INVARIANT LocksInv
PROPERTIES LockedDataStays ImplementsLockedStore
