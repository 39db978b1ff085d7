CONSTANTS
  Size = 3
  Block = {x, y}
  Level = {0, 1}
  Limit = 2
  MaxLru = 3
SPECIFICATION Spec
SYMMETRY BlockSymmetry
INVARIANT PoolInv
PROPERTIES ImplementsLruCache ReclaimLeavesNoIdle
