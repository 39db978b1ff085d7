SPECIFICATION Spec
CONSTANTS
  Origins <- SomeOrigins
  Size = 2
  Numbers = 6
  Behind = 1
  Second = 4
  Wrap = 64
  MaxTrouble = 1
CHECK_DEADLOCK FALSE
INVARIANTS ListInv RoundedUp
PROPERTIES KeepsUp
