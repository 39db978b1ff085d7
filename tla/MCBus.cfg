SPECIFICATION Spec
CONSTANTS
  Limit = 3
  Second = 2
  TimeWait = 4
  Periods <- SmallPeriods
  Lates = {0, 3}
  FifoLimit = 2
  Capacity = 1
  MaxOwn = 1
CHECK_DEADLOCK FALSE
INVARIANTS SlotsInv TimersKeepUp
PROPERTIES RestIsRespected Sent
