SPECIFICATION Spec
CONSTANTS
  Conns = {c1, c2}
  Names = {"a"}
  ResOf <- OneResource
  NSegs = 2
  Pieces = 1
  MaxObj = 2
  MaxAsked = 3
  CanFail = TRUE
CHECK_DEADLOCK FALSE
INVARIANTS SessionsInv FaultsHaveCauses BodyIsItsSegment PendingSinkIsLive
PROPERTY Answered
