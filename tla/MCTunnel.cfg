SPECIFICATION Spec
CONSTANTS
  Hosts = {1, 2}
  Rids = {1, 2}
  Wants <- OneWay
  Knows <- Served
  QueueLimit = 16
  Troubles = {"lost", "repeated", "silence", "haste"}
  Restarting = {2}
  MaxTrouble = 2
CHECK_DEADLOCK FALSE
INVARIANTS SessionsInv FaultsHaveCauses
PROPERTIES Fetched Meet
