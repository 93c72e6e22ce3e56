SPECIFICATION FairSpec
CONSTANTS
  Bots = {b1}
  Workers = {w1}
  NoOne = NoOne
  OrderAmount = 1
  Lot = 1
  LotFee = 0
  FailureLimit = 2
  MaxPositions = 1
  MaxCandle = 1
  MaxTriggers = 1
  MaxExits = 6
  MaxRevision = 4
  Faults = {"crash", "error", "timeout"}
  MaxFaults = 2
PROPERTIES
  Reconciled
  StopCompletes
  CloseResolves
CHECK_DEADLOCK FALSE
