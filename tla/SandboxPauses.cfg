SPECIFICATION Spec
CONSTANTS
  Bots = {b1}
  Workers = {w1}
  NoOne = NoOne
  OrderAmount = 1
  Lot = 1
  LotFee = 0
  FailureLimit = 5
  MaxPositions = 1
  MaxCandle = 5
  MaxTriggers = 0
  MaxExits = 0
  MaxRevision = 2
  Faults = {}
  MaxFaults = 0
INVARIANT UnfilledPauses
CHECK_DEADLOCK FALSE
