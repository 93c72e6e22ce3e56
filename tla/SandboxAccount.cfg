SPECIFICATION Spec
CONSTANTS
  Bots = {b1, b2}
  Workers = {w1, w2}
  NoOne = NoOne
  OrderAmount = 1
  Lot = 1
  LotFee = 0
  FailureLimit = 2
  MaxPositions = 1
  MaxCandle = 1
  MaxTriggers = 0
  MaxExits = 1
  MaxRevision = 3
  Faults = {"crash", "timeout", "lockloss"}
  MaxFaults = 1
SYMMETRY MCSymmetry
INVARIANTS
  OneLiveOrder
  SubmittedOnce
  PositionsBounded
CHECK_DEADLOCK FALSE
