SPECIFICATION Spec
CONSTANTS
  Bots = {b1}
  Workers = {w1}
  NoOne = NoOne
  OrderAmount = 4
  Lot = 2
  LotFee = 1
  FailureLimit = 2
  MaxPositions = 2
  MaxCandle = 2
  MaxTriggers = 2
  MaxExits = 2
  MaxRevision = 4
  Faults = {"crash", "error", "timeout", "loss"}
  MaxFaults = 0
SYMMETRY MCSymmetry
INVARIANTS
  TypeOK
  BooksMatchExchange
  ExposureBounded
  InactiveIsQuiet
  StoppedNeverBuys
PROPERTY ImplementsLedger
CHECK_DEADLOCK FALSE
