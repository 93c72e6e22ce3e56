SPECIFICATION Spec
CONSTANTS
  Alerts = {1, 2, 3}
  Users <- MCUsers
  Assets <- MCAssets
  Evaluators = {e1, e2}
  Requests = {r1, r2}
  Owner <- MCOwner
  AssetOf <- MCAssetOf
  Direction <- MCDirection
  Level <- MCLevel
  Batches <- MCBatches
  Limit = 2
  MaxAge = 0
  MaxSkew = 0
  MaxTime = 1
  MaxRounds = 2
  MaxFaults = 1
  NoAlert = NoAlert
INVARIANTS
  FiresOnce
  LimitKept
PROPERTY NothingMissed
SYMMETRY MCSymmetry
CHECK_DEADLOCK FALSE
