SPECIFICATION Spec
CONSTANTS
  Notices = {n1, n2}
  Users = {ann}
  Recipient <- MCRecipient
  Workers = {w1, w2}
  MaxAttempts = 2
  MaxFaults = 1
  NoNotice = NoNotice
INVARIANTS
  HeldRowStays
  CopiesExplained
  OptOutIsFinal
PROPERTIES
  QueuedMailEnds
  OptOutReturns
CHECK_DEADLOCK FALSE
