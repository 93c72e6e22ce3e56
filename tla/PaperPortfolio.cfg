SPECIFICATION Spec
CONSTANTS
  Scale = 2
  Symbols = {btc, eth}
  ClientIds = {c1, c2, c3}
  InitialAmounts = {7}
  Quantities = {1, 2, 3}
  Prices = {2, 3}
  Fees = {0, 1}
  SettingsChoices <- MCSettings
  DefaultSettings <- MCDefault
  MaxNotional = 100
SYMMETRY MCSymmetry
INVARIANTS
  ReservationsCovered
  LimitsRespected
  NoStrandedBasis
  BooksBalance
