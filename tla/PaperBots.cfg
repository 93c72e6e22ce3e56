SPECIFICATION BotSpec
CONSTANTS
  Scale = 2
  Symbols = {btc}
  UserIds = {u1, u2, u3}
  ClientIds <- MCClientIds
  InitialAmounts = {4}
  Quantities = {1}
  Prices = {2, 3}
  Fees = {0}
  SettingsChoices <- MCSettings
  DefaultSettings <- MCDefault
  MaxNotional = 100
  Bots = {b1}
  BotSymbol <- MCBotSymbol
  BotAmount = 1
  BotTrades = 1
  BotStopPct = 34
  BotTakePct = 0
  Workers = {w1}
  FailureLimit = 2
  MaxCandle = 1
  MaxRevision = 3
SYMMETRY MCSymmetry
INVARIANTS
  ManagedUnitsCovered
PROPERTY ImplementsPaperLedger
