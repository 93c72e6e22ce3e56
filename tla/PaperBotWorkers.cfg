SPECIFICATION BotSpec
CONSTANTS
  Scale = 2
  Symbols = {btc}
  UserIds = {u1}
  ClientIds <- MCClientIds
  InitialAmounts = {5}
  Quantities = {2}
  Prices = {2, 3}
  Fees = {0}
  SettingsChoices <- MCSettings
  DefaultSettings <- MCDefault
  MaxNotional = 100
  Bots = {b1}
  BotSymbol <- MCBotSymbol
  BotAmount = 2
  BotTrades = 1
  BotStopPct = 34
  BotTakePct = 0
  Workers = {w1, w2}
  FailureLimit = 2
  MaxCandle = 2
  MaxRevision = 3
SYMMETRY MCSymmetry
INVARIANTS
  PositionMatchesOrders
  ExitStaysOpen
PROPERTY OnlyRunningBotsTrade
