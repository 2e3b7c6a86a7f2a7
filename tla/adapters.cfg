SPECIFICATION AdaptersSpec
CONSTANTS
  Callers = {c1, c2}
  Restorer = loop
  Symbols = {eur}
  MaxRequests = 2
  MaxEpoch = 2
  Quotes = {q1, q2}
  Prices = {1, 2, 4}
  Asks = {3}
  Volumes = {2}
  Levels = {100, 350}
  Scale = 100
  Slippage = 1
  InitialBalance = 6
  Engines <- MCEngines
  DefaultStop = 10
  DefaultTarget = 20
  MaxExposure = 50
  MaxDailyLoss = 10
  MaxOpen = 2
  MaxBars = 3
  MaxOrders = 2
INVARIANTS AnswerMatches CashExplained LevelsHold
PROPERTIES  LoopRecovers
CHECK_DEADLOCK FALSE
