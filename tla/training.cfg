SPECIFICATION HistorySpec
CONSTANTS
  eur = eur
  r75 = r75
  Symbols = {eur, r75}
  Underscored = {r75}
  Order <- MCOrder
  Shipped <- MCShipped
  Now = 9
  Markets <- MCMarkets
  TotalNeeded = 6
  PageSize = 4
  ChunkSize = 2
  MaxAttempts = 2
  MaxMessages = 4
  MinRaw = 3
  MaxModels = 4
  NoSymbol = none
  Scopes = {{"late"}, {"use"}}
  Horizon = 1
  MaxFill = 3
  MinLabelled = 4
  NWindows = 2
  MinTrainRows = 1
  MinTestRows = 1
  low = low
  high = high
  Setups <- MCSetups
  Resolvers = {r1, r2}
  OutcomeBatch = 1
  LeastHistory = 1
  MostHistory = 2
  MaxSignals = 2
  MaxCandles = 4
  MaxFailures = 1
INVARIANTS HistoryWhole  ServedWhole  OutcomeIsFirst
PROPERTIES HitIsDecided
CHECK_DEADLOCK FALSE
