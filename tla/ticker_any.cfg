SPECIFICATION Spec
CONSTANTS
  Consumers = {c1, c2}
  Symbols = {eur}
  Tickers = {t1, t2}
  MaxGeneration = 2
  MaxRefcount = 2
  Scope = {"leave", "switch", "unsubscribe", "rest", "layer", "exhausted"}
INVARIANTS ConnectingHasTicker
CHECK_DEADLOCK FALSE
