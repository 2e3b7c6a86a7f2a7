SPECIFICATION Spec
CONSTANTS
  Consumers = {c1, c2, c3}
  Symbols = {eur, gold}
  Tickers = {t1, t2}
  MaxGeneration = 2
  MaxRefcount = 3
  Scope = {"leave", "switch"}
SYMMETRY BridgeSymmetry
INVARIANTS RefcountExact OneAdapterUntilGone Informed
CHECK_DEADLOCK FALSE
