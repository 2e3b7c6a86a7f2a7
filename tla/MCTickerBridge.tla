--------------------------- MODULE MCTickerBridge ---------------------------
(* Instances of TickerBridge for TLC.                                      *)
EXTENDS TickerBridge, TLC

BridgeSymmetry == Permutations(Consumers) \cup Permutations(Tickers)
=============================================================================
