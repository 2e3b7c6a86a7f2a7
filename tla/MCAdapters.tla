----------------------------- MODULE MCAdapters -----------------------------
(***************************************************************************)
(* Instances for TLC of the two adapters that get_adapter_for_broker       *)
(* (services/adapter_resolver.py) chooses between, by the mode in which    *)
(* the process was started: the client of Deriv, or the paper broker, in   *)
(* the backtests that are its one use.                                     *)
(***************************************************************************)
EXTENDS DerivAdapter, PaperTrading

VARIABLE mode  \* MARKET_DATA_MODE

\* (Only one start of the account for the behaviours that do not use it.)
AdaptersInit == Init /\ PaperInit /\ mode \in {"live", "mock"} /\ (mode = "live" => engine = NoEngine)

AdaptersNext ==
  \/ mode = "live" /\ Next /\ UNCHANGED <<paperVars, mode>>
  \/ mode = "mock" /\ PaperNext /\ UNCHANGED <<vars, mode>>

AdaptersSpec == AdaptersInit /\ [][AdaptersNext]_<<vars, paperVars, mode>> /\ Fairness

\* The risk engine: absent, with a fixed volume, with a share of the balance, with
\* what is asked for, and with a day's loss above its limit.
MCEngines ==
  {NoEngine}
  \cup {[method |-> m, volume |-> 1, largest |-> 2, daily |-> 0] : m \in {"fixed", "volatility_adjusted", "asked"}}
  \cup {[method |-> "share", volume |-> 20, largest |-> 2, daily |-> 0],
        [method |-> "fixed", volume |-> 1, largest |-> 2, daily |-> -9]}
=============================================================================
