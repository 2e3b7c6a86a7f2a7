-------------------------- MODULE MCModelTraining --------------------------
(***************************************************************************)
(* Instances for TLC of the two jobs that read the history of a market     *)
(* long after the analyses: the training of its model, and the outcomes of *)
(* its signals.  They share nothing but the feed, so that TLC looks at one *)
(* at a time.                                                              *)
(***************************************************************************)
EXTENDS ModelTraining, SignalOutcomes

CONSTANTS eur, r75, low, high

VARIABLE job  \* what this behaviour is about

\* (Only one start of the training for the behaviours that do not use it.)
HistoryInit ==
  /\ Init /\ OutcomeInit /\ job \in {"training", "outcomes"}
  /\ job = "outcomes" => market.candles = 7..9 /\ scope = {"use"}

HistoryNext ==
  \/ job = "training" /\ Next /\ UNCHANGED <<outcomeVars, job>>
  \/ job = "outcomes" /\ OutcomeNext /\ UNCHANGED <<vars, job>>

HistorySpec ==
  HistoryInit /\ [][HistoryNext]_<<vars, outcomeVars, job>> /\ OutcomeFairness

MCOrder   == <<eur, r75>>
MCShipped == <<eur, r75>>

\* A full history, a short one, one with a hole that is filled and one too
\* wide, and one with bad prices.
MCMarkets == {[candles |-> 1..9, bad |-> {}],
              [candles |-> 7..9, bad |-> {}],
              [candles |-> {1, 3, 4, 5, 8, 9}, bad |-> {}],
              [candles |-> {1, 6, 7, 8, 9}, bad |-> {}],
              [candles |-> 1..9, bad |-> {4, 9}]}

\* A signal and its mirror image behave alike: one side will do.
MCSetups == {<<low, high>>}
=============================================================================
