---------------------------- MODULE TrainingData ----------------------------
(***************************************************************************)
(* From collected candles to the rows a model is trained and tested on     *)
(* (ml/data_cleaner.py, ml/labels.py, ml/dataset.py).                      *)
(*                                                                         *)
(* A candle is its time, counted in bars; a row is the number of its       *)
(* candle.  Prices are abstracted away: what matters of a label is which   *)
(* candles it is made from.                                                *)
(***************************************************************************)
EXTENDS Integers, FiniteSets, FiniteSetsExt

CONSTANTS
  Horizon,      \* bars that a label looks ahead
  MaxFill,      \* missing bars that are filled in: 3
  MinLabelled,  \* min_train_size: 5000
  NWindows,     \* n_windows
  MinTrainRows, \* rows below which a window is dropped: 100
  MinTestRows   \* 50

ASSUME DataAssumption ==
  /\ Horizon \in Nat \ {0} /\ MaxFill \in Nat /\ MinLabelled \in Nat /\ NWindows \in Nat \ {0}
  /\ MinTrainRows \in Nat /\ MinTestRows \in Nat

-----------------------------------------------------------------------------
(* clean_ohlcv *)

\* The bars missing around t between two candles of the set.
Missing(candles, t) ==
  Min({c \in candles : c > t}) - Max({c \in candles : c < t}) - 1

\* Candles with impossible prices go; small gaps are filled by interpolation.
\* (The test for extreme gaps only logs: both its branches keep the candle.)
CleanOhlcv(candles, bad) ==
  LET valid == candles \ bad IN
  IF valid = {} THEN {}
  ELSE valid \cup {t \in Min(valid)..Max(valid) : t \notin valid /\ Missing(valid, t) <= MaxFill}

-----------------------------------------------------------------------------
(* generate_labels: of n candles the last have no future and no label.     *)

Labelled(n) == 1..(n - Horizon)

\* The rows whose closing prices make the label of row i.
Sees(i) == (i + 1)..(i + Horizon)

-----------------------------------------------------------------------------
(* assemble_dataset: 70 : 15 : 15, in the order of time.                   *)

AssembleDataset(n) ==
  LET trainEnd == (70 * n) \div 100
      valEnd   == (85 * n) \div 100
  IN  [train |-> 1..trainEnd, val |-> (trainEnd + 1)..valEnd, test |-> (valEnd + 1)..n]

\* walk_forward_split: blocks one after the other, each with a training part of
\* three quarters and a test part.  0.6 / (0.6 + 0.2) is slightly less than 3/4.
WalkForwardSplit(n) ==
  LET size     == n \div NWindows
      trained  == (3 * size - 1) \div 4
      start(w) == w * size
      end(w)   == start(w) + trained
      Window(w) == [train |-> (start(w) + 1)..end(w), test |-> (end(w) + 1)..(start(w) + size)]
  IN  {Window(w) : w \in {x \in 0..(NWindows - 1) :
         /\ trained < size /\ end(x) < n
         /\ trained >= MinTrainRows /\ size - trained >= MinTestRows}}
=============================================================================
