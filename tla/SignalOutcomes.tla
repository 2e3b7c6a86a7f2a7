--------------------------- MODULE SignalOutcomes ---------------------------
(***************************************************************************)
(* What becomes of the signals: a task of the scheduler compares the       *)
(* candles after a signal with its stop and its target, and writes WIN or  *)
(* LOSS. (tasks.resolve_pending_signal_outcomes)                           *)
(*                                                                         *)
(* One market.  A candle is abstracted to the levels between its low and   *)
(* its high; a price that jumps over a level leaves it in no candle.  Time *)
(* is counted in candles, the last of which is still growing.  A signal is *)
(* identified by its place in the order of creation.                       *)
(*                                                                         *)
(* Every process has a scheduler of its own, both those of runserver       *)
(* included, so that several resolvers can be at work.                     *)
(***************************************************************************)
EXTENDS Naturals, Sequences, FiniteSets

CONSTANTS
  Resolvers,     \* processes with a scheduler
  Setups,        \* bound: the levels of signals, as pairs of stop and target
  OutcomeBatch,  \* signals looked at in a cycle: 200
  LeastHistory,  \* candles asked for at least, 200, ...
  MostHistory,   \* ... and at most, 5000
  MaxSignals,    \* bound: signals in a behaviour
  MaxCandles,    \* bound: candles in a behaviour
  MaxFailures    \* bound: failing writes and processes that end, together

ASSUME OutcomeAssumption ==
  /\ IsFiniteSet(Resolvers) /\ IsFiniteSet(Setups)
  /\ \A s \in Setups : s[1] # s[2]
  /\ OutcomeBatch \in Nat \ {0}
  /\ LeastHistory \in Nat \ {0} /\ MostHistory \in Nat /\ LeastHistory <= MostHistory
  /\ MaxSignals \in Nat /\ MaxCandles \in Nat \ {0} /\ MaxFailures \in Nat

VARIABLES
  tape,     \* the candles of the market, each the levels that it covers
  issued,   \* the rows of TradingSignal, oldest first
  resolver, \* resolver[r]: the rest of its batch and what it is about to write
  failures  \* writes that failed and processes that ended

outcomeVars == <<tape, issued, resolver, failures>>

Levels == {s[1] : s \in Setups} \cup {s[2] : s \in Setups}
Latest == Len(tape)
Rows   == 1..Len(issued)

\* at: the candle of the outcome.  running: history, was it still growing when
\* it was read?
Pending == [outcome |-> "PENDING", at |-> 0, running |-> FALSE]
Verdict == {Pending} \cup [outcome : {"WIN", "LOSS"}, at : 1..MaxCandles, running : BOOLEAN]
Signal  == [stop : Levels, target : Levels, born : 1..MaxCandles, verdict : Verdict]
AtRest  == [todo |-> {}, verdict |-> Pending]

Undecided == {i \in Rows : issued[i].verdict = Pending}

-----------------------------------------------------------------------------
(* The market, and the analyses that issue signals.                        *)

CandleGrows(level) ==
  /\ level \notin tape[Latest]
  /\ tape' = [tape EXCEPT ![Latest] = @ \cup {level}]
  /\ UNCHANGED <<issued, resolver, failures>>

CandleOpens ==
  /\ Latest < MaxCandles
  /\ tape' = Append(tape, {})
  /\ UNCHANGED <<issued, resolver, failures>>

\* born: the candle that runs when the signal is created
Issue(levels) ==
  /\ Len(issued) < MaxSignals
  /\ issued' = Append(issued, [stop |-> levels[1], target |-> levels[2], born |-> Latest, verdict |-> Pending])
  /\ UNCHANGED <<tape, resolver, failures>>

-----------------------------------------------------------------------------
(* The task, one signal after the other.                                   *)

Ahead(i) == {j \in Undecided : j < i}

Fetch(r, batch) ==
  /\ resolver[r] = AtRest /\ Undecided # {}
  /\ resolver' = [resolver EXCEPT ![r].todo = batch]
  /\ UNCHANGED <<tape, issued, failures>>

\* Mutant: the newest signals.
FetchNewest(r) ==
  Fetch(r, {i \in Undecided : Cardinality({j \in Undecided : j > i}) < OutcomeBatch})

\* The oldest undecided signals.
FetchOldest(r) ==
  Fetch(r, {i \in Undecided : Cardinality(Ahead(i)) < OutcomeBatch})

\* The task looks at signal i: the oldest that is left of its batch.
LookingAt(r, i) == i \in resolver[r].todo /\ \A j \in resolver[r].todo : i <= j

Continue(r, i) == resolver' = [resolver EXCEPT ![r] = [todo |-> @.todo \ {i}, verdict |-> Pending]]

\* The first candle of the answer: as many as the signal is old, and two more,
\* within the limits.
FirstAnswered(i) ==
  LET wanted == Latest - issued[i].born + 2
      asked  == IF wanted > MostHistory THEN MostHistory
                ELSE IF wanted < LeastHistory THEN LeastHistory ELSE wanted
  IN  IF Latest > asked THEN Latest - asked + 1 ELSE 1

\* Mutant: a history that begins after the signal will do.
AnyHistory(i) == TRUE

HistoryReaches(i) == FirstAnswered(i) <= issued[i].born

Touches(i, k) == tape[k] \cap {issued[i].stop, issued[i].target} # {}
Hits(i)       == {k \in 1..Latest : k > issued[i].born /\ k >= FirstAnswered(i) /\ Touches(i, k)}

\* In a candle that touches both, the stop counts.
Found(i, k) ==
  [outcome |-> IF issued[i].stop \in tape[k] THEN "LOSS" ELSE "WIN", at |-> k, running |-> k = Latest]

\* The feed answers, with a candle that touches the stop or the target.
Judge(r, i) ==
  /\ LookingAt(r, i) /\ resolver[r].verdict = Pending /\ HistoryReaches(i)
  /\ \E k \in Hits(i) :
       /\ \A j \in Hits(i) : k <= j
       /\ resolver' = [resolver EXCEPT ![r].verdict = Found(i, k)]
  /\ UNCHANGED <<tape, issued, failures>>

\* No candle decides, the history is too short, or the feed does not answer:
\* the signal stays pending.
Leave(r, i) ==
  /\ LookingAt(r, i) /\ resolver[r].verdict = Pending
  /\ Continue(r, i)
  /\ UNCHANGED <<tape, issued, failures>>

\* The row is written as it was decided, whatever it says now.
Save(r, i) ==
  /\ LookingAt(r, i) /\ resolver[r].verdict # Pending
  /\ issued' = [issued EXCEPT ![i].verdict = resolver[r].verdict]
  /\ Continue(r, i)
  /\ UNCHANGED <<tape, failures>>

Failure == failures < MaxFailures /\ failures' = failures + 1

\* The exception is logged, and the next signal is looked at.
SaveFails(r, i) ==
  /\ Failure
  /\ LookingAt(r, i) /\ resolver[r].verdict # Pending
  /\ Continue(r, i)
  /\ UNCHANGED <<tape, issued>>

\* The process ends; another one is started.
Restarts(r) ==
  /\ Failure
  /\ resolver[r] # AtRest
  /\ resolver' = [resolver EXCEPT ![r] = AtRest]
  /\ UNCHANGED <<tape, issued>>

-----------------------------------------------------------------------------
OutcomeInit ==
  /\ tape = <<{}>>
  /\ issued = <<>>
  /\ resolver = [r \in Resolvers |-> AtRest]
  /\ failures = 0

Works(r) == FetchOldest(r) \/ \E i \in Rows : Judge(r, i) \/ Leave(r, i) \/ Save(r, i)

OutcomeNext ==
  \/ \E l \in Levels : CandleGrows(l)
  \/ CandleOpens
  \/ \E s \in Setups : Issue(s)
  \/ \E r \in Resolvers : Works(r) \/ Restarts(r) \/ \E i \in Rows : SaveFails(r, i)

\* The scheduler runs its tasks again and again, and a feed that is asked again and
\* again about a signal answers once.
OutcomeFairness ==
  /\ \A r \in Resolvers : WF_outcomeVars(Works(r))
  /\ \A i \in 1..MaxSignals : SF_outcomeVars(\E r \in Resolvers : i \in Rows /\ Judge(r, i))

OutcomeSpec == OutcomeInit /\ [][OutcomeNext]_outcomeVars /\ OutcomeFairness

-----------------------------------------------------------------------------
OutcomeTypeOK ==
  /\ tape \in Seq(SUBSET Levels) /\ Latest \in 1..MaxCandles
  /\ issued \in Seq(Signal) /\ Len(issued) <= MaxSignals
  /\ resolver \in [Resolvers -> [todo : SUBSET (1..MaxSignals), verdict : Verdict]]
  /\ failures \in 0..MaxFailures

\* The verdict is what the first candle after the signal that touches a level says.
IsFirst(i, verdict) ==
  /\ verdict.at > issued[i].born /\ Touches(i, verdict.at)
  /\ \A k \in (issued[i].born + 1)..(verdict.at - 1) : ~ Touches(i, k)
  /\ verdict.outcome = "LOSS" => issued[i].stop \in tape[verdict.at]
  /\ verdict.outcome = "WIN"  => issued[i].stop \notin tape[verdict.at] \/ verdict.running

\* "Resolve strategy signals only when later market candles hit TP or SL" (tasks.py:351):
\* an outcome is that of the first candle after the signal that touches a level,
\* whatever part of the history was read, by how many schedulers, and however long
\* ago.  The stop comes first in a candle that touches both, unless the candle was
\* read before it did.
OutcomeIsFirst == \A i \in Rows \ Undecided : IsFirst(i, issued[i].verdict)

\* A signal whose stop or target was touched is decided in the end, unless so many
\* older ones are undecided that no cycle comes to it, or the history that the feed
\* gives no longer reaches it.  Failures only delay it.
HitIsDecided ==
  \A i \in 1..MaxSignals :
    (i \in Undecided /\ Hits(i) # {} /\ Cardinality(Ahead(i)) < OutcomeBatch)
      ~> (i \notin Undecided \/ ~ HistoryReaches(i))
=============================================================================
