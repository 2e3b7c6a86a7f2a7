--------------------------- MODULE HistoryProofs ---------------------------
(***************************************************************************)
(* Theorems on the two jobs that read the history of a market: on the      *)
(* outcomes of signals, for any number of schedulers, signals and candles, *)
(* and any limits of the history; and on the training of models, for any   *)
(* markets, histories, pages and parts of answers.                         *)
(***************************************************************************)
EXTENDS SignalOutcomes, ModelTraining, SequenceTheorems, FiniteSetTheorems, WellFoundedInduction, TLAPS

(* A verdict other than Pending names a candle and an outcome.             *)
LEMMA VerdictTypes ==
  ASSUME NEW v \in Verdict, v # Pending
  PROVE  v.at \in 1..MaxCandles /\ v.running \in BOOLEAN /\ v.outcome \in {"WIN", "LOSS"}
  BY DEF Verdict

(* In the beginning nothing is issued, and every variable has its type.    *)
LEMMA InitTypes == OutcomeInit => OutcomeTypeOK
<1>1. OutcomeInit => tape \in Seq(SUBSET Levels) /\ Latest = 1
  BY DEF OutcomeInit, Latest
<1>2. OutcomeInit => issued \in Seq(Signal) /\ Len(issued) = 0
  BY DEF OutcomeInit
<1>3. OutcomeInit => resolver \in [Resolvers -> [todo : SUBSET (1..MaxSignals), verdict : Verdict]]
  BY DEF OutcomeInit, AtRest, Verdict
<1>4. OutcomeInit => failures \in 0..MaxFailures
  BY OutcomeAssumption DEF OutcomeInit
<1> QED BY <1>1, <1>2, <1>3, <1>4, OutcomeAssumption DEF OutcomeTypeOK

(* What the types say of the candles and of the rows.                      *)
LEMMA TapeFacts ==
  ASSUME OutcomeTypeOK
  PROVE  /\ Latest \in Nat \ {0} /\ DOMAIN tape = 1..Latest
         /\ \A k \in 1..Latest : tape[k] \subseteq Levels
         /\ Rows \subseteq 1..MaxSignals
         /\ \A i \in Rows : issued[i] \in Signal
  BY OutcomeAssumption DEF OutcomeTypeOK, Latest, Rows

(* The parts of a step that a scheduler takes.                             *)
LEMMA ContinueTypes ==
  ASSUME OutcomeTypeOK, NEW r \in Resolvers, NEW i, Continue(r, i)
  PROVE  resolver' \in [Resolvers -> [todo : SUBSET (1..MaxSignals), verdict : Verdict]]
  BY DEF OutcomeTypeOK, Continue, Verdict

(* What a scheduler finds is a verdict, on a candle that the market has.   *)
LEMMA JudgedVerdict ==
  ASSUME OutcomeTypeOK, NEW r \in Resolvers, NEW i \in Rows, Judge(r, i)
  PROVE  \E k \in Hits(i) :
           /\ \A j \in Hits(i) : k <= j
           /\ k \in 1..Latest /\ k \in 1..MaxCandles
           /\ Found(i, k) \in Verdict
           /\ resolver' = [resolver EXCEPT ![r].verdict = Found(i, k)]
<1>1. PICK k \in Hits(i) :
        /\ \A j \in Hits(i) : k <= j
        /\ resolver' = [resolver EXCEPT ![r].verdict = Found(i, k)]
  BY DEF Judge
<1>2. k \in 1..Latest /\ k \in 1..MaxCandles
  BY <1>1, OutcomeAssumption DEF Hits, OutcomeTypeOK
<1>3. Found(i, k) \in Verdict
  BY <1>2 DEF Found, Verdict
<1> QED BY <1>1, <1>2, <1>3

(* No step takes a variable out of its type.                               *)
LEMMA StepTypes == OutcomeTypeOK /\ [OutcomeNext]_outcomeVars => OutcomeTypeOK'
<1> SUFFICES ASSUME OutcomeTypeOK, [OutcomeNext]_outcomeVars PROVE OutcomeTypeOK'
  OBVIOUS
<1> USE OutcomeAssumption
<1>1. ASSUME NEW l \in Levels, CandleGrows(l) PROVE OutcomeTypeOK'
  <2>1. tape' \in Seq(SUBSET Levels) /\ Len(tape') = Len(tape)
    BY <1>1, TapeFacts DEF CandleGrows, OutcomeTypeOK, Latest
  <2> QED BY <1>1, <2>1 DEF CandleGrows, OutcomeTypeOK, Latest
<1>2. CASE CandleOpens
  <2>1. tape' \in Seq(SUBSET Levels) /\ Len(tape') = Len(tape) + 1
    BY <1>2 DEF CandleOpens, OutcomeTypeOK
  <2> QED BY <1>2, <2>1 DEF CandleOpens, OutcomeTypeOK, Latest
<1>3. ASSUME NEW s \in Setups, Issue(s) PROVE OutcomeTypeOK'
  <2>1. [stop |-> s[1], target |-> s[2], born |-> Latest, verdict |-> Pending] \in Signal
    BY DEF Signal, Verdict, Levels, OutcomeTypeOK
  <2>2. issued' \in Seq(Signal) /\ Len(issued') = Len(issued) + 1
    BY <1>3, <2>1 DEF Issue, OutcomeTypeOK
  <2> QED BY <1>3, <2>2 DEF Issue, OutcomeTypeOK, Latest
<1>4. ASSUME NEW r \in Resolvers, FetchOldest(r) PROVE OutcomeTypeOK'
  <2>1. {i \in Undecided : Cardinality(Ahead(i)) < OutcomeBatch} \subseteq 1..MaxSignals
    BY TapeFacts DEF Undecided
  <2> QED BY <1>4, <2>1 DEF FetchOldest, Fetch, OutcomeTypeOK, Latest
<1>5. ASSUME NEW r \in Resolvers, NEW i \in Rows, Judge(r, i) PROVE OutcomeTypeOK'
  <2>1. PICK k : Found(i, k) \in Verdict /\ resolver' = [resolver EXCEPT ![r].verdict = Found(i, k)]
    BY <1>5, JudgedVerdict
  <2>2. resolver' \in [Resolvers -> [todo : SUBSET (1..MaxSignals), verdict : Verdict]]
    BY <2>1 DEF OutcomeTypeOK
  <2> QED BY <1>5, <2>2 DEF Judge, OutcomeTypeOK, Latest
<1>6. ASSUME NEW r \in Resolvers, NEW i \in Rows, Leave(r, i) PROVE OutcomeTypeOK'
  BY <1>6, ContinueTypes DEF Leave, OutcomeTypeOK, Latest
<1>7. ASSUME NEW r \in Resolvers, NEW i \in Rows, Save(r, i) PROVE OutcomeTypeOK'
  <2>1. issued[i] \in Signal /\ resolver[r].verdict \in Verdict
    BY TapeFacts DEF OutcomeTypeOK
  <2>2. [issued[i] EXCEPT !.verdict = resolver[r].verdict] \in Signal
    BY <2>1 DEF Signal
  <2>3. issued' = [issued EXCEPT ![i] = [issued[i] EXCEPT !.verdict = resolver[r].verdict]]
    BY <1>7 DEF Save
  <2>4. issued' \in Seq(Signal) /\ Len(issued') = Len(issued)
    BY <2>2, <2>3 DEF OutcomeTypeOK, Rows
  <2> QED BY <1>7, <2>4, ContinueTypes DEF Save, OutcomeTypeOK, Latest
<1>8. ASSUME NEW r \in Resolvers, NEW i \in Rows, SaveFails(r, i) PROVE OutcomeTypeOK'
  BY <1>8, ContinueTypes DEF SaveFails, Failure, OutcomeTypeOK, Latest
<1>9. ASSUME NEW r \in Resolvers, Restarts(r) PROVE OutcomeTypeOK'
  BY <1>9 DEF Restarts, Failure, OutcomeTypeOK, Latest, AtRest, Verdict
<1>10. CASE UNCHANGED outcomeVars
  BY <1>10 DEF outcomeVars, OutcomeTypeOK, Latest
<1> QED BY <1>1, <1>2, <1>3, <1>4, <1>5, <1>6, <1>7, <1>8, <1>9, <1>10 DEF OutcomeNext, Works

(* Every variable keeps its type. (TradingSignal, and the task over it)    *)
THEOREM OutcomeTypesCorrect == OutcomeSpec => []OutcomeTypeOK
  BY InitTypes, StepTypes, PTL DEF OutcomeSpec

-----------------------------------------------------------------------------
(* A verdict, once it is found, stays that of the first candle: candles    *)
(* that are complete do not change, the last one only covers more levels,  *)
(* and whoever read the last one says so.                                  *)

Touching(t, row, k) == t[k] \cap {row.stop, row.target} # {}

Settled(t, row, v) ==
  /\ v.at > row.born /\ Touching(t, row, v.at)
  /\ \A k \in (row.born + 1)..(v.at - 1) : ~ Touching(t, row, k)
  /\ v.outcome = "LOSS" => row.stop \in t[v.at]
  /\ v.outcome = "WIN"  => row.stop \notin t[v.at] \/ v.running
  /\ v.at <= Len(t) /\ (v.running \/ v.at < Len(t))

(* A history that grows keeps what is settled.                             *)
LEMMA SettledStays ==
  ASSUME NEW t, NEW u, Len(t) \in Nat, Len(u) \in Nat, Len(t) <= Len(u),
         \A k \in 1..(Len(t) - 1) : u[k] = t[k],
         t[Len(t)] \subseteq u[Len(t)],
         NEW row \in Signal, NEW v \in Verdict, v # Pending,
         Settled(t, row, v)
  PROVE  Settled(u, row, v)
<1>1. v.at \in Nat \ {0} /\ row.born \in Nat /\ v.at <= Len(t)
  BY VerdictTypes, OutcomeAssumption DEF Signal, Settled
<1>2. \A k \in (row.born + 1)..(v.at - 1) : u[k] = t[k]
  BY <1>1
<1>3. CASE v.at < Len(t)
  <2>1. u[v.at] = t[v.at]
    BY <1>1, <1>3
  <2> QED BY <1>1, <1>2, <1>3, <2>1 DEF Settled, Touching
<1>4. CASE v.at = Len(t)
  <2>1. v.running /\ t[v.at] \subseteq u[v.at]
    BY <1>1, <1>4 DEF Settled
  <2> QED BY <1>1, <1>2, <1>4, <2>1 DEF Settled, Touching
<1> QED BY <1>1, <1>3, <1>4

(* Only the levels of a row and its birth matter.                          *)
LEMMA SettledByLevels ==
  ASSUME NEW t, NEW row, NEW other, NEW v,
         other.stop = row.stop, other.target = row.target, other.born = row.born,
         Settled(t, row, v)
  PROVE  Settled(t, other, v)
  BY DEF Settled, Touching

(* A history that reaches back to the signal hides no candle after it.     *)
LEMMA FoundIsSettled ==
  ASSUME OutcomeTypeOK, NEW i \in Rows, HistoryReaches(i), NEW k \in Hits(i),
         \A j \in Hits(i) : k <= j
  PROVE  Settled(tape, issued[i], Found(i, k))
<1>1. Latest \in Nat /\ issued[i].born \in Nat /\ Latest = Len(tape)
  BY TapeFacts, OutcomeAssumption DEF Signal, Latest
<1>2. FirstAnswered(i) \in Int
  BY <1>1, OutcomeAssumption DEF FirstAnswered
<1>3. k \in 1..Latest /\ k > issued[i].born /\ Touches(i, k)
  BY DEF Hits
<1>4. ASSUME NEW j \in (issued[i].born + 1)..(k - 1) PROVE ~ Touches(i, j)
  <2>1. j \in 1..Latest /\ j > issued[i].born /\ j < k /\ j >= FirstAnswered(i)
    BY <1>1, <1>2, <1>3 DEF HistoryReaches
  <2> QED BY <1>3, <2>1 DEF Hits
<1>5. Found(i, k).at = k
  BY DEF Found
<1>6. Found(i, k).outcome = IF issued[i].stop \in tape[k] THEN "LOSS" ELSE "WIN"
  BY DEF Found
<1>7. Found(i, k).running \/ k < Len(tape)
  <2>1. k = Latest \/ k < Len(tape)
    BY <1>1, <1>3
  <2>2. Found(i, k).running = (k = Latest)
    BY Zenon DEF Found
  <2> QED BY <2>1, <2>2, Zenon
<1>8. /\ Found(i, k).outcome = "LOSS" => issued[i].stop \in tape[k]
      /\ Found(i, k).outcome = "WIN"  => issued[i].stop \notin tape[k]
  BY <1>6
<1>9. \A j \in (issued[i].born + 1)..(k - 1) : ~ Touching(tape, issued[i], j)
  BY <1>4 DEF Touching, Touches
<1>10. k > issued[i].born /\ k <= Len(tape) /\ Touching(tape, issued[i], k)
  BY <1>1, <1>3 DEF Touching, Touches
<1> QED BY <1>5, <1>7, <1>8, <1>9, <1>10 DEF Settled

-----------------------------------------------------------------------------
(* The invariant: what is written, and what a scheduler is about to write, *)
(* is settled.                                                             *)

WrittenSettled ==
  \A i \in Rows : issued[i].verdict # Pending => Settled(tape, issued[i], issued[i].verdict)

FoundSettled ==
  \A r \in Resolvers :
    /\ resolver[r].todo \subseteq Rows
    /\ resolver[r].verdict # Pending =>
         \A i \in Rows : LookingAt(r, i) => Settled(tape, issued[i], resolver[r].verdict)

OutcomeInv == OutcomeTypeOK /\ WrittenSettled /\ FoundSettled

(* In the beginning nothing is written.                                    *)
LEMMA InitSettled == OutcomeInit => OutcomeInv
<1> SUFFICES ASSUME OutcomeInit PROVE OutcomeInv
  OBVIOUS
<1>1. Rows = {}
  BY DEF OutcomeInit, Rows
<1>2. \A r \in Resolvers : resolver[r].todo = {} /\ resolver[r].verdict = Pending
  BY DEF OutcomeInit, AtRest
<1> QED BY <1>1, <1>2, InitTypes DEF OutcomeInv, WrittenSettled, FoundSettled

(* The market moves: nothing settled is unsettled.                         *)
LEMMA MarketKeeps ==
  ASSUME OutcomeInv, OutcomeTypeOK', UNCHANGED <<issued, resolver>>,
         Len(tape) <= Len(tape'),
         \A k \in 1..(Len(tape) - 1) : tape'[k] = tape[k],
         tape[Len(tape)] \subseteq tape'[Len(tape)]
  PROVE  OutcomeInv'
<1>1. Len(tape) \in Nat /\ Len(tape') \in Nat
  BY DEF OutcomeInv, OutcomeTypeOK
<1>2. \A row \in Signal, v \in Verdict :
        v # Pending /\ Settled(tape, row, v) => Settled(tape', row, v)
  BY <1>1, SettledStays
<1>3. \A i \in Rows : issued[i] \in Signal /\ issued[i].verdict \in Verdict
  BY TapeFacts DEF OutcomeInv, Signal
<1>4. \A r \in Resolvers : resolver[r].verdict \in Verdict
  BY DEF OutcomeInv, OutcomeTypeOK
<1>5. Rows' = Rows /\ \A r, i : LookingAt(r, i)' = LookingAt(r, i)
  BY DEF Rows, LookingAt
<1>6. WrittenSettled'
  BY <1>2, <1>3, <1>5 DEF OutcomeInv, WrittenSettled
<1>7. FoundSettled'
  BY <1>2, <1>3, <1>4, <1>5 DEF OutcomeInv, FoundSettled
<1> QED BY <1>6, <1>7 DEF OutcomeInv

(* A scheduler goes on to its next signal: it is about to write nothing.   *)
LEMMA ContinueKeeps ==
  ASSUME OutcomeInv, NEW r \in Resolvers, NEW i, Continue(r, i), tape' = tape,
         Rows' = Rows,
         \A j \in Rows : /\ issued'[j].stop = issued[j].stop
                         /\ issued'[j].target = issued[j].target
                         /\ issued'[j].born = issued[j].born
  PROVE  FoundSettled'
<1>1. /\ resolver'[r].verdict = Pending
      /\ resolver'[r].todo \subseteq resolver[r].todo
      /\ \A q \in Resolvers \ {r} : resolver'[q] = resolver[q]
  BY DEF Continue, OutcomeInv, OutcomeTypeOK
<1>2. ASSUME NEW q \in Resolvers, resolver'[q].verdict # Pending, NEW j \in Rows, LookingAt(q, j)'
      PROVE  Settled(tape', issued'[j], resolver'[q].verdict)
  <2>1. q # r /\ resolver'[q] = resolver[q] /\ LookingAt(q, j)
    BY <1>1, <1>2 DEF LookingAt
  <2>2. Settled(tape, issued[j], resolver[q].verdict)
    BY <1>2, <2>1 DEF OutcomeInv, FoundSettled
  <2> QED BY <2>1, <2>2, SettledByLevels
<1>3. \A q \in Resolvers : resolver'[q].todo \subseteq Rows'
  BY <1>1 DEF OutcomeInv, FoundSettled
<1> QED BY <1>2, <1>3 DEF FoundSettled

(* Every step keeps the invariant.                                         *)
LEMMA StepSettled == OutcomeInv /\ [OutcomeNext]_outcomeVars => OutcomeInv'
<1> SUFFICES ASSUME OutcomeInv, [OutcomeNext]_outcomeVars PROVE OutcomeInv'
  OBVIOUS
<1>0. OutcomeTypeOK /\ OutcomeTypeOK'
  BY StepTypes DEF OutcomeInv
<1>a. /\ Latest = Len(tape) /\ Latest \in Nat \ {0} /\ tape \in Seq(SUBSET Levels)
      /\ issued \in Seq(Signal) /\ Rows = 1..Len(issued) /\ Len(issued) \in Nat
  BY <1>0, TapeFacts DEF OutcomeTypeOK, Latest, Rows
<1>1. ASSUME NEW l \in Levels, CandleGrows(l) PROVE OutcomeInv'
  <2>1. /\ Len(tape') = Len(tape)
        /\ \A k \in 1..(Len(tape) - 1) : tape'[k] = tape[k]
        /\ tape[Len(tape)] \subseteq tape'[Len(tape)]
    BY <1>1, <1>a DEF CandleGrows
  <2> QED BY <1>0, <1>1, <1>a, <2>1, MarketKeeps DEF CandleGrows
<1>2. CASE CandleOpens
  <2>1. /\ Len(tape') = Len(tape) + 1
        /\ \A k \in 1..Len(tape) : tape'[k] = tape[k]
    BY <1>2, <1>a DEF CandleOpens
  <2> QED BY <1>0, <1>2, <1>a, <2>1, MarketKeeps DEF CandleOpens
<1>3. ASSUME NEW s \in Setups, Issue(s) PROVE OutcomeInv'
  <2>1. /\ Rows' = Rows \cup {Len(issued) + 1}
        /\ \A i \in Rows : issued'[i] = issued[i]
        /\ issued'[Len(issued) + 1].verdict = Pending
        /\ tape' = tape /\ resolver' = resolver
    BY <1>3, <1>a DEF Issue, Rows
  <2>2. WrittenSettled'
    BY <2>1 DEF OutcomeInv, WrittenSettled
  <2>3. \A r \in Resolvers : \A i : LookingAt(r, i)' = LookingAt(r, i) /\ (LookingAt(r, i) => i \in Rows)
    BY <2>1 DEF OutcomeInv, FoundSettled, LookingAt
  <2>4. FoundSettled'
    BY <2>1, <2>3 DEF OutcomeInv, FoundSettled
  <2> QED BY <1>0, <2>2, <2>4 DEF OutcomeInv
<1>4. ASSUME NEW r \in Resolvers, FetchOldest(r) PROVE OutcomeInv'
  <2>1. /\ resolver'[r].todo \subseteq Rows /\ resolver'[r].verdict = Pending
        /\ \A q \in Resolvers \ {r} : resolver'[q] = resolver[q]
        /\ tape' = tape /\ issued' = issued /\ Rows' = Rows
    BY <1>0, <1>4 DEF FetchOldest, Fetch, OutcomeTypeOK, AtRest, Undecided, Rows
  <2>2. FoundSettled'
    BY <2>1 DEF OutcomeInv, FoundSettled, LookingAt
  <2>3. WrittenSettled'
    BY <2>1 DEF OutcomeInv, WrittenSettled
  <2> QED BY <1>0, <2>2, <2>3 DEF OutcomeInv
<1>5. ASSUME NEW r \in Resolvers, NEW i \in Rows, Judge(r, i) PROVE OutcomeInv'
  <2>1. PICK k \in Hits(i) :
          (\A j \in Hits(i) : k <= j) /\ resolver' = [resolver EXCEPT ![r].verdict = Found(i, k)]
    BY <1>0, <1>5, JudgedVerdict
  <2>2. Settled(tape, issued[i], Found(i, k))
    BY <1>0, <1>5, <2>1, FoundIsSettled DEF Judge
  <2>3. /\ resolver'[r].todo = resolver[r].todo /\ resolver'[r].verdict = Found(i, k)
        /\ \A q \in Resolvers \ {r} : resolver'[q] = resolver[q]
        /\ tape' = tape /\ issued' = issued /\ Rows' = Rows
    BY <1>0, <1>5, <2>1 DEF Judge, OutcomeTypeOK, Rows
  <2>4. ASSUME NEW j \in Rows, LookingAt(r, j)' PROVE j = i
    <3>1. i \in resolver[r].todo /\ j \in resolver[r].todo /\ i <= j /\ j <= i
      BY <1>5, <2>3, <2>4 DEF Judge, LookingAt
    <3> QED BY <1>a, <3>1
  <2>5. ASSUME NEW q \in Resolvers, resolver'[q].verdict # Pending, NEW j \in Rows, LookingAt(q, j)'
        PROVE  Settled(tape', issued'[j], resolver'[q].verdict)
    <3>1. CASE q = r
      BY <2>2, <2>3, <2>4, <2>5, <3>1
    <3>2. CASE q # r
      BY <2>3, <2>5, <3>2 DEF OutcomeInv, FoundSettled, LookingAt
    <3> QED BY <3>1, <3>2
  <2>6. \A q \in Resolvers : resolver'[q].todo \subseteq Rows'
    BY <2>3 DEF OutcomeInv, FoundSettled
  <2>7. FoundSettled' /\ WrittenSettled'
    BY <2>3, <2>5, <2>6 DEF OutcomeInv, FoundSettled, WrittenSettled
  <2> QED BY <1>0, <2>7 DEF OutcomeInv
<1>6. ASSUME NEW r \in Resolvers, NEW i \in Rows, Leave(r, i) \/ SaveFails(r, i) PROVE OutcomeInv'
  <2>1. Continue(r, i) /\ tape' = tape /\ issued' = issued /\ Rows' = Rows
    BY <1>6 DEF Leave, SaveFails, Rows
  <2>2. FoundSettled'
    BY <2>1, ContinueKeeps
  <2> QED BY <1>0, <2>1, <2>2 DEF OutcomeInv, WrittenSettled
<1>7. ASSUME NEW r \in Resolvers, NEW i \in Rows, Save(r, i) PROVE OutcomeInv'
  <2>1. /\ Continue(r, i) /\ tape' = tape /\ Rows' = Rows
        /\ issued'[i] = [issued[i] EXCEPT !.verdict = resolver[r].verdict]
        /\ \A j \in Rows \ {i} : issued'[j] = issued[j]
    BY <1>7, <1>a DEF Save, Rows
  <2>2. \A j \in Rows : issued[j] \in Signal
    BY <1>0, TapeFacts
  <2>3. /\ issued'[i].verdict = resolver[r].verdict
        /\ \A j \in Rows : /\ issued'[j].stop = issued[j].stop
                            /\ issued'[j].target = issued[j].target
                            /\ issued'[j].born = issued[j].born
    BY <2>1, <2>2 DEF Signal
  <2>4. FoundSettled'
    BY <2>1, <2>3, ContinueKeeps
  <2>5. Settled(tape, issued[i], resolver[r].verdict)
    BY <1>7 DEF Save, OutcomeInv, FoundSettled
  <2>6. Settled(tape', issued'[i], issued'[i].verdict)
    BY <2>1, <2>3, <2>5, SettledByLevels
  <2>7. WrittenSettled'
    BY <2>1, <2>6 DEF OutcomeInv, WrittenSettled
  <2> QED BY <1>0, <2>4, <2>7 DEF OutcomeInv
<1>8. ASSUME NEW r \in Resolvers, Restarts(r) PROVE OutcomeInv'
  <2>1. /\ resolver'[r].todo = {} /\ resolver'[r].verdict = Pending
        /\ \A q \in Resolvers \ {r} : resolver'[q] = resolver[q]
        /\ tape' = tape /\ issued' = issued /\ Rows' = Rows
    BY <1>0, <1>8 DEF Restarts, OutcomeTypeOK, AtRest, Rows
  <2>2. FoundSettled'
    BY <2>1 DEF OutcomeInv, FoundSettled, LookingAt
  <2>3. WrittenSettled'
    BY <2>1 DEF OutcomeInv, WrittenSettled
  <2> QED BY <1>0, <2>2, <2>3 DEF OutcomeInv
<1>9. CASE UNCHANGED outcomeVars
  BY <1>0, <1>9 DEF outcomeVars, OutcomeInv, WrittenSettled, FoundSettled, LookingAt, Rows
<1> QED BY <1>1, <1>2, <1>3, <1>4, <1>5, <1>6, <1>7, <1>8, <1>9 DEF OutcomeNext, Works

(* What is settled is what the property asks for.                          *)
LEMMA SettledIsFirst == OutcomeInv => OutcomeIsFirst
  BY DEF OutcomeInv, WrittenSettled, OutcomeIsFirst, IsFirst, Undecided, Settled, Touching, Touches

(* An outcome is that of the first candle after the signal that touches    *)
(* one of its levels, whichever part of the history was read, by however   *)
(* many schedulers. (resolve_pending_signal_outcomes)                      *)
THEOREM OutcomesAreFirst == OutcomeSpec => []OutcomeIsFirst
<1>1. OutcomeSpec => []OutcomeInv
  BY InitSettled, StepSettled, PTL DEF OutcomeSpec
<1> QED BY <1>1, SettledIsFirst, PTL

-----------------------------------------------------------------------------
(* A set of numbers that is not empty has a smallest one: of the sets of   *)
(* the numbers below one of them, a smallest is below no other ...         *)
LEMMA LeastExists ==
  ASSUME NEW S \in SUBSET Nat, S # {}
  PROVE  Min(S) \in S /\ \A x \in S : Min(S) <= x
<1>. DEFINE Below(i) == 0..(i - 1)
            Belows   == {Below(i) : i \in S}
<1>1. \A i \in S : Below(i) \in SUBSET Nat /\ IsFiniteSet(Below(i))
  BY FS_Interval
<1>2. Belows \subseteq FiniteSubsetsOf(Nat) /\ Belows # {}
  <2>. HIDE DEF Below
  <2>. QED
    BY <1>1 DEF FiniteSubsetsOf
<1>3. PICK A \in Belows : \A B \in Belows : <<B, A>> \notin StrictSubsetOrdering(Nat)
  <2>. HIDE DEF Belows
  <2>. QED
    BY <1>2, FS_StrictSubsetOrderingWellFounded, WFMin
<1>4. PICK i \in S : A = Below(i)
  OBVIOUS
<1>5. ASSUME NEW j \in S PROVE i <= j
  <2>1. ~ (Below(j) \subseteq Below(i) /\ Below(j) # Below(i))
    <3>. HIDE DEF Below
    <3>1. <<Below(j), Below(i)>> \notin StrictSubsetOrdering(Nat)
      BY <1>3, <1>4
    <3>. QED
      BY <1>1, <3>1 DEF StrictSubsetOrdering
  <2>2. j < i => j \in Below(i) /\ j \notin Below(j) /\ Below(j) \subseteq Below(i)
    OBVIOUS
  <2>. QED
    BY <2>1, <2>2
<1>. QED
  BY <1>5 DEF Min

(* ... and a largest one, if there is a bound.                             *)
LEMMA GreatestExists ==
  ASSUME NEW n \in Nat, NEW S \in SUBSET (0..n), S # {}
  PROVE  Max(S) \in S /\ \A x \in S : x <= Max(S)
<1>. DEFINE T == {n - x : x \in S}
<1>1. T \in SUBSET Nat /\ T # {}
  <2>1. \A x \in S : n - x \in Nat
    OBVIOUS
  <2>. QED
    BY <2>1
<1>2. Min(T) \in T /\ \A y \in T : Min(T) <= y
  BY <1>1, LeastExists
<1>3. PICK m \in S : Min(T) = n - m
  BY <1>2
<1>4. \A x \in S : x <= m
  <2>1. \A x \in S : n - m <= n - x
    BY <1>2, <1>3
  <2>. QED
    BY <2>1
<1>. QED
  BY <1>4 DEF Max

-----------------------------------------------------------------------------
(* Ranks                                                                   *)

(* Candles are finitely many.                                              *)
LEMMA CandlesFinite ==
  ASSUME NEW S \in SUBSET (1..Now)
  PROVE  IsFiniteSet(S) /\ Cardinality(S) \in Nat
<1>1. Now \in Nat
  BY TrainingAssumption
<1>2. IsFiniteSet(1..Now)
  BY <1>1, FS_Interval
<1>. QED
  BY <1>2, FS_Subset, FS_CardinalityType

(* The rank of a candle is below the number of candles.                    *)
LEMMA RankType ==
  ASSUME NEW S \in SUBSET (1..Now), NEW c \in S
  PROVE  /\ IsFiniteSet(S) /\ Cardinality(S) \in Nat
         /\ Rank(S, c) \in 0..(Cardinality(S) - 1)
<1>1. Now \in Nat
  BY TrainingAssumption
<1>2. IsFiniteSet(S) /\ Cardinality(S) \in Nat
  BY CandlesFinite
<1>3. IsFiniteSet(S \ {c}) /\ Cardinality(S \ {c}) = Cardinality(S) - 1
  BY <1>2, FS_RemoveElement
<1>4. {d \in S : d < c} \subseteq S \ {c}
  BY <1>1
<1>5. Cardinality({d \in S : d < c}) <= Cardinality(S) - 1 /\ Cardinality({d \in S : d < c}) \in Nat
  BY <1>3, <1>4, FS_Subset, FS_CardinalityType
<1>. QED
  BY <1>2, <1>5 DEF Rank

(* Ranks are in the order of the candles.                                  *)
LEMMA RankGrows ==
  ASSUME NEW S \in SUBSET (1..Now), NEW c \in S, NEW d \in S, c < d
  PROVE  Rank(S, c) < Rank(S, d)
<1>1. Now \in Nat
  BY TrainingAssumption
<1>. DEFINE C == {x \in S : x < c}
            D == {x \in S : x < d}
<1>2. C \in SUBSET D /\ c \in D /\ c \notin C
  <2>1. c \in Nat /\ d \in Nat /\ \A x \in S : x \in Nat
    BY <1>1
  <2>2. \A x \in C : x \in D
    BY <2>1
  <2>3. c \in D /\ c \notin C
    BY <2>1
  <2>. QED
    BY <2>2, <2>3
<1>5. IsFiniteSet(D)
  BY CandlesFinite
<1>3. IsFiniteSet(C) /\ Cardinality(C) <= Cardinality(D) /\ Cardinality(C) # Cardinality(D)
  BY <1>2, <1>5, FS_Subset
<1>4. Cardinality(C) \in Nat /\ Cardinality(D) \in Nat
  BY <1>5, <1>3, FS_CardinalityType
<1>. QED
  BY <1>3, <1>4 DEF Rank

(* Every rank below the number of candles is that of one of them.          *)
LEMMA RankReached ==
  ASSUME NEW S \in SUBSET (1..Now), NEW r \in Nat, r < Cardinality(S)
  PROVE  \E c \in S : Rank(S, c) = r
<1>. DEFINE T == 0..(Cardinality(S) - 1)
            f == [c \in S |-> Rank(S, c)]
<1>1. Now \in Nat /\ S \subseteq Nat
  BY TrainingAssumption
<1>2. IsFiniteSet(S) /\ Cardinality(S) \in Nat
  BY CandlesFinite
<1>3. f \in [S -> T]
  BY RankType
<1>4. \A c, d \in S : Rank(S, c) = Rank(S, d) => c = d
  <2>. SUFFICES ASSUME NEW c \in S, NEW d \in S, Rank(S, c) = Rank(S, d), c # d PROVE FALSE
    OBVIOUS
  <2>1. c < d \/ d < c
    BY <1>1
  <2>2. Rank(S, c) \in Nat /\ Rank(S, d) \in Nat
    BY <1>2, RankType
  <2>. QED
    BY <2>1, <2>2, RankGrows
<1>5. f \in Injection(S, T)
  BY <1>3, <1>4 DEF Injection, IsInjective
<1>6. IsFiniteSet(T) /\ Cardinality(T) = Cardinality(S)
  <2>1. PICK n \in Int : n = Cardinality(S) - 1
    BY <1>2
  <2>2. IsFiniteSet(0..n) /\ Cardinality(0..n) = IF 0 > n THEN 0 ELSE n - 0 + 1
    BY FS_Interval
  <2>. QED
    BY <1>2, <2>1, <2>2
<1>7. f \in Surjection(S, T)
  <2>. HIDE DEF f, T
  <2>. QED
    BY <1>5, <1>6, FS_Injection
<1>8. r \in T
  BY <1>2
<1>9. \E c \in S : f[c] = r
  <2>. HIDE DEF f, T
  <2>. QED
    BY <1>7, <1>8 DEF Surjection
<1>. QED
  BY <1>9

-----------------------------------------------------------------------------
(* The parts of an answer                                                  *)

(* A quotient is the greatest number that goes into the dividend.          *)
LEMMA Quotient ==
  ASSUME NEW a \in Nat, NEW b \in Nat \ {0}
  PROVE  /\ a \div b \in Nat /\ (a \div b) * b <= a
         /\ \A k \in Nat : k * b <= a => k <= a \div b
<1>1. a \div b \in Nat /\ (a \div b) * b <= a /\ a < (a \div b) * b + b
  OBVIOUS
<1>2. ASSUME NEW k \in Nat, k * b <= a, k > a \div b PROVE FALSE
  <2>1. PICK q \in Nat : q = a \div b /\ a < q * b + b
    BY <1>1
  <2>2. k >= q + 1
    BY <1>2, <2>1
  <2>3. k * b >= (q + 1) * b
    BY <2>2
  <2>. QED
    BY <1>2, <2>1, <2>3
<1>. QED
  BY <1>1, <1>2

(* There is a part at least, every candle is in one, and of an answer that *)
(* has candles no part is empty.                                           *)
LEMMA PartsFacts ==
  ASSUME NEW S \in SUBSET (1..Now)
  PROVE  /\ Parts(S) \in Nat \ {0}
         /\ \A c \in S : Rank(S, c) \div ChunkSize + 1 \in 1..Parts(S)
         /\ S # {} => \A k \in 1..Parts(S) : Piece(S, k) # {}
<1>. DEFINE q == (Cardinality(S) + ChunkSize - 1) \div ChunkSize
<1>1. ChunkSize \in Nat \ {0} /\ Cardinality(S) \in Nat
  BY CandlesFinite, TrainingAssumption
<1>2. Cardinality(S) + ChunkSize - 1 \in Nat
  BY <1>1
<1>3. /\ q \in Nat /\ q * ChunkSize <= Cardinality(S) + ChunkSize - 1
      /\ \A k \in Nat : k * ChunkSize <= Cardinality(S) + ChunkSize - 1 => k <= q
  BY <1>1, <1>2, Quotient
<1>. HIDE DEF q
<1>4. Parts(S) = IF q >= 1 THEN q ELSE 1
  <2>1. Parts(S) = Max({1, q})
    BY DEF Parts, q
  <2>. QED
    BY <1>3, <2>1 DEF Max
<1>5. ASSUME NEW c \in S PROVE Rank(S, c) \div ChunkSize + 1 \in 1..Parts(S)
  <2>1. Rank(S, c) \in Nat /\ Rank(S, c) <= Cardinality(S) - 1
    BY <1>1, RankType
  <2>2. PICK k \in Nat : k = Rank(S, c) \div ChunkSize /\ k * ChunkSize <= Rank(S, c)
    BY <1>1, <2>1, Quotient
  <2>3. (k + 1) * ChunkSize <= Cardinality(S) + ChunkSize - 1
    BY <1>1, <2>1, <2>2
  <2>4. k + 1 <= q
    BY <1>3, <2>3
  <2>. QED
    BY <1>3, <1>4, <2>2, <2>4
<1>6. ASSUME S # {}, NEW k \in 1..Parts(S) PROVE Piece(S, k) # {}
  <2>1. Cardinality(S) > 0
    BY <1>1, <1>6, FS_EmptySet, CandlesFinite
  <2>2. 1 * ChunkSize <= Cardinality(S) + ChunkSize - 1
    BY <1>1, <2>1
  <2>3. k \in Nat /\ k >= 1 /\ k <= q
    BY <1>3, <1>4, <2>2
  <2>4. k * ChunkSize <= q * ChunkSize
    BY <1>1, <1>3, <2>3
  <2>5. PICK r \in Nat : r = (k - 1) * ChunkSize /\ r <= Cardinality(S) - 1
    BY <1>1, <1>3, <2>3, <2>4
  <2>6. PICK c \in S : Rank(S, c) = r
    BY <1>1, <2>5, RankReached
  <2>7. r \div ChunkSize = k - 1
    BY <1>1, <2>3, <2>5
  <2>. QED
    BY <2>6, <2>7 DEF Piece
<1>. QED
  BY <1>1, <1>3, <1>4, <1>5, <1>6

(* An answer without candles has one part.                                 *)
LEMMA NothingInOnePart == Parts({}) = 1
<1>1. ChunkSize \in Nat \ {0} /\ Cardinality({}) = 0
  BY TrainingAssumption, FS_EmptySet
<1>2. ChunkSize - 1 \in Nat
  BY <1>1
<1>3. PICK q \in Nat : q = (ChunkSize - 1) \div ChunkSize /\ q * ChunkSize <= ChunkSize - 1
  BY <1>1, <1>2, Quotient
<1>4. q = 0
  <2>1. q >= 1 => q * ChunkSize >= ChunkSize
    BY <1>1
  <2>. QED
    BY <1>1, <1>3, <2>1
<1>5. Parts({}) = Max({1, 0})
  <2>1. Cardinality({}) + ChunkSize - 1 = ChunkSize - 1
    BY <1>1
  <2>2. (Cardinality({}) + ChunkSize - 1) \div ChunkSize = 0
    BY <1>3, <1>4, <2>1
  <2>. QED
    BY <2>2 DEF Parts
<1>. QED
  BY <1>5 DEF Max

(* An answer is a sequence of messages.                                    *)
LEMMA AnswerFacts ==
  ASSUME NEW S \in SUBSET (1..Now), NEW r \in Nat
  PROVE  /\ Answer(S, r) \in Seq(Message) /\ Len(Answer(S, r)) = Parts(S) /\ Parts(S) \in Nat \ {0}
         /\ \A k \in 1..Parts(S) :
              Answer(S, r)[k] = [request |-> r, error |-> FALSE, candles |-> Piece(S, k), more |-> k < Parts(S)]
<1>1. Parts(S) \in Nat \ {0}
  BY PartsFacts
<1>2. ASSUME NEW k \in 1..Parts(S)
      PROVE  [request |-> r, error |-> FALSE, candles |-> Piece(S, k), more |-> k < Parts(S)] \in Message
  <2>1. Piece(S, k) \subseteq 1..Now
    BY DEF Piece
  <2>2. (k < Parts(S)) \in BOOLEAN
    OBVIOUS
  <2>. QED
    BY <2>1, <2>2 DEF Message
<1>3. Answer(S, r) \in [1..Parts(S) -> Message]
  BY <1>2 DEF Answer
<1>4. Answer(S, r) \in Seq(Message) /\ Len(Answer(S, r)) = Parts(S)
  BY <1>1, <1>3
<1>. QED
  BY <1>1, <1>4 DEF Answer

-----------------------------------------------------------------------------
(* Types                                                                   *)

(* What is assumed of the constants.                                       *)
LEMMA ConstantFacts ==
  /\ MaxAttempts \in Nat \ {0} /\ MaxMessages \in Nat \ {0}
  /\ Now \in Nat \ {0} /\ TotalNeeded \in Nat \ {0} /\ PageSize \in Nat \ {0} /\ ChunkSize \in Nat \ {0}
  /\ Order \in Seq(Symbols) /\ Shipped \in Seq(Symbols) /\ NoSymbol \notin Symbols
  /\ \A m \in Markets : m.candles \subseteq 1..Now /\ m.bad \subseteq m.candles
BY TrainingAssumption

(* What is asked for are candles of the market before the end.             *)
LEMMA AskedFacts ==
  ASSUME TypeOK
  PROVE  /\ market.candles \subseteq 1..Now /\ Before \subseteq market.candles
         /\ Asked \subseteq Before /\ Asked \in SUBSET (1..Now)
BY ConstantFacts DEF TypeOK, Before, Asked, LastOf

(* A training that rests, and rows that are not there, have their types.   *)
LEMMA IdleType == Idle \in Run /\ Idle.pc = "idle" /\ NoRows \in Dataset
<1>1. Idle \in Run
  <2>1. 0 \in 0..(Now + 1) /\ {} \in SUBSET (1..Now) /\ "idle" \in PCs
    BY ConstantFacts DEF PCs
  <2>2. <<>> \in Seq(Symbols) /\ <<>> \in Seq(Message) /\ 0 \in Nat
    OBVIOUS
  <2>. QED
    BY <2>1, <2>2 DEF Idle, Run
<1>2. AssembleDataset(0) \in [train : SUBSET Nat, val : SUBSET Nat, test : SUBSET Nat]
  <2>1. (70 * 0) \div 100 = 0 /\ (85 * 0) \div 100 = 0
    OBVIOUS
  <2>. QED
    BY <2>1 DEF AssembleDataset
<1>. QED
  BY <1>1, <1>2 DEF Idle, NoRows, Dataset

(* So has a training that passes on to the next market.                    *)
LEMMA NextOneType ==
  ASSUME TypeOK, run.todo # <<>>
  PROVE  NextOne \in Run /\ NextOne.pc = "next" /\ Sym \in Symbols
<1>1. run.todo \in Seq(Symbols) /\ run.by \in {"retrain", "one", "all"}
  BY DEF TypeOK, Run
<1>2. Tail(run.todo) \in Seq(Symbols) /\ Head(run.todo) \in Symbols
  BY <1>1
<1>3. NextOne = [Idle EXCEPT !.pc = "next", !.by = run.by, !.todo = Tail(run.todo)]
  BY DEF NextOne
<1>4. NextOne \in Run
  <2>1. "next" \in PCs
    BY DEF PCs
  <2>. QED
    BY <1>1, <1>2, <1>3, <2>1, IdleType DEF Run
<1>5. NextOne.pc = "next"
  BY <1>3, IdleType DEF Run
<1>. QED
  BY <1>2, <1>4, <1>5 DEF Sym

(* What a training is given up for.                                        *)
LEMMA AbandonType ==
  ASSUME TypeOK, run.todo # <<>>, Abandon
  PROVE  /\ run' \in Run /\ run'.pc \in {"idle", "next"} /\ wire' = <<>>
         /\ wire' \in Seq(Message) /\ rows' \in Dataset /\ market' = market
BY IdleType, NextOneType DEF Abandon

(* What is sent keeps the wire a sequence of messages.                     *)
LEMMA SendType ==
  ASSUME TypeOK, NEW r \in Nat, Send(r)
  PROVE  wire' \in Seq(Message)
<1>1. wire \in Seq(Message)
  BY DEF TypeOK
<1>2. Answer(Asked, r) \in Seq(Message)
  BY AskedFacts, AnswerFacts
<1>3. Refusal(r) \in Message
  BY DEF Refusal, Message
<1>4. Append(wire, Refusal(r)) \in Seq(Message) /\ wire \o Answer(Asked, r) \in Seq(Message)
  BY <1>1, <1>2, <1>3
<1>. QED
  BY <1>1, <1>4 DEF Send

RunTyped ==
  /\ market \in Markets
  /\ run \in Run /\ (run.pc \notin {"idle", "next"} => run.todo # <<>>)
  /\ wire \in Seq(Message)
  /\ rows \in Dataset

StoreTyped ==
  /\ files \in Seq(File)
  /\ reader \in Reader /\ {reader.seen, reader.found, reader.floor} \subseteq 0..Len(files)
  /\ scope \in Scopes

(* A message is counted, and nothing else changes in the run.              *)
LEMMA SeenFacts ==
  ASSUME TypeOK, NEW more
  PROVE  /\ Seen(more) \in Run
         /\ Seen(more).pc = IF ReadsOn(more) THEN "read" ELSE "page"
         /\ Seen(more).seen = IF ReadsOn(more) THEN run.seen + 1 ELSE 0
         /\ Seen(more).todo = run.todo /\ Seen(more).end = run.end /\ Seen(more).taken = run.taken
         /\ Seen(more).request = run.request /\ Seen(more).attempt = run.attempt
         /\ Seen(more).chunks = run.chunks /\ Seen(more).count = run.count
         /\ Seen(more).history = run.history
<1>. DEFINE pc   == IF ReadsOn(more) THEN "read" ELSE "page"
            seen == IF ReadsOn(more) THEN run.seen + 1 ELSE 0
<1>1. run \in Run
  BY DEF TypeOK
<1>2. pc \in PCs /\ seen \in Nat
  BY <1>1 DEF PCs, Run
<1>3. Seen(more) = [run EXCEPT !.pc = pc, !.seen = seen]
  BY <1>1 DEF Seen, Run
<1>. HIDE DEF pc, seen
<1>4. /\ Seen(more) \in Run /\ Seen(more).pc = pc /\ Seen(more).seen = seen
      /\ Seen(more).todo = run.todo /\ Seen(more).end = run.end /\ Seen(more).taken = run.taken
      /\ Seen(more).request = run.request /\ Seen(more).attempt = run.attempt
      /\ Seen(more).chunks = run.chunks /\ Seen(more).count = run.count
      /\ Seen(more).history = run.history
  BY <1>1, <1>2, <1>3 DEF Run
<1>. QED
  BY <1>4 DEF pc, seen

(* No step of a collection takes the run or the wire out of its type.      *)
LEMMA CollectType ==
  ASSUME TypeOK, Collect, Page => run.chunks[1].candles # {}
  PROVE  RunTyped'
<1>. run \in Run /\ wire \in Seq(Message) /\ market \in Markets /\ rows \in Dataset
  BY DEF TypeOK
<1>. <<>> \in Seq(Message) /\ 0 \in Nat /\ 1 \in Nat /\ {"ask", "read", "page", "prepare"} \subseteq PCs
  BY DEF PCs
<1>1. CASE Ask
  <2>1. run.todo # <<>> /\ run.request + 1 \in Nat
    BY <1>1 DEF TypeOK, Ask, At, Run
  <2>2. wire' \in Seq(Message)
    BY <1>1, <2>1, SendType DEF Ask
  <2>3. run' = [run EXCEPT !.pc = "read", !.request = @ + 1, !.attempt = 1, !.seen = 0, !.chunks = <<>>, !.count = 0]
    BY <1>1 DEF Ask
  <2>4. run' \in Run
    BY <2>1, <2>3 DEF Run
  <2>5. run'.todo = run.todo
    BY <2>3 DEF Run
  <2>. QED
    BY <1>1, <2>1, <2>2, <2>4, <2>5 DEF Ask, RunTyped
<1>2. CASE Read
  <2>1. run.todo # <<>> /\ wire # <<>>
    BY <1>2 DEF TypeOK, Read, At, Run
  <2>2. wire' \in Seq(Message) /\ Head(wire) \in Message
    BY <1>2, <2>1 DEF Read
  <2>3. /\ run.count + Cardinality(Head(wire).candles) \in Nat
        /\ Append(run.chunks, Head(wire)) \in Seq(Message)
    <3>1. Cardinality(Head(wire).candles) \in Nat
      BY <2>2, CandlesFinite DEF Message
    <3>2. run.count \in Nat /\ run.chunks \in Seq(Message)
      BY DEF Run
    <3>. QED
      BY <2>2, <3>1, <3>2
  <2>4. \A more : Seen(more) \in Run /\ Seen(more).todo = run.todo
    BY SeenFacts
  <2>5. Receive(Head(wire)) \in Run /\ Receive(Head(wire)).todo = run.todo
    BY <2>3, SeenFacts DEF Receive, Run
  <2>6. run' \in {Receive(Head(wire)), Seen(TRUE)}
    BY <1>2 DEF Read
  <2>. QED
    BY <1>2, <2>1, <2>2, <2>4, <2>5, <2>6 DEF Read, RunTyped
<1>3. CASE ReadTimeout
  <2>1. run.todo # <<>> /\ run.request \in Nat /\ run.attempt + 1 \in Nat
    BY <1>3 DEF TypeOK, ReadTimeout, At, Run
  <2>2. wire' \in Seq(Message)
    BY <1>3, <2>1, SendType DEF ReadTimeout
  <2>3. \/ run' = [run EXCEPT !.attempt = @ + 1, !.seen = 0, !.chunks = <<>>, !.count = 0]
        \/ run' = [run EXCEPT !.pc = "page", !.seen = 0, !.chunks = <<>>, !.count = 0]
    BY <1>3 DEF ReadTimeout
  <2>4. run' \in Run
    BY <2>1, <2>3 DEF Run
  <2>5. run'.todo = run.todo
    BY <2>3 DEF Run
  <2>. QED
    BY <1>3, <2>1, <2>2, <2>4, <2>5 DEF ReadTimeout, RunTyped
<1>4. CASE NoPage \/ ErrorPage \/ LastPage \/ Enough
  <2>1. PICK g \in BOOLEAN : Collected(g)
    BY <1>4 DEF NoPage, ErrorPage, LastPage, Enough
  <2>2. run.todo # <<>>
    BY <1>4 DEF TypeOK, NoPage, ErrorPage, LastPage, Enough, At
  <2>3. run' = [run EXCEPT !.pc = "prepare", !.chunks = <<>>, !.count = 0, !.gaveUp = g]
    BY <2>1 DEF Collected
  <2>4. run' \in Run
    BY <2>3 DEF Run
  <2>5. run'.todo = run.todo
    BY <2>3 DEF Run
  <2>. QED
    BY <2>1, <2>2, <2>4, <2>5 DEF Collected, RunTyped
<1>5. CASE Page
  <2>1. run.todo # <<>> /\ run.chunks[1].candles # {}
    BY <1>5 DEF TypeOK, Page, At
  <2>2. \A k \in DOMAIN run.chunks : run.chunks[k].candles \subseteq 1..Now
    <3>1. run.chunks \in Seq(Message)
      BY DEF Run
    <3>2. \A k \in DOMAIN run.chunks : run.chunks[k] \in Message
      BY <3>1
    <3>. QED
      BY <3>2 DEF Message
  <2>3. run.chunks # <<>> /\ Candles \subseteq 1..Now
    BY <1>5, <2>2 DEF Page, Candles
  <2>4. 1 \in DOMAIN run.chunks
    <3>1. run.chunks \in Seq(Message)
      BY DEF Run
    <3>. QED
      BY <2>3, <3>1
  <2>5. Min(run.chunks[1].candles) \in 0..(Now + 1)
    <3>1. run.chunks[1].candles \in SUBSET Nat /\ run.chunks[1].candles \subseteq 1..Now
      BY <2>2, <2>4, ConstantFacts
    <3>2. Min(run.chunks[1].candles) \in 1..Now
      BY <2>1, <3>1, LeastExists
    <3>. QED
      BY <3>2, ConstantFacts
  <2>6. run.history \cup Candles \in SUBSET (1..Now) /\ run.taken + run.count \in Nat
    <3>1. run.history \subseteq 1..Now
      BY DEF Run
    <3>2. run.taken \in Nat /\ run.count \in Nat
      BY DEF Run
    <3>3. run.history \cup Candles \subseteq 1..Now
      BY <2>3, <3>1
    <3>. QED
      BY <3>2, <3>3
  <2>7. run' = [run EXCEPT !.pc = "ask", !.end = Min(run.chunks[1].candles), !.history = @ \cup Candles,
                         !.taken = @ + run.count, !.chunks = <<>>, !.count = 0]
    BY <1>5 DEF Page
  <2>8. run' \in Run
    BY <2>5, <2>6, <2>7 DEF Run
  <2>9. run'.todo = run.todo
    BY <2>7 DEF Run
  <2>. QED
    BY <1>5, <2>1, <2>8, <2>9 DEF Page, RunTyped
<1>6. CASE CollectFails
  BY <1>6, AbandonType DEF CollectFails, RunTyped, TypeOK, At
<1>. QED
  BY <1>1, <1>2, <1>3, <1>4, <1>5, <1>6 DEF Collect

(* The bars of a history are a finite set.                                 *)
LEMMA BarsType ==
  ASSUME TypeOK
  PROVE  Bars \in Nat
<1>. DEFINE valid == run.history \ market.bad
<1>1. run.history \subseteq 1..Now /\ Now \in Nat
  BY ConstantFacts DEF TypeOK, Run
<1>2. CASE valid = {}
  BY <1>2, FS_EmptySet DEF Bars, CleanOhlcv
<1>3. CASE valid # {}
  <2>1. valid \in SUBSET (0..Now) /\ valid \in SUBSET Nat
    BY <1>1
  <2>2. Min(valid) \in valid /\ Max(valid) \in valid
    BY <1>1, <1>3, <2>1, LeastExists, GreatestExists
  <2>3. \A t \in Min(valid)..Max(valid) : t \in 0..Now
    BY <1>1, <2>1, <2>2
  <2>4. CleanOhlcv(run.history, market.bad) \subseteq 0..Now
    BY <1>3, <2>1, <2>3 DEF CleanOhlcv
  <2>5. IsFiniteSet(CleanOhlcv(run.history, market.bad))
    <3>1. IsFiniteSet(0..Now)
      BY <1>1, FS_Interval
    <3>. QED
      BY <2>4, <3>1, FS_Subset
  <2>. QED
    BY <2>5, FS_CardinalityType DEF Bars
<1>. QED
  BY <1>2, <1>3

(* As many labels as bars, but for those without a future.                 *)
LEMMA LabelsFacts ==
  ASSUME TypeOK
  PROVE  Labels \in Nat /\ (Labels > 0 => Bars = Labels + Horizon)
<1>1. Bars \in Nat /\ Horizon \in Nat
  BY BarsType, DataAssumption
<1>2. PICK n \in Int : n = Bars - Horizon
  BY <1>1
<1>3. Cardinality(1..n) = IF 1 > n THEN 0 ELSE n - 1 + 1
  BY FS_Interval
<1>4. Labels = Cardinality(1..n)
  BY <1>2 DEF Labels, Labelled
<1>. QED
  BY <1>1, <1>2, <1>3, <1>4

(* The rows that are prepared have their type.                             *)
LEMMA DatasetType ==
  ASSUME NEW b \in Nat, NEW n \in Nat
  PROVE  [bars |-> b, split |-> AssembleDataset(n), windows |-> WalkForwardSplit(n)] \in Dataset
<1>1. AssembleDataset(n) \in [train : SUBSET Nat, val : SUBSET Nat, test : SUBSET Nat]
  <2>1. (70 * n) \div 100 \in Nat /\ (85 * n) \div 100 \in Nat
    OBVIOUS
  <2>. QED
    BY <2>1 DEF AssembleDataset
<1>2. WalkForwardSplit(n) \subseteq [train : SUBSET Nat, test : SUBSET Nat]
  <2>. DEFINE size    == n \div NWindows
              trained == (3 * size - 1) \div 4
              start(w) == w * size
              end(w) == start(w) + trained
  <2>1. size \in Nat
    BY Quotient, DataAssumption
  <2>2. trained \in Int /\ trained >= -1
    BY <2>1
  <2>. HIDE DEF size, trained
  <2>3. ASSUME NEW w \in 0..(NWindows - 1)
        PROVE  /\ start(w) \in Nat /\ end(w) \in Int /\ end(w) >= -1
               /\ (start(w) + 1)..end(w) \subseteq Nat
               /\ (end(w) + 1)..(start(w) + size) \subseteq Nat
    <3>1. start(w) \in Nat
      BY <2>1, <2>3, DataAssumption
    <3>2. end(w) \in Int /\ end(w) >= -1
      BY <3>1, <2>2
    <3>. HIDE DEF start, end
    <3>. QED
      BY <2>1, <3>1, <3>2
  <2>. HIDE DEF start, end
  <2>4. \A w \in 0..(NWindows - 1) :
          [train |-> (start(w) + 1)..end(w), test |-> (end(w) + 1)..(start(w) + size)]
            \in [train : SUBSET Nat, test : SUBSET Nat]
    BY <2>3
  <2>5. WalkForwardSplit(n) \subseteq
          {[train |-> (start(w) + 1)..end(w), test |-> (end(w) + 1)..(start(w) + size)] : w \in 0..(NWindows - 1)}
    BY DEF WalkForwardSplit, start, end, size, trained
  <2>. QED
    BY <2>4, <2>5
<1>. QED
  BY <1>1, <1>2 DEF Dataset

(* No other step of a training does.                                       *)
LEMMA TrainingType ==
  ASSUME TypeOK,
         \/ Start \/ Skip \/ Begin \/ AllDone \/ Prepare \/ TooLittle \/ Train
         \/ Export \/ Restart \/ KillCommand
  PROVE  RunTyped'
<1>. run \in Run /\ wire \in Seq(Message) /\ market \in Markets /\ rows \in Dataset
  BY DEF TypeOK
<1>. <<>> \in Seq(Message) /\ NoRows \in Dataset
  BY IdleType
<1>1. CASE Start
  <2>1. PICK by \in {"retrain", "all", "one"}, todo \in Seq(Symbols) :
          run' = [Idle EXCEPT !.pc = "next", !.by = by, !.todo = todo]
    <3>1. \A s \in Symbols : <<s>> \in Seq(Symbols)
      OBVIOUS
    <3>. QED
      BY <1>1, <3>1, ConstantFacts DEF Start
  <2>2. "next" \in PCs
    BY DEF PCs
  <2>3. run' \in Run
    BY <2>1, <2>2, IdleType DEF Run
  <2>4. run'.pc = "next"
    BY <2>1, IdleType DEF Run
  <2>. QED
    BY <1>1, <2>3, <2>4 DEF Start, RunTyped
<1>2. CASE Skip
  BY <1>2, NextOneType DEF Skip, RunTyped
<1>3. CASE Begin
  <2>1. run' = [run EXCEPT !.pc = "ask", !.end = Now + 1] /\ run.todo # <<>>
    BY <1>3 DEF Begin
  <2>2. "ask" \in PCs /\ Now + 1 \in 0..(Now + 1)
    BY ConstantFacts DEF PCs
  <2>3. run' \in Run
    BY <2>1, <2>2 DEF Run
  <2>4. run'.todo = run.todo
    BY <2>1 DEF Run
  <2>. QED
    BY <1>3, <2>1, <2>3, <2>4 DEF Begin, RunTyped
<1>4. CASE AllDone
  BY <1>4, IdleType DEF AllDone, RunTyped
<1>5. CASE Prepare
  <2>1. rows' \in Dataset
    BY <1>5, BarsType, LabelsFacts, DatasetType DEF Prepare
  <2>2. run' = [run EXCEPT !.pc = "train"] /\ run.todo # <<>>
    BY <1>5 DEF Prepare, Goto, TypeOK, At
  <2>3. "train" \in PCs
    BY DEF PCs
  <2>4. run' \in Run
    BY <2>2, <2>3 DEF Run
  <2>5. run'.todo = run.todo
    BY <2>2 DEF Run
  <2>. QED
    BY <1>5, <2>1, <2>2, <2>4, <2>5 DEF Prepare, RunTyped
<1>6. CASE TooLittle \/ ExportFails
  BY <1>6, AbandonType DEF TooLittle, ExportFails, RunTyped, TypeOK, At
<1>7. CASE Train \/ OpenModel \/ WriteModel \/ OpenMetadata \/ WriteMetadata
  <2>1. PICK pc \in {"export", "dump", "describe", "metadata", "results"} : run' = [run EXCEPT !.pc = pc]
    BY <1>7 DEF Train, OpenModel, WriteModel, OpenMetadata, WriteMetadata, Goto
  <2>2. pc \in PCs /\ run.todo # <<>>
    BY <1>7 DEF PCs, Train, OpenModel, WriteModel, OpenMetadata, WriteMetadata, TypeOK, At
  <2>3. run' \in Run
    BY <2>1, <2>2 DEF Run
  <2>4. run'.todo = run.todo
    BY <2>1 DEF Run
  <2>5. UNCHANGED <<market, wire, rows>>
    BY <1>7 DEF Train, OpenModel, WriteModel, OpenMetadata, WriteMetadata, StoreOnly
  <2>. QED
    BY <2>2, <2>3, <2>4, <2>5 DEF RunTyped
<1>8. CASE Finish
  BY <1>8, NextOneType DEF Finish, RunTyped, TypeOK, At
<1>9. CASE Restart
  BY <1>9, IdleType DEF Restart, RunTyped, TypeOK
<1>10. CASE KillCommand
  BY <1>10, IdleType DEF KillCommand, RunTyped
<1>. QED
  BY <1>1, <1>2, <1>3, <1>4, <1>5, <1>6, <1>7, <1>8, <1>9, <1>10 DEF Export

(* A file is added behind the others.                                      *)
LEMMA AppendFile ==
  ASSUME TypeOK, NEW f \in File, files' = Append(files, f)
  PROVE  /\ files' \in Seq(File) /\ Len(files') = Len(files) + 1 /\ files'[Len(files)+1] = f
         /\ Len(files) \in Nat
         /\ \A i \in 1..Len(files) : files'[i] = files[i]
<1>1. files \in Seq(File)
  BY DEF TypeOK
<1>. QED
  BY <1>1

(* The newest file is changed, and no other.                               *)
LEMMA ChangeFile ==
  ASSUME TypeOK, files # <<>>, NEW f \in File, files' = [files EXCEPT ![ThisModel] = f]
  PROVE  /\ files' \in Seq(File) /\ Len(files') = Len(files) /\ files'[Len(files)] = f
         /\ Len(files) \in Nat \ {0}
         /\ \A i \in 1..Len(files) : i # Len(files) => files'[i] = files[i]
<1>1. files \in Seq(File) /\ Len(files) \in 1..Len(files) /\ Len(files) \in Nat \ {0}
  BY DEF TypeOK
<1>. QED
  BY <1>1, ExceptSeq DEF ThisModel

(* What an export does to the newest file.                                 *)
LEMMA ExportFile ==
  ASSUME TypeOK, files # <<>>, WriteModel \/ OpenMetadata \/ WriteMetadata
  PROVE  \E f \in File :
           /\ files' = [files EXCEPT ![ThisModel] = f]
           /\ f.sym = files[Len(files)].sym
           /\ WriteModel => f.model = "whole" /\ f.meta = files[Len(files)].meta
           /\ OpenMetadata => f.model = files[Len(files)].model /\ f.meta = "part"
           /\ WriteMetadata => f.model = files[Len(files)].model /\ f.meta = "whole"
<1>. DEFINE last == files[Len(files)]
<1>1. last \in File /\ Len(files) \in DOMAIN files
  BY DEF TypeOK
<1>2. CASE WriteModel
  <2>. DEFINE f == [last EXCEPT !.model = "whole"]
  <2>1. f \in File /\ f.sym = last.sym /\ f.model = "whole" /\ f.meta = last.meta
    BY <1>1 DEF File
  <2>2. files' = [files EXCEPT ![ThisModel] = f]
    BY <1>1, <1>2 DEF WriteModel, ThisModel
  <2>3. ~ OpenMetadata /\ ~ WriteMetadata
    BY <1>2 DEF WriteModel, OpenMetadata, WriteMetadata, At
  <2>. QED
    BY <2>1, <2>2, <2>3
<1>3. CASE OpenMetadata
  <2>. DEFINE f == [last EXCEPT !.meta = "part"]
  <2>1. f \in File /\ f.sym = last.sym /\ f.meta = "part" /\ f.model = last.model
    BY <1>1 DEF File
  <2>2. files' = [files EXCEPT ![ThisModel] = f]
    BY <1>1, <1>3 DEF OpenMetadata, ThisModel
  <2>3. ~ WriteModel /\ ~ WriteMetadata
    BY <1>3 DEF WriteModel, OpenMetadata, WriteMetadata, At
  <2>. QED
    BY <2>1, <2>2, <2>3
<1>4. CASE WriteMetadata
  <2>. DEFINE f == [last EXCEPT !.meta = "whole"]
  <2>1. f \in File /\ f.sym = last.sym /\ f.meta = "whole" /\ f.model = last.model
    BY <1>1 DEF File
  <2>2. files' = [files EXCEPT ![ThisModel] = f]
    BY <1>1, <1>4 DEF WriteMetadata, ThisModel
  <2>3. ~ WriteModel /\ ~ OpenMetadata
    BY <1>4 DEF WriteModel, OpenMetadata, WriteMetadata, At
  <2>. QED
    BY <2>1, <2>2, <2>3
<1>. QED
  BY <1>2, <1>3, <1>4

(* The newest of some files is one of them, or no model.                   *)
LEMMA NewestFacts ==
  ASSUME NEW n \in Nat, NEW S \in SUBSET (1..n)
  PROVE  /\ Newest(S) \in S \cup {NoModel} /\ Newest(S) \in 0..n
         /\ \A i \in S \cup {NoModel} : i <= Newest(S)
<1>1. S \cup {NoModel} \in SUBSET (0..n) /\ S \cup {NoModel} # {}
  BY DEF NoModel
<1>. QED
  BY <1>1, GreatestExists DEF Newest

(* No step of an analysis takes the store out of its type.                 *)
LEMMA UseType ==
  ASSUME TypeOK, Use
  PROVE  StoreTyped'
<1>. files \in Seq(File) /\ Len(files) \in Nat /\ reader \in Reader
  BY DEF TypeOK
<1>. files' = files /\ scope' = scope
  BY DEF Use, Look, Describe, Load, Predict, TrainingStays
<1>1. \A s \in Symbols \cup {NoSymbol}, n \in 0..Len(files) : Described(s, n) \in SUBSET (1..n)
  BY DEF Described
<1>2. ASSUME NEW s \in Symbols, Look(s) PROVE StoreTyped'
  <2>1. Newest(Described(s, Len(files))) \in 0..Len(files)
    BY <1>1, NewestFacts
  <2>2. reader' = [pc |-> "describe", sym |-> s, seen |-> Len(files), found |-> 0,
                   floor |-> Newest(Described(s, Len(files)))]
    BY <1>2 DEF Look, NoModel
  <2>. QED
    BY <2>1, <2>2 DEF StoreTyped, Reader, TypeOK
<1>3. \A pc \in {"load", "predict"}, n \in 0..Len(files) :
        reader' = [reader EXCEPT !.pc = pc, !.found = n] => StoreTyped'
  <2>1. SUFFICES ASSUME NEW pc \in {"load", "predict"}, NEW n \in 0..Len(files),
                        reader' = [reader EXCEPT !.pc = pc, !.found = n]
                 PROVE  StoreTyped'
    OBVIOUS
  <2>2. n \in Nat
    OBVIOUS
  <2>3. reader' \in Reader
    BY <2>1, <2>2 DEF Reader
  <2>4. reader'.seen = reader.seen /\ reader'.floor = reader.floor /\ reader'.found = n
    BY <2>1 DEF Reader
  <2>. QED
    BY <2>3, <2>4 DEF StoreTyped, TypeOK
<1>4. CASE Describe
  <2>1. PICK s \in Symbols \cup {NoSymbol}, m \in 0..Len(files) : s = reader.sym /\ m = reader.seen
    BY DEF TypeOK, Reader
  <2>2. Newest(Described(s, m)) \in 0..m
    <3>1. m \in Nat /\ Described(s, m) \in SUBSET (1..m)
      BY <1>1
    <3>. QED
      BY <3>1, NewestFacts
  <2>3. Newest(Described(s, m)) \in 0..Len(files)
    BY <2>2
  <2>4. reader' = [reader EXCEPT !.pc = "load", !.found = Newest(Described(s, m))]
    BY <1>4, <2>1 DEF Describe
  <2>. QED
    BY <1>3, <2>3, <2>4
<1>6. CASE Load
  <2>1. {reader.seen, reader.found, reader.floor} \subseteq 0..Len(files) /\ 0 \in 0..Len(files)
    BY DEF TypeOK
  <2>2. \/ reader' = [reader EXCEPT !.pc = "predict", !.found = reader.found]
        \/ reader' = [reader EXCEPT !.pc = "predict", !.found = 0]
    BY <1>6 DEF Load, NoModel
  <2>. QED
    BY <1>3, <2>1, <2>2
<1>5. CASE Predict
  BY <1>5 DEF Predict, Free, NoModel, StoreTyped, Reader, TypeOK
<1>. QED
  BY <1>2, <1>4, <1>5, <1>6 DEF Use

-----------------------------------------------------------------------------
(* The model files                                                         *)

(* Whoever describes a file has written its model, and the newest file is  *)
(* that of the export under way.                                           *)
FilesSound ==
  /\ \A i \in DOMAIN files : files[i].meta = "whole" => files[i].model = "whole"
  /\ run.pc \in {"dump", "describe", "metadata"} =>
       files # <<>> /\ files[Len(files)].meta # "whole"
  /\ run.pc \in {"describe", "metadata"} => files[Len(files)].model = "whole"

(* What an analysis has found is described, and no older than what was     *)
(* described when it began.                                                *)
ReaderSound ==
  /\ reader.pc = "describe" => reader.floor \in Described(reader.sym, reader.seen) \cup {NoModel}
  /\ reader.pc \in {"load", "predict"} =>
       /\ reader.found \in Described(reader.sym, reader.seen) \cup {NoModel}
       /\ reader.found >= reader.floor

\* Files that are described stay as they are.
FilesKept ==
  /\ Len(files) \in Nat /\ Len(files') \in Nat /\ Len(files) <= Len(files')
  /\ \A i \in 1..Len(files) : files[i].meta = "whole" => files'[i] = files[i]

Exporting == {"dump", "describe", "metadata"}

(* Where no file is written, the files stay sound.                         *)
LEMMA QuietStore ==
  ASSUME TypeOK, FilesSound, files' = files, run' = run \/ run'.pc \notin Exporting
  PROVE  FilesSound' /\ FilesKept
<1>1. Len(files) \in Nat
  BY DEF TypeOK
<1>. QED
  BY <1>1 DEF FilesSound, FilesKept, Exporting

(* The steps of an export keep the files sound, and those that are         *)
(* described.                                                              *)
LEMMA ExportSound ==
  ASSUME TypeOK, FilesSound, OpenModel \/ WriteModel \/ OpenMetadata \/ WriteMetadata
  PROVE  FilesSound' /\ FilesKept /\ files' \in Seq(File) /\ reader' = reader /\ scope' = scope
<1>. files \in Seq(File) /\ run \in Run
  BY DEF TypeOK
<1>. reader' = reader /\ scope' = scope
  BY DEF OpenModel, WriteModel, OpenMetadata, WriteMetadata, StoreOnly
<1>1. CASE OpenModel
  <2>. DEFINE f == [sym |-> Sym, model |-> "part", meta |-> "none"]
  <2>1. f \in File
    <3>1. Sym \in Symbols
      BY <1>1, NextOneType DEF OpenModel, TypeOK, At
    <3>. QED
      BY <3>1 DEF File
  <2>2. /\ files' \in Seq(File) /\ Len(files') = Len(files) + 1 /\ files'[Len(files) + 1] = f
        /\ Len(files) \in Nat
        /\ \A i \in 1..Len(files) : files'[i] = files[i]
    BY <1>1, <2>1, AppendFile DEF OpenModel
  <2>3. run'.pc = "dump"
    BY <1>1 DEF OpenModel, Goto, Run
  <2>4. DOMAIN files' = 1..(Len(files) + 1) /\ DOMAIN files = 1..Len(files) /\ files' # <<>>
    BY <2>2
  <2>. QED
    BY <2>2, <2>3, <2>4 DEF FilesSound, FilesKept
<1>2. CASE WriteModel \/ OpenMetadata \/ WriteMetadata
  <2>1. files # <<>> /\ files[Len(files)].meta # "whole"
        /\ (OpenMetadata \/ WriteMetadata => files[Len(files)].model = "whole")
    BY <1>2 DEF FilesSound, WriteModel, OpenMetadata, WriteMetadata, At
  <2>2. PICK f \in File :
          /\ files' = [files EXCEPT ![ThisModel] = f]
          /\ f.sym = files[Len(files)].sym
          /\ WriteModel => f.model = "whole" /\ f.meta = files[Len(files)].meta
          /\ OpenMetadata => f.model = files[Len(files)].model /\ f.meta = "part"
          /\ WriteMetadata => f.model = files[Len(files)].model /\ f.meta = "whole"
    BY <1>2, <2>1, ExportFile
  <2>3. /\ files' \in Seq(File) /\ Len(files') = Len(files) /\ files'[Len(files)] = f
        /\ Len(files) \in Nat \ {0}
        /\ \A i \in 1..Len(files) : i # Len(files) => files'[i] = files[i]
    BY <2>1, <2>2, ChangeFile
  <2>4. f.model = "whole" /\ (WriteMetadata \/ f.meta # "whole")
    BY <1>2, <2>1, <2>2
  <2>5. run'.pc = IF WriteModel THEN "describe" ELSE IF OpenMetadata THEN "metadata" ELSE "results"
    BY <1>2 DEF WriteModel, OpenMetadata, WriteMetadata, Goto, At, Run
  <2>6. ~ (WriteMetadata /\ (WriteModel \/ OpenMetadata))
    BY DEF WriteModel, OpenMetadata, WriteMetadata, At
  <2>7. DOMAIN files' = 1..Len(files) /\ DOMAIN files = 1..Len(files) /\ files' # <<>>
    BY <2>3
  <2>8. FilesKept
    BY <2>1, <2>3 DEF FilesKept
  <2>9. \A i \in DOMAIN files' : files'[i].meta = "whole" => files'[i].model = "whole"
    BY <2>3, <2>4, <2>7 DEF FilesSound
  <2>. QED
    BY <2>3, <2>4, <2>5, <2>6, <2>7, <2>8, <2>9 DEF FilesSound
<1>. QED
  BY <1>1, <1>2

(* What an analysis has found stays sound while files are written.         *)
LEMMA ReaderKept ==
  ASSUME TypeOK, ReaderSound, FilesKept, reader' = reader
  PROVE  ReaderSound'
<1>1. PICK s \in Symbols \cup {NoSymbol}, n \in 0..Len(files) : s = reader.sym /\ n = reader.seen
  BY DEF TypeOK, Reader
<1>2. Described(s, n) \subseteq Described(s, n)'
  BY <1>1 DEF Described, FilesKept
<1>. QED
  BY <1>1, <1>2 DEF ReaderSound

(* The steps of an analysis keep what it finds sound.                      *)
LEMMA UseSound ==
  ASSUME TypeOK, FilesSound, ReaderSound, Use
  PROVE  ReaderSound'
<1>. files \in Seq(File) /\ Len(files) \in Nat /\ reader \in Reader
  BY DEF TypeOK
<1>. files' = files
  BY DEF Use, Look, Describe, Load, Predict, TrainingStays
<1>0. \A s, n : Described(s, n)' = Described(s, n)
  BY DEF Described
<1>1. \A s \in Symbols \cup {NoSymbol}, n \in 0..Len(files) :
         n \in Nat /\ Described(s, n) \in SUBSET (1..n)
  BY DEF Described
<1>2. ASSUME NEW s \in Symbols, Look(s) PROVE ReaderSound'
  <2>. DEFINE newest == Newest(Described(s, Len(files)))
  <2>1. newest \in Described(s, Len(files)) \cup {NoModel}
    BY <1>1, NewestFacts
  <2>2. reader' = [pc |-> "describe", sym |-> s, seen |-> Len(files), found |-> NoModel, floor |-> newest]
    BY <1>2 DEF Look
  <2>3. reader'.pc = "describe" /\ reader'.sym = s /\ reader'.seen = Len(files) /\ reader'.floor = newest
    BY <2>2
  <2>. HIDE DEF newest
  <2>. QED
    BY <1>0, <2>1, <2>3 DEF ReaderSound
<1>3. CASE Describe
  <2>1. PICK s \in Symbols \cup {NoSymbol}, n \in 0..Len(files) : s = reader.sym /\ n = reader.seen
    BY DEF TypeOK, Reader
  <2>. DEFINE newest == Newest(Described(s, n))
  <2>2. /\ newest \in Described(s, n) \cup {NoModel} /\ newest \in 0..n
        /\ \A i \in Described(s, n) \cup {NoModel} : i <= newest
    <3>1. n \in Nat /\ Described(s, n) \in SUBSET (1..n)
      BY <1>1
    <3>. QED
      BY <3>1, NewestFacts
  <2>3. reader' = [reader EXCEPT !.pc = "load", !.found = newest]
    BY <1>3, <2>1 DEF Describe
  <2>4. /\ reader'.pc = "load" /\ reader'.sym = s /\ reader'.seen = n /\ reader'.found = newest
        /\ reader'.floor = reader.floor
    BY <2>1, <2>3 DEF Reader
  <2>5. reader.floor \in Described(s, n) \cup {NoModel}
    BY <1>3, <2>1 DEF Describe, ReaderSound
  <2>6. reader.floor <= newest /\ newest \in Nat /\ reader.floor \in Nat
    BY <2>2, <2>5 DEF Reader
  <2>. HIDE DEF newest
  <2>. QED
    BY <1>0, <2>2, <2>4, <2>6 DEF ReaderSound
<1>4. CASE Load
  <2>1. PICK s \in Symbols \cup {NoSymbol}, n \in 0..Len(files) : s = reader.sym /\ n = reader.seen
    BY DEF TypeOK, Reader
  <2>2. reader.found \in Described(s, n) \cup {NoModel} /\ reader.found >= reader.floor
    BY <1>4, <2>1 DEF Load, ReaderSound
  <2>3. reader.found # NoModel => files[reader.found].model = "whole"
    <3>1. reader.found \in Described(s, n) => reader.found \in DOMAIN files /\ files[reader.found].meta = "whole"
      BY DEF Described
    <3>. QED
      BY <2>2, <3>1 DEF FilesSound
  <2>4. reader' = [reader EXCEPT !.pc = "predict", !.found = reader.found]
    BY <1>4, <2>3 DEF Load
  <2>5. /\ reader'.pc = "predict" /\ reader'.sym = s /\ reader'.seen = n /\ reader'.found = reader.found
        /\ reader'.floor = reader.floor
    BY <2>1, <2>4 DEF Reader
  <2>. QED
    BY <1>0, <2>2, <2>5 DEF ReaderSound
<1>5. CASE Predict
  BY <1>5 DEF Predict, Free, ReaderSound
<1>. QED
  BY <1>2, <1>3, <1>4, <1>5 DEF Use

-----------------------------------------------------------------------------
(* The collection                                                          *)

\* The parts of the answer to the request under way.
Reply == Answer(Asked, run.request)

(* The reply to the request under way.                                     *)
LEMMA ReplyFacts ==
  ASSUME TypeOK
  PROVE  /\ Reply \in Seq(Message) /\ Len(Reply) \in Nat \ {0} /\ Len(Reply) = Parts(Asked)
         /\ \A k \in 1..Len(Reply) :
              /\ Reply[k] = [request |-> run.request, error |-> FALSE, candles |-> Piece(Asked, k),
                             more |-> k < Len(Reply)]
              /\ Reply[k].request = run.request /\ ~ Reply[k].error
              /\ Reply[k].candles = Piece(Asked, k) /\ Reply[k].more = (k < Len(Reply))
<1>1. PICK r \in Nat, S \in SUBSET (1..Now) : r = run.request /\ S = Asked
  BY AskedFacts DEF TypeOK, Run
<1>2. /\ Answer(S, r) \in Seq(Message) /\ Len(Answer(S, r)) = Parts(S) /\ Parts(S) \in Nat \ {0}
      /\ \A k \in 1..Parts(S) :
           Answer(S, r)[k] = [request |-> r, error |-> FALSE, candles |-> Piece(S, k), more |-> k < Parts(S)]
  BY AnswerFacts
<1>3. Reply = Answer(S, r)
  BY <1>1 DEF Reply
<1>4. ASSUME NEW k \in 1..Len(Reply)
      PROVE  /\ Reply[k] = [request |-> run.request, error |-> FALSE, candles |-> Piece(Asked, k),
                             more |-> k < Len(Reply)]
             /\ Reply[k].request = run.request /\ ~ Reply[k].error
             /\ Reply[k].candles = Piece(Asked, k) /\ Reply[k].more = (k < Len(Reply))
  <2>1. Reply[k] = [request |-> run.request, error |-> FALSE, candles |-> Piece(Asked, k),
                    more |-> k < Len(Reply)]
    BY <1>1, <1>2, <1>3
  <2>. QED
    BY <2>1
<1>. QED
  BY <1>1, <1>2, <1>3, <1>4

(* The parts of an answer are told from each other by their candles.       *)
LEMMA ReplyDistinct ==
  ASSUME TypeOK, NEW j \in 1..Len(Reply), NEW k \in 1..Len(Reply), Reply[j] = Reply[k]
  PROVE  j = k
<1>1. Asked \in SUBSET (1..Now) /\ Len(Reply) = Parts(Asked) /\ Len(Reply) \in Nat \ {0}
  BY AskedFacts, ReplyFacts
<1>2. CASE Asked = {}
  <2>1. Parts(Asked) = 1
    BY <1>2, NothingInOnePart
  <2>. QED
    BY <1>1, <2>1
<1>3. CASE Asked # {}
  <2>1. Piece(Asked, j) # {}
    BY <1>1, <1>3, PartsFacts
  <2>2. Piece(Asked, j) = Piece(Asked, k)
    BY ReplyFacts
  <2>3. PICK c \in Asked : Rank(Asked, c) \div ChunkSize = j - 1 /\ Rank(Asked, c) \div ChunkSize = k - 1
    BY <2>1, <2>2 DEF Piece
  <2>. QED
    BY <1>1, <2>3
<1>. QED
  BY <1>2, <1>3

\* The candles of the parts from one to another.
Span(lo, hi) == {c \in Asked : Rank(Asked, c) \div ChunkSize \in (lo - 1)..(hi - 1)}

(* A part more: its candles are others than those before it.               *)
LEMMA SpanGrows ==
  ASSUME TypeOK, NEW lo \in Nat, NEW hi \in Nat, lo <= hi
  PROVE  /\ Span(lo, hi + 1) = Span(lo, hi) \cup Piece(Asked, hi + 1)
         /\ Cardinality(Span(lo, hi + 1)) = Cardinality(Span(lo, hi)) + Cardinality(Piece(Asked, hi + 1))
         /\ Span(hi, hi) = Piece(Asked, hi)
<1>1. Asked \in SUBSET (1..Now) /\ IsFiniteSet(Asked)
  BY AskedFacts, CandlesFinite
<1>2. Span(lo, hi) \subseteq Asked /\ Piece(Asked, hi + 1) \subseteq Asked
  BY DEF Span, Piece
<1>3. IsFiniteSet(Span(lo, hi)) /\ IsFiniteSet(Piece(Asked, hi + 1))
  BY <1>1, <1>2, FS_Subset
<1>4. \A c \in Asked : Rank(Asked, c) \div ChunkSize \in Nat
  <2>. TAKE c \in Asked
  <2>1. Rank(Asked, c) \in Nat
    BY <1>1, RankType
  <2>. QED
    BY <2>1, ConstantFacts, Quotient
<1>5. Span(lo, hi + 1) = Span(lo, hi) \cup Piece(Asked, hi + 1)
  BY <1>4 DEF Span, Piece
<1>6. Span(lo, hi) \cap Piece(Asked, hi + 1) = {}
  BY <1>4 DEF Span, Piece
<1>7. Span(hi, hi) = Piece(Asked, hi)
  BY <1>4 DEF Span, Piece
<1>8. Cardinality(Span(lo, hi) \cup Piece(Asked, hi + 1))
        = Cardinality(Span(lo, hi)) + Cardinality(Piece(Asked, hi + 1))
  <2>1. Cardinality(Span(lo, hi) \cap Piece(Asked, hi + 1)) = 0
    BY <1>6, FS_EmptySet
  <2>2. Cardinality(Span(lo, hi)) \in Nat /\ Cardinality(Piece(Asked, hi + 1)) \in Nat
    BY <1>3, FS_CardinalityType
  <2>. QED
    BY <1>3, <2>1, <2>2, FS_Union
<1>. QED
  BY <1>5, <1>7, <1>8

\* What has been received of the answer: its parts from one to another.
Holds(lo, hi) ==
  /\ lo \in 1..Len(Reply) /\ hi \in lo..Len(Reply)
  /\ Len(run.chunks) = hi - lo + 1
  /\ \A j \in 1..Len(run.chunks) : run.chunks[j] = Reply[lo + j - 1]

(* The candles of what has been received.                                  *)
LEMMA HeldCandles ==
  ASSUME TypeOK, NEW lo, NEW hi, Holds(lo, hi)
  PROVE  Candles = Span(lo, hi)
<1>1. Asked \in SUBSET (1..Now) /\ Len(Reply) \in Nat \ {0} /\ run.chunks \in Seq(Message)
  BY AskedFacts, ReplyFacts DEF TypeOK, Run
<1>2. lo \in Nat /\ hi \in Nat /\ lo >= 1 /\ hi <= Len(Reply) /\ lo <= hi
  BY <1>1 DEF Holds
<1>3. DOMAIN run.chunks = 1..(hi - lo + 1)
  BY <1>1 DEF Holds
<1>4. \A j \in 1..(hi - lo + 1) : run.chunks[j].candles = Piece(Asked, lo + j - 1)
  <2>. TAKE j \in 1..(hi - lo + 1)
  <2>1. lo + j - 1 \in 1..Len(Reply)
    BY <1>1, <1>2
  <2>. QED
    BY <2>1, ReplyFacts DEF Holds
<1>5. ASSUME NEW c \in Candles PROVE c \in Span(lo, hi)
  <2>1. PICK j \in 1..(hi - lo + 1) : c \in Piece(Asked, lo + j - 1)
    BY <1>3, <1>4 DEF Candles
  <2>. QED
    BY <1>2, <2>1 DEF Piece, Span
<1>6. ASSUME NEW c \in Span(lo, hi) PROVE c \in Candles
  <2>1. PICK q \in (lo - 1)..(hi - 1) : c \in Asked /\ Rank(Asked, c) \div ChunkSize = q
    BY DEF Span
  <2>2. PICK j \in 1..(hi - lo + 1) : j = q + 2 - lo
    BY <1>2
  <2>3. c \in Piece(Asked, lo + j - 1)
    BY <1>2, <2>1, <2>2 DEF Piece
  <2>. QED
    BY <1>3, <1>4, <2>3 DEF Candles
<1>. QED
  BY <1>5, <1>6

\* The parts that an answer has at most.  The messages that are read in an attempt
\* are enough for the answers to all attempts.
MaxParts   == (PageSize + ChunkSize - 1) \div ChunkSize
RepliesFit == MaxAttempts * MaxParts <= MaxMessages

\* Messages come in the order of the requests, and of the current request there
\* is nothing but refusals and parts of the reply, each followed by the next.
InOrder ==
  \A i \in 1..Len(wire) :
    /\ wire[i].request <= run.request
    /\ At("read") /\ wire[i].request = run.request =>
         \/ wire[i] = Refusal(run.request)
         \/ \E k \in 1..Len(Reply) :
              wire[i] = Reply[k] /\ (k < Len(Reply) => i < Len(wire) /\ wire[i + 1] = Reply[k + 1])

\* What has been received is nothing, a refusal, or the parts of the reply from
\* one on: up to one whose next is the first to be read, and in the end, if an
\* attempt reads enough, up to the last.
Received ==
  run.pc \in {"read", "page"} =>
    \/ run.chunks = <<>> /\ run.count = 0
    \/ At("page") /\ run.chunks = <<Refusal(run.request)>> /\ run.count = 0
    \/ \E lo \in 1..Len(Reply), hi \in 1..Len(Reply) :
         /\ Holds(lo, hi) /\ run.count = Cardinality(Candles)
         /\ IF At("page") THEN RepliesFit => hi = Len(Reply)
                          ELSE hi < Len(Reply) /\ wire # <<>> /\ Head(wire) = Reply[hi + 1]

\* The history is what the market has from the end on that is asked for next.
Growing ==
  /\ run.pc \in {"ask", "read", "page"} =>
       /\ run.end \in 1..(Now + 1)
       /\ RepliesFit => /\ run.history = {c \in market.candles : c >= run.end}
                        /\ run.taken = Cardinality(run.history)
  /\ run.pc \in {"read", "page"} => run.taken < TotalNeeded
  /\ run.pc \notin {"ask", "read", "page"} => wire = <<>>
  /\ run.pc \notin {"read", "page"} => run.chunks = <<>> /\ run.count = 0
  /\ At("next") => run.history = {} /\ run.taken = 0

CollectSound == InOrder /\ Received /\ Growing /\ (RepliesFit => HistoryWhole)

\* Messages of one request that may come too late.
Late == (MaxAttempts - 1) * MaxParts

\* The first end of an answer to the request among the messages.
EndAt(messages, request, i)    == messages[i].request = request /\ ~ messages[i].more
FirstEnd(messages, request, i) ==
  EndAt(messages, request, i) /\ \A j \in 1..(i - 1) : ~ EndAt(messages, request, j)

\* Before the end of the first answer there is no more than is late of the request
\* before, and one answer; after it, no more than the answers to other attempts.
InTime(messages, request, seen, attempt) ==
  \/ Len(messages) <= Late /\ \A i \in 1..Len(messages) : messages[i].request # request
  \/ \E e \in 1..Len(messages) :
       /\ FirstEnd(messages, request, e) /\ seen + e <= Late + MaxParts
       /\ Len(messages) - e <= (attempt - 1) * MaxParts

Timely ==
  /\ At("read") => run.attempt \in 1..MaxAttempts /\ InTime(wire, run.request, run.seen, run.attempt)
  /\ At("ask") \/ (At("page") /\ run.chunks # <<>>) => Len(wire) <= Late

CollectInv == CollectSound /\ (RepliesFit => Timely)

(* The most parts of an answer, and those of the attempts of a request.    *)
LEMMA PartsBounds ==
  /\ MaxParts \in Nat \ {0} /\ Late \in Nat /\ Late + MaxParts = MaxAttempts * MaxParts
  /\ \A a \in 1..MaxAttempts : (a - 1) * MaxParts \in Nat /\ (a - 1) * MaxParts <= Late
  /\ \A a \in Nat : (a - 1) * MaxParts + MaxParts = a * MaxParts
<1>1. ChunkSize \in Nat \ {0} /\ PageSize \in Nat \ {0} /\ MaxAttempts \in Nat \ {0}
  BY ConstantFacts
<1>2. MaxParts \in Nat \ {0}
  <2>1. PICK n \in Nat : n = PageSize + ChunkSize - 1
    BY <1>1
  <2>2. n \div ChunkSize \in Nat /\ \A k \in Nat : k * ChunkSize <= n => k <= n \div ChunkSize
    BY <1>1, Quotient
  <2>3. 1 * ChunkSize <= n
    BY <1>1, <2>1
  <2>. QED
    BY <2>1, <2>2, <2>3 DEF MaxParts
<1>3. PICK m \in Nat : m = MaxParts
  BY <1>2
<1>4. Late \in Nat /\ Late + m = MaxAttempts * m
  BY <1>1, <1>3 DEF Late
<1>5. \A a \in 1..MaxAttempts : (a - 1) * m \in Nat /\ (a - 1) * m <= Late
  BY <1>1, <1>3 DEF Late
<1>6. \A a \in Nat : (a - 1) * m + m = a * m
  OBVIOUS
<1>. QED
  BY <1>2, <1>3, <1>4, <1>5, <1>6

(* Where neither run nor wire changes, the collection stays sound.         *)
LEMMA CollectQuiet ==
  ASSUME CollectSound, market' = market, run' = run, wire' = wire
  PROVE  CollectSound'
<1>1. Reply' = Reply /\ Candles' = Candles
  BY DEF Reply, Answer, Parts, Piece, Rank, Asked, LastOf, Before, Candles
<1>2. \A lo, hi : Holds(lo, hi)' = Holds(lo, hi)
  BY <1>1 DEF Holds
<1>. QED
  BY <1>1, <1>2 DEF CollectSound, InOrder, Received, Growing, HistoryWhole, At

(* Outside a collection there is little to say.                            *)
LEMMA CollectOutside ==
  ASSUME TypeOK, wire' = <<>>, run' \in Run, run'.pc \notin {"ask", "read", "page", "prepare"},
         run'.chunks = <<>>, run'.count = 0, run'.pc = "next" => run'.history = {} /\ run'.taken = 0
  PROVE  CollectSound'
<1>1. Len(wire') = 0 /\ 1..0 = {}
  OBVIOUS
<1>. QED
  BY <1>1 DEF CollectSound, InOrder, Received, Growing, HistoryWhole, At

(* The reply depends on the request, the end and what has been taken.      *)
LEMMA SameReply ==
  ASSUME market' = market, run'.end = run.end, run'.taken = run.taken
  PROVE  /\ Asked' = Asked
         /\ run'.request = run.request => Reply' = Reply
         /\ Reply' = Answer(Asked, run'.request)
<1>1. Asked' = Asked
  BY DEF Asked, LastOf, Before
<1>2. \A S : Parts(S)' = Parts(S) /\ \A k : Piece(S, k)' = Piece(S, k)
  BY DEF Parts, Piece, Rank
<1>3. Reply' = Answer(Asked, run'.request)
  BY <1>1 DEF Reply, Answer, Parts, Piece, Rank
<1>. QED
  BY <1>1, <1>3 DEF Reply

(* What a request brings is in order.                                      *)
LEMMA SendInOrder ==
  ASSUME TypeOK, NEW r \in Nat, Send(r), market' = market, run'.end = run.end, run'.taken = run.taken,
         run'.request = r, run'.pc = "read", InOrder,
         \/ r = run.request /\ At("read")
         \/ r = run.request + 1
  PROVE  InOrder'
<1>1. run.request \in Nat /\ wire \in Seq(Message)
  BY DEF TypeOK, Run
<1>2. PICK answer \in Seq(Message) : answer = Answer(Asked, r) /\ Reply' = answer
  BY AskedFacts, AnswerFacts, SameReply
<1>3. \A k \in 1..Len(answer) : answer[k].request = r
  <2>1. /\ Len(answer) = Parts(Asked)
        /\ \A k \in 1..Parts(Asked) :
             answer[k] = [request |-> r, error |-> FALSE, candles |-> Piece(Asked, k), more |-> k < Parts(Asked)]
    BY <1>2, AskedFacts, AnswerFacts
  <2>. QED
    BY <2>1
<1>4. \A i \in 1..Len(wire) :
        /\ wire[i].request <= r
        /\ wire[i].request = r =>
             \/ wire[i] = Refusal(r)
             \/ \E k \in 1..Len(answer) :
                  wire[i] = answer[k] /\ (k < Len(answer) => i < Len(wire) /\ wire[i + 1] = answer[k + 1])
  <2>1. \A i \in 1..Len(wire) : wire[i].request \in Nat /\ wire[i].request <= run.request
    <3>1. \A i \in 1..Len(wire) : wire[i] \in Message
      BY <1>1
    <3>2. \A i \in 1..Len(wire) : wire[i].request \in Nat
      BY <3>1 DEF Message
    <3>. QED
      BY <3>2 DEF InOrder
  <2>2. CASE r = run.request /\ At("read")
    <3>1. answer = Reply
      BY <1>2, <2>2 DEF Reply
    <3>. QED
      BY <1>1, <2>2, <3>1 DEF InOrder
  <2>3. CASE r = run.request + 1
    BY <1>1, <2>1, <2>3
  <2>. QED
    BY <2>2, <2>3
<1>5. CASE wire' = wire
  BY <1>2, <1>4, <1>5 DEF InOrder
<1>6. CASE wire' = Append(wire, Refusal(r))
  <2>1. /\ Len(wire') = Len(wire) + 1 /\ wire'[Len(wire) + 1] = Refusal(r)
        /\ \A i \in 1..Len(wire) : wire'[i] = wire[i]
        /\ Len(wire) \in Nat
    BY <1>1, <1>6
  <2>2. Refusal(r).request = r
    BY DEF Refusal
  <2>3. ASSUME NEW i \in 1..Len(wire')
        PROVE  /\ wire'[i].request <= r
               /\ wire'[i].request = r =>
                    \/ wire'[i] = Refusal(r)
                    \/ \E k \in 1..Len(answer) :
                         wire'[i] = answer[k] /\ (k < Len(answer) => i < Len(wire') /\ wire'[i + 1] = answer[k + 1])
    <3>1. CASE i = Len(wire) + 1
      BY <2>1, <2>2, <3>1
    <3>2. CASE i \in 1..Len(wire)
      <4>1. i + 1 \in 1..Len(wire) \/ ~ (i < Len(wire))
        BY <2>1, <3>2
      <4>. QED
        BY <1>4, <2>1, <3>2, <4>1
    <3>. QED
      BY <2>1, <3>1, <3>2
  <2>. QED
    BY <1>2, <2>3 DEF InOrder, Refusal
<1>7. CASE wire' = wire \o answer
  <2>1. /\ Len(wire') = Len(wire) + Len(answer)
        /\ \A i \in 1..Len(wire) : wire'[i] = wire[i]
        /\ \A k \in 1..Len(answer) : wire'[Len(wire) + k] = answer[k]
        /\ Len(wire) \in Nat /\ Len(answer) \in Nat
    BY <1>1, <1>7
  <2>3. ASSUME NEW i \in 1..Len(wire')
        PROVE  /\ wire'[i].request <= r
               /\ wire'[i].request = r =>
                    \/ wire'[i] = Refusal(r)
                    \/ \E k \in 1..Len(answer) :
                         wire'[i] = answer[k] /\ (k < Len(answer) => i < Len(wire') /\ wire'[i + 1] = answer[k + 1])
    <3>1. CASE i \notin 1..Len(wire)
      <4>1. PICK k \in 1..Len(answer) : i = Len(wire) + k
        <5>1. i - Len(wire) \in 1..Len(answer) /\ i = Len(wire) + (i - Len(wire))
          BY <2>1, <3>1
        <5>. QED
          BY <5>1
      <4>2. wire'[i] = answer[k] /\ wire'[i].request = r
        BY <1>3, <2>1, <4>1
      <4>3. k < Len(answer) => i < Len(wire') /\ wire'[i + 1] = answer[k + 1]
        <5>1. k < Len(answer) => k + 1 \in 1..Len(answer) /\ i + 1 = Len(wire) + (k + 1)
          BY <2>1, <4>1
        <5>. QED
          BY <2>1, <4>1, <5>1
      <4>. QED
        BY <4>2, <4>3
    <3>2. CASE i \in 1..Len(wire)
      <4>1. i + 1 \in 1..Len(wire) \/ ~ (i < Len(wire))
        BY <2>1, <3>2
      <4>. QED
        BY <1>4, <2>1, <3>2, <4>1
    <3>. QED
      BY <3>1, <3>2
  <2>. QED
    BY <1>2, <2>3 DEF InOrder, Refusal
<1>. QED
  BY <1>2, <1>5, <1>6, <1>7 DEF Send

(* A new request: everything on the wire is older.                         *)
LEMMA AskCollects ==
  ASSUME TypeOK, CollectSound, Ask
  PROVE  CollectSound'
<1>1. run \in Run /\ run.request \in Nat
  BY DEF TypeOK, Run
<1>2. run' = [run EXCEPT !.pc = "read", !.request = @ + 1, !.attempt = 1, !.seen = 0, !.chunks = <<>>, !.count = 0]
  BY DEF Ask
<1>3. /\ run'.pc = "read" /\ run'.request = run.request + 1 /\ run'.chunks = <<>> /\ run'.count = 0
      /\ run'.history = run.history /\ run'.taken = run.taken /\ run'.end = run.end
  BY <1>1, <1>2 DEF Run
<1>4. At("ask") /\ run.taken < TotalNeeded /\ market' = market /\ Send(run.request + 1)
  BY DEF Ask
<1>5. InOrder'
  BY <1>1, <1>3, <1>4, SendInOrder DEF CollectSound
<1>. QED
  BY <1>3, <1>4, <1>5 DEF CollectSound, Received, Growing, HistoryWhole, At

(* A request is sent again under its number, or given up.                  *)
LEMMA TimeoutCollects ==
  ASSUME TypeOK, CollectSound, ReadTimeout
  PROVE  CollectSound'
<1>1. run \in Run /\ run.request \in Nat
  BY DEF TypeOK, Run
<1>2. At("read") /\ market' = market
  BY DEF ReadTimeout
<1>3. CASE run.attempt < MaxAttempts
  <2>1. run' = [run EXCEPT !.attempt = @ + 1, !.seen = 0, !.chunks = <<>>, !.count = 0] /\ Send(run.request)
    BY <1>3 DEF ReadTimeout
  <2>2. /\ run'.pc = "read" /\ run'.request = run.request /\ run'.chunks = <<>> /\ run'.count = 0
        /\ run'.history = run.history /\ run'.taken = run.taken /\ run'.end = run.end
    BY <1>1, <1>2, <2>1 DEF Run, At
  <2>3. InOrder'
    BY <1>1, <1>2, <2>1, <2>2, SendInOrder DEF CollectSound
  <2>. QED
    BY <1>2, <2>2, <2>3 DEF CollectSound, Received, Growing, HistoryWhole, At
<1>4. CASE ~ (run.attempt < MaxAttempts)
  <2>1. run' = [run EXCEPT !.pc = "page", !.seen = 0, !.chunks = <<>>, !.count = 0] /\ wire' = wire
    BY <1>4 DEF ReadTimeout
  <2>2. /\ run'.pc = "page" /\ run'.request = run.request /\ run'.chunks = <<>> /\ run'.count = 0
        /\ run'.history = run.history /\ run'.taken = run.taken /\ run'.end = run.end
    BY <1>1, <2>1 DEF Run
  <2>3. InOrder'
    BY <2>1, <2>2 DEF CollectSound, InOrder, At
  <2>. QED
    BY <1>2, <2>2, <2>3 DEF CollectSound, Received, Growing, HistoryWhole, At
<1>. QED
  BY <1>3, <1>4

(* A part that is received adds its candles.                               *)
LEMMA CandlesGrow ==
  ASSUME NEW part, run.chunks \in Seq(Message), run'.chunks \in Seq(Message),
         Len(run'.chunks) = Len(run.chunks) + 1, run'.chunks[Len(run.chunks) + 1] = part,
         \A j \in 1..Len(run.chunks) : run'.chunks[j] = run.chunks[j]
  PROVE  Candles' = Candles \cup part.candles
<1>1. DOMAIN run.chunks = 1..Len(run.chunks) /\ Len(run.chunks) \in Nat
  OBVIOUS
<1>2. DOMAIN run'.chunks = (1..Len(run.chunks)) \cup {Len(run.chunks) + 1}
  BY <1>1
<1>. QED
  BY <1>1, <1>2 DEF Candles

(* Reading the next part of the reply.                                     *)
LEMMA ReadPart ==
  ASSUME TypeOK, CollectSound, Read, wire[1].request = run.request
  PROVE  \/ /\ wire[1] = Refusal(run.request) /\ run.chunks = <<>> /\ run.count = 0
         \/ \E k \in 1..Len(Reply) :
              /\ wire[1] = Reply[k] /\ (k < Len(Reply) => 1 < Len(wire) /\ wire[2] = Reply[k + 1])
              /\ \/ run.chunks = <<>> /\ run.count = 0
                 \/ \E lo \in 1..Len(Reply), hi \in 1..Len(Reply) :
                      Holds(lo, hi) /\ run.count = Cardinality(Candles) /\ k = hi + 1
<1>1. At("read") /\ wire # <<>> /\ wire \in Seq(Message)
  BY DEF Read, TypeOK
<1>2. 1 \in 1..Len(wire) /\ Head(wire) = wire[1]
  BY <1>1
<1>3. \/ wire[1] = Refusal(run.request)
      \/ \E k \in 1..Len(Reply) :
           wire[1] = Reply[k] /\ (k < Len(Reply) => 1 < Len(wire) /\ wire[1 + 1] = Reply[k + 1])
  BY <1>1, <1>2 DEF CollectSound, InOrder
<1>4. \/ run.chunks = <<>> /\ run.count = 0
      \/ \E lo \in 1..Len(Reply), hi \in 1..Len(Reply) :
           /\ Holds(lo, hi) /\ run.count = Cardinality(Candles)
           /\ hi < Len(Reply) /\ wire[1] = Reply[hi + 1]
  BY <1>1, <1>2 DEF CollectSound, Received, At
<1>5. CASE run.chunks = <<>> /\ run.count = 0
  BY <1>3, <1>5
<1>6. ASSUME NEW lo \in 1..Len(Reply), NEW hi \in 1..Len(Reply),
             Holds(lo, hi), run.count = Cardinality(Candles), hi < Len(Reply), wire[1] = Reply[hi + 1]
      PROVE  \E k \in 1..Len(Reply) :
               /\ wire[1] = Reply[k] /\ (k < Len(Reply) => 1 < Len(wire) /\ wire[2] = Reply[k + 1])
               /\ k = hi + 1
  <2>1. hi + 1 \in 1..Len(Reply) /\ Len(Reply) \in Nat
    BY <1>6, ReplyFacts
  <2>2. wire[1] # Refusal(run.request)
    <3>1. ~ Reply[hi + 1].error
      BY <2>1, ReplyFacts
    <3>2. Refusal(run.request).error
      BY DEF Refusal
    <3>. QED
      BY <1>6, <3>1, <3>2
  <2>3. PICK k \in 1..Len(Reply) :
           wire[1] = Reply[k] /\ (k < Len(Reply) => 1 < Len(wire) /\ wire[2] = Reply[k + 1])
    BY <1>3, <2>2
  <2>4. k = hi + 1
    BY <1>6, <2>1, <2>3, ReplyDistinct
  <2>. QED
    BY <2>3, <2>4
<1>. QED
  BY <1>4, <1>5, <1>6

(* An attempt reads until the end of the answer, if it reads enough.       *)
LEMMA ReadsOnInTime ==
  ASSUME TypeOK, CollectInv, Read, RepliesFit, wire[1].request = run.request, wire[1].more
  PROVE  ReadsOn(TRUE)
<1>1. At("read") /\ wire # <<>> /\ wire \in Seq(Message)
  BY DEF Read, TypeOK
<1>2. 1 \in 1..Len(wire) /\ Len(wire) \in Nat
  BY <1>1
<1>3. PICK e \in 1..Len(wire) : FirstEnd(wire, run.request, e) /\ run.seen + e <= Late + MaxParts
  BY <1>1, <1>2 DEF CollectInv, Timely, InTime
<1>4. e # 1
  BY <1>3 DEF FirstEnd, EndAt
<1>5. run.seen \in Nat /\ e \in Nat /\ e >= 2
  BY <1>2, <1>4 DEF TypeOK, Run
<1>6. Late + MaxParts <= MaxMessages /\ Late \in Nat /\ MaxParts \in Nat /\ MaxMessages \in Nat
  BY PartsBounds, ConstantFacts DEF RepliesFit
<1>. QED
  BY <1>3, <1>5, <1>6 DEF ReadsOn

(* A message is read: it is old, or a refusal, or the next part of the     *)
(* reply.                                                                  *)
LEMMA ReadCollects ==
  ASSUME TypeOK, CollectInv, Read
  PROVE  CollectSound'
<1>. CollectSound
  BY DEF CollectInv
<1>1. /\ At("read") /\ wire # <<>> /\ wire \in Seq(Message) /\ run \in Run
      /\ wire' = Tail(wire) /\ market' = market
  BY DEF Read, TypeOK
<1>2. /\ Len(wire) \in Nat \ {0} /\ Head(wire) = wire[1] /\ wire[1] \in Message
      /\ wire' \in Seq(Message) /\ Len(wire') = Len(wire) - 1
      /\ \A i \in 1..Len(wire') : wire'[i] = wire[i + 1] /\ i + 1 \in 1..Len(wire)
  BY <1>1
<1>3. /\ run'.request = run.request /\ run'.history = run.history /\ run'.taken = run.taken
      /\ run'.end = run.end /\ run'.pc \in {"read", "page"}
  <2>1. run' = Seen(TRUE) \/ run' = Receive(Head(wire))
    BY DEF Read
  <2>2. \A more : /\ Seen(more) \in Run /\ Seen(more).request = run.request
                  /\ Seen(more).history = run.history /\ Seen(more).taken = run.taken
                  /\ Seen(more).end = run.end /\ Seen(more).pc \in {"read", "page"}
    BY SeenFacts
  <2>3. ASSUME run' = Receive(Head(wire))
        PROVE  /\ run'.request = run.request /\ run'.history = run.history /\ run'.taken = run.taken
               /\ run'.end = run.end /\ run'.pc \in {"read", "page"}
    <3>1. PICK seen \in Run : seen = Seen(Head(wire).more)
      BY <2>2
    <3>2. run' = [seen EXCEPT !.chunks = Append(@, Head(wire)), !.count = @ + Cardinality(Head(wire).candles)]
      BY <2>3, <3>1 DEF Receive
    <3>3. /\ run'.request = seen.request /\ run'.history = seen.history /\ run'.taken = seen.taken
          /\ run'.end = seen.end /\ run'.pc = seen.pc
      BY <3>2 DEF Run
    <3>. QED
      BY <2>2, <3>1, <3>3
  <2>. QED
    BY <2>1, <2>2, <2>3
<1>4. Reply' = Reply /\ Len(Reply) \in Nat
  BY <1>1, <1>3, SameReply, ReplyFacts
<1>5. InOrder'
  <2>1. ASSUME NEW i \in 1..Len(wire')
        PROVE  /\ wire'[i].request <= run.request
               /\ wire'[i].request = run.request =>
                    \/ wire'[i] = Refusal(run.request)
                    \/ \E k \in 1..Len(Reply) :
                         wire'[i] = Reply[k] /\ (k < Len(Reply) => i < Len(wire') /\ wire'[i + 1] = Reply[k + 1])
    <3>1. PICK j \in 1..Len(wire) : j = i + 1 /\ wire'[i] = wire[j]
      BY <1>2
    <3>2. j < Len(wire) => i < Len(wire') /\ wire'[i + 1] = wire[j + 1]
      <4>1. j < Len(wire) => i + 1 \in 1..Len(wire')
        BY <1>2, <3>1
      <4>. QED
        BY <1>2, <3>1, <4>1
    <3>. QED
      BY <1>1, <3>1, <3>2 DEF CollectSound, InOrder
  <2>. QED
    BY <1>3, <1>4, <2>1 DEF InOrder, Refusal, At
<1>6. Growing'
  BY <1>1, <1>3 DEF CollectSound, Growing, At
<1>7. HistoryWhole'
  BY <1>3 DEF HistoryWhole, At
<1>8. CASE wire[1].request # run.request
  <2>1. run' = Seen(TRUE)
    BY <1>2, <1>8 DEF Read
  <2>2. ~ \E lo \in 1..Len(Reply), hi \in 1..Len(Reply) : hi < Len(Reply) /\ Head(wire) = Reply[hi + 1]
    <3>1. \A hi \in 1..Len(Reply) : hi < Len(Reply) => hi + 1 \in 1..Len(Reply)
      BY <1>4
    <3>2. \A k \in 1..Len(Reply) : Reply[k].request = run.request
      BY ReplyFacts
    <3>. QED
      BY <1>2, <1>8, <3>1, <3>2
  <2>3. run.chunks = <<>> /\ run.count = 0
    BY <1>1, <2>2 DEF CollectSound, Received, At
  <2>4. run'.chunks = <<>> /\ run'.count = 0
    BY <2>1, <2>3, SeenFacts
  <2>. QED
    BY <1>5, <1>6, <1>7, <2>4 DEF CollectSound, Received
<1>9. CASE wire[1].request = run.request
  <2>1. run' = Receive(wire[1])
    BY <1>2, <1>9 DEF Read
  <2>2. /\ run'.chunks = Append(run.chunks, wire[1])
        /\ run'.count = run.count + Cardinality(wire[1].candles)
        /\ run'.pc = IF ReadsOn(wire[1].more) THEN "read" ELSE "page"
        /\ run.chunks \in Seq(Message) /\ run'.chunks \in Seq(Message)
        /\ Len(run'.chunks) = Len(run.chunks) + 1 /\ run'.chunks[Len(run.chunks) + 1] = wire[1]
        /\ \A j \in 1..Len(run.chunks) : run'.chunks[j] = run.chunks[j]
        /\ Len(run.chunks) \in Nat
    <3>1. run.chunks \in Seq(Message)
      BY <1>1 DEF Run
    <3>2. PICK seen \in Run :
            /\ seen = Seen(wire[1].more) /\ seen.chunks = run.chunks /\ seen.count = run.count
            /\ seen.pc = IF ReadsOn(wire[1].more) THEN "read" ELSE "page"
      BY SeenFacts
    <3>3. run' = [seen EXCEPT !.chunks = Append(@, wire[1]), !.count = @ + Cardinality(wire[1].candles)]
      BY <2>1, <3>2 DEF Receive
    <3>4. /\ run'.chunks = Append(run.chunks, wire[1])
          /\ run'.count = run.count + Cardinality(wire[1].candles)
          /\ run'.pc = IF ReadsOn(wire[1].more) THEN "read" ELSE "page"
      BY <3>2, <3>3 DEF Run
    <3>5. Append(run.chunks, wire[1]) \in Seq(Message)
      BY <1>2, <3>1
    <3>. QED
      BY <1>2, <3>1, <3>4, <3>5
  <2>3. CASE wire[1] = Refusal(run.request) /\ run.chunks = <<>> /\ run.count = 0
    <3>1. ~ wire[1].more /\ wire[1].candles = {} /\ Cardinality({}) = 0
      BY <2>3, FS_EmptySet DEF Refusal
    <3>2. run'.pc = "page" /\ run'.count = 0 /\ run'.chunks = <<Refusal(run.request)>>
      BY <2>2, <2>3, <3>1 DEF ReadsOn
    <3>3. Refusal(run.request)' = Refusal(run.request)
      BY <1>3 DEF Refusal
    <3>. QED
      BY <1>5, <1>6, <1>7, <3>2, <3>3 DEF CollectSound, Received, At
  <2>4. ASSUME NEW k \in 1..Len(Reply), wire[1] = Reply[k],
               k < Len(Reply) => 1 < Len(wire) /\ wire[2] = Reply[k + 1],
               \/ run.chunks = <<>> /\ run.count = 0
               \/ \E lo \in 1..Len(Reply), hi \in 1..Len(Reply) :
                    Holds(lo, hi) /\ run.count = Cardinality(Candles) /\ k = hi + 1
        PROVE  CollectSound'
    <3>1. wire[1].more = (k < Len(Reply)) /\ wire[1].candles = Piece(Asked, k)
      BY <2>4, ReplyFacts
    <3>2. k < Len(Reply) => wire' # <<>> /\ Head(wire') = Reply[k + 1]
      <4>1. k < Len(Reply) => 1 \in 1..Len(wire')
        BY <1>2, <2>4
      <4>. QED
        BY <1>2, <2>4, <4>1
    <3>3. Candles' = Candles \cup Piece(Asked, k)
      BY <2>2, <3>1, CandlesGrow
    <3>4. \E lo \in 1..Len(Reply) :
            Holds(lo, k)' /\ Candles' = Span(lo, k) /\ run'.count = Cardinality(Span(lo, k))
      <4>1. CASE run.chunks = <<>> /\ run.count = 0
        <5>1. Len(run'.chunks) = 1 /\ run'.chunks[1] = Reply[k] /\ k - k + 1 = 1 /\ k + 1 - 1 = k
          BY <2>2, <2>4, <4>1
        <5>2. Holds(k, k)'
          BY <1>4, <5>1 DEF Holds
        <5>3. Span(k, k) = Piece(Asked, k) /\ Cardinality(Piece(Asked, k)) \in Nat
          <6>1. k \in Nat /\ k <= k /\ Piece(Asked, k) \in SUBSET (1..Now)
            BY AskedFacts DEF Piece
          <6>. QED
            BY <6>1, SpanGrows, CandlesFinite
        <5>4. Candles = {}
          BY <4>1 DEF Candles
        <5>. QED
          BY <2>2, <3>1, <3>3, <4>1, <5>2, <5>3, <5>4
      <4>2. ASSUME NEW lo \in 1..Len(Reply), NEW hi \in 1..Len(Reply),
                   Holds(lo, hi), run.count = Cardinality(Candles), k = hi + 1
            PROVE  Holds(lo, k)' /\ Candles' = Span(lo, k) /\ run'.count = Cardinality(Span(lo, k))
        <5>1. lo <= hi /\ lo \in Nat /\ hi \in Nat /\ Len(run.chunks) = hi - lo + 1
          BY <4>2 DEF Holds
        <5>2. /\ Candles = Span(lo, hi) /\ Span(lo, hi + 1) = Span(lo, hi) \cup Piece(Asked, hi + 1)
              /\ Cardinality(Span(lo, hi + 1)) = Cardinality(Span(lo, hi)) + Cardinality(Piece(Asked, hi + 1))
          BY <4>2, <5>1, HeldCandles, SpanGrows
        <5>3. Candles' = Span(lo, k) /\ run'.count = Cardinality(Span(lo, k))
          BY <2>2, <3>1, <3>3, <4>2, <5>2
        <5>4. Len(run'.chunks) = k - lo + 1
          BY <2>2, <4>2, <5>1
        <5>5. \A j \in 1..Len(run'.chunks) : run'.chunks[j] = Reply[lo + j - 1]
          <6>. TAKE j \in 1..Len(run'.chunks)
          <6>1. CASE j \in 1..Len(run.chunks)
            BY <2>2, <4>2, <6>1 DEF Holds
          <6>2. CASE j \notin 1..Len(run.chunks)
            <7>1. j = Len(run.chunks) + 1 /\ lo + j - 1 = k
              BY <2>2, <4>2, <5>1, <6>2
            <7>. QED
              BY <2>2, <2>4, <7>1
          <6>. QED
            BY <6>1, <6>2
        <5>6. lo \in 1..Len(Reply)' /\ k \in lo..Len(Reply)'
          BY <1>4, <4>2, <5>1
        <5>7. \A j \in 1..Len(run'.chunks) : run'.chunks[j] = Reply'[lo + j - 1]
          BY <1>4, <5>5
        <5>. QED
          BY <5>3, <5>4, <5>6, <5>7 DEF Holds
      <4>. QED
        BY <2>4, <4>1, <4>2
    <3>5. PICK lo \in 1..Len(Reply) : Holds(lo, k)' /\ run'.count = Cardinality(Candles')
      BY <3>4
    <3>6. CASE k < Len(Reply)
      <4>1. run'.pc = IF ReadsOn(TRUE) THEN "read" ELSE "page"
        BY <2>2, <3>1, <3>6
      <4>2. CASE ReadsOn(TRUE)
        BY <1>4, <1>5, <1>6, <1>7, <3>2, <3>5, <3>6, <4>1, <4>2 DEF CollectSound, Received, At
      <4>3. CASE ~ ReadsOn(TRUE)
        <5>1. ~ RepliesFit
          BY <1>9, <3>1, <3>6, <4>3, ReadsOnInTime
        <5>. QED
          BY <1>4, <1>5, <1>6, <1>7, <3>5, <4>1, <4>3, <5>1 DEF CollectSound, Received, At
      <4>. QED
        BY <4>2, <4>3
    <3>7. CASE ~ (k < Len(Reply))
      <4>1. run'.pc = "page" /\ k = Len(Reply)
        <5>1. k = Len(Reply)
          BY <1>4, <3>7
        <5>2. ~ wire[1].more
          BY <3>1, <3>7
        <5>. QED
          BY <2>2, <5>1, <5>2 DEF ReadsOn
      <4>. QED
        BY <1>4, <1>5, <1>6, <1>7, <3>5, <4>1 DEF CollectSound, Received, At
    <3>. QED
      BY <3>6, <3>7
  <2>. QED
    BY <1>9, <2>3, <2>4, ReadPart
<1>. QED
  BY <1>8, <1>9

(* What is asked for reaches up to the end: if a candle is asked for, so   *)
(* is every later one before the end.                                      *)
LEMMA AskedUpward ==
  ASSUME TypeOK, NEW c \in Asked, NEW d \in Before, c < d
  PROVE  d \in Asked
<1>. DEFINE n == Min({PageSize, TotalNeeded - run.taken})
            C == {e \in Before : e > c}
            D == {e \in Before : e > d}
<1>1. Before \in SUBSET (1..Now) /\ Asked \subseteq Before
  BY AskedFacts
<1>2. Now \in Nat /\ \A e \in Before : e \in Nat
  <2>1. Now \in Nat
    BY ConstantFacts
  <2>. QED
    BY <1>1, <2>1
<1>3. C \in SUBSET (1..Now) /\ D \subseteq C
  <2>1. \A e \in Before : e > d => e > c
    BY <1>1, <1>2
  <2>2. C \subseteq Before
    OBVIOUS
  <2>. QED
    BY <1>1, <2>1, <2>2
<1>4. Cardinality(D) <= Cardinality(C) /\ Cardinality(C) \in Nat /\ Cardinality(D) \in Nat
  <2>1. IsFiniteSet(C) /\ Cardinality(C) \in Nat /\ D \in SUBSET (1..Now)
    BY <1>3, CandlesFinite
  <2>2. Cardinality(D) <= Cardinality(C)
    BY <1>3, <2>1, FS_Subset
  <2>. QED
    BY <2>1, <2>2, CandlesFinite
<1>5. n \in Int
  <2>1. run.taken \in Nat /\ PageSize \in Nat /\ TotalNeeded \in Nat
    BY ConstantFacts DEF TypeOK, Run
  <2>2. PICK a \in Int, b \in Int : a = PageSize /\ b = TotalNeeded - run.taken
    BY <2>1
  <2>3. \E x \in {a, b} : \A y \in {a, b} : x <= y
    BY <2>2
  <2>4. Min({a, b}) \in {a, b}
    BY <2>3 DEF Min
  <2>. QED
    BY <2>2, <2>4
<1>6. Cardinality(C) < n
  BY DEF Asked, LastOf
<1>. QED
  BY <1>4, <1>5, <1>6 DEF Asked, LastOf

(* Something is asked for as long as there is something before the end.    *)
LEMMA SomethingAsked ==
  ASSUME TypeOK, run.taken < TotalNeeded, Before # {}
  PROVE  Asked # {}
<1>1. Before \in SUBSET (1..Now) /\ Now \in Nat
  BY AskedFacts, ConstantFacts
<1>2. PICK c \in Before : \A d \in Before : d <= c
  <2>1. Before \in SUBSET (0..Now)
    BY <1>1
  <2>. QED
    BY <1>1, <2>1, GreatestExists
<1>3. {d \in Before : d > c} = {}
  <2>1. \A d \in Before : ~ (d > c)
    BY <1>1, <1>2
  <2>. QED
    BY <2>1
<1>4. 0 < Min({PageSize, TotalNeeded - run.taken})
  <2>1. PICK n \in Nat \ {0} : n = TotalNeeded - run.taken
    <3>1. run.taken \in Nat /\ TotalNeeded \in Nat
      BY ConstantFacts DEF TypeOK, Run
    <3>. QED
      BY <3>1
  <2>2. PageSize \in Nat \ {0} /\ {PageSize, n} \in SUBSET Nat /\ {PageSize, n} # {}
    BY <2>1, ConstantFacts
  <2>3. Min({PageSize, n}) \in {PageSize, n}
    BY <2>2, LeastExists
  <2>. QED
    BY <2>1, <2>2, <2>3
<1>5. c \in Asked
  BY <1>2, <1>3, <1>4, FS_EmptySet DEF Asked, LastOf
<1>. QED
  BY <1>5

(* The last parts of a reply are what the market has from their first      *)
(* candle up to the end.                                                   *)
LEMMA LastSpan ==
  ASSUME TypeOK, NEW lo \in 1..Len(Reply), Asked # {}
  PROVE  /\ Piece(Asked, lo) # {} /\ Piece(Asked, lo) \subseteq Span(lo, Len(Reply))
         /\ Min(Piece(Asked, lo)) \in Asked
         /\ Span(lo, Len(Reply)) = {c \in Before : c >= Min(Piece(Asked, lo))}
<1>. DEFINE piece == Piece(Asked, lo)
            q(c) == Rank(Asked, c) \div ChunkSize
<1>1. /\ Asked \in SUBSET (1..Now) /\ Asked \subseteq Before /\ Before \subseteq 1..Now /\ Now \in Nat
      /\ Len(Reply) = Parts(Asked) /\ Len(Reply) \in Nat \ {0} /\ lo \in Nat
  BY AskedFacts, ReplyFacts, ConstantFacts
<1>2. piece # {} /\ piece \subseteq Asked /\ piece \in SUBSET Nat
  <2>1. piece # {}
    BY <1>1, PartsFacts
  <2>2. piece \subseteq Asked
    BY DEF Piece
  <2>3. Asked \subseteq Nat
    BY <1>1
  <2>. QED
    BY <2>1, <2>2, <2>3
<1>3. PICK m \in piece : m = Min(piece) /\ \A c \in piece : m <= c
  BY <1>2, LeastExists
<1>4. \A c \in Asked : q(c) \in Nat /\ q(c) <= Len(Reply) - 1 /\ Rank(Asked, c) \in Nat
  <2>. TAKE c \in Asked
  <2>1. Rank(Asked, c) \in Nat
    <3>1. Cardinality(Asked) \in Nat /\ Rank(Asked, c) \in 0..(Cardinality(Asked) - 1)
      BY <1>1, RankType
    <3>. QED
      BY <3>1
  <2>2. q(c) \in Nat
    BY <2>1, ConstantFacts, Quotient
  <2>3. q(c) + 1 \in 1..Parts(Asked)
    BY <1>1, PartsFacts
  <2>. QED
    BY <1>1, <2>1, <2>2, <2>3
<1>5. \A c, d \in Asked : c < d => q(c) <= q(d)
  <2>. SUFFICES ASSUME NEW c \in Asked, NEW d \in Asked, c < d PROVE q(c) <= q(d)
    OBVIOUS
  <2>1. Rank(Asked, c) < Rank(Asked, d)
    BY <1>1, RankGrows
  <2>2. PICK a \in Nat, b \in Nat : a = Rank(Asked, c) /\ b = Rank(Asked, d)
    BY <1>4
  <2>3. /\ a \div ChunkSize \in Nat /\ (a \div ChunkSize) * ChunkSize <= a
        /\ \A k \in Nat : k * ChunkSize <= b => k <= b \div ChunkSize
    BY ConstantFacts, Quotient
  <2>4. (a \div ChunkSize) * ChunkSize <= b
    <3>1. PICK x \in Int : x = (a \div ChunkSize) * ChunkSize
      BY <2>3, ConstantFacts
    <3>. QED
      BY <2>1, <2>2, <2>3, <3>1
  <2>. QED
    BY <2>2, <2>3, <2>4
<1>6. m \in Asked /\ q(m) = lo - 1 /\ \A c \in Asked : q(c) = lo - 1 => c \in piece
  BY <1>2 DEF Piece
<1>. HIDE DEF q, piece
<1>7. \A c \in Asked : q(c) >= lo - 1 <=> c >= m
  <2>. SUFFICES ASSUME NEW c \in Asked PROVE q(c) >= lo - 1 <=> c >= m
    OBVIOUS
  <2>1. c \in Nat /\ m \in Nat
    BY <1>1, <1>6
  <2>2. CASE c = m
    BY <1>1, <1>6, <2>1, <2>2
  <2>3. CASE m < c
    BY <1>1, <1>4, <1>5, <1>6, <2>1, <2>3
  <2>4. CASE c < m
    <3>1. q(c) <= lo - 1 /\ q(c) \in Nat
      BY <1>4, <1>5, <1>6, <2>4
    <3>2. q(c) # lo - 1
      BY <1>3, <1>6, <2>1, <2>4
    <3>. QED
      BY <1>1, <2>1, <2>4, <3>1, <3>2
  <2>. QED
    BY <2>1, <2>2, <2>3, <2>4
<1>8. Span(lo, Len(Reply)) = {c \in Asked : q(c) >= lo - 1}
  <2>1. \A c \in Asked : q(c) \in (lo - 1)..(Len(Reply) - 1) <=> q(c) >= lo - 1
    BY <1>1, <1>4
  <2>2. Span(lo, Len(Reply)) = {c \in Asked : q(c) \in (lo - 1)..(Len(Reply) - 1)}
    BY DEF Span, q
  <2>. QED
    BY <2>1, <2>2
<1>9. {c \in Asked : c >= m} = {c \in Before : c >= m}
  <2>1. \A c \in Before : c >= m => c = m \/ m < c
    BY <1>1, <1>6
  <2>. QED
    BY <1>1, <1>6, <2>1, AskedUpward
<1>10. piece \subseteq Span(lo, Len(Reply))
  BY <1>1, <1>8 DEF piece, Piece, q
<1>. QED
  BY <1>2, <1>3, <1>6, <1>7, <1>8, <1>9, <1>10 DEF piece

(* Where a page has candles, they are parts of the reply, and if an attempt*)
(* reads enough, its last.                                                 *)
LEMMA PageFacts ==
  ASSUME TypeOK, CollectSound, At("page"), run.chunks # <<>>, ~ run.chunks[1].error
  PROVE  \E lo \in 1..Len(Reply), hi \in 1..Len(Reply) :
           /\ run.chunks[1] = Reply[lo] /\ run.count = Cardinality(Candles)
           /\ Candles = Span(lo, hi) /\ Piece(Asked, lo) \subseteq Span(lo, hi)
           /\ RepliesFit => hi = Len(Reply)
<1>1. run.chunks # <<Refusal(run.request)>>
  BY DEF Refusal
<1>2. PICK lo \in 1..Len(Reply), hi \in 1..Len(Reply) :
        Holds(lo, hi) /\ run.count = Cardinality(Candles) /\ (RepliesFit => hi = Len(Reply))
  BY <1>1 DEF CollectSound, Received, At
<1>3. run.chunks[1] = Reply[lo]
  <2>1. run.chunks \in Seq(Message)
    BY DEF TypeOK, Run
  <2>2. 1 \in 1..Len(run.chunks) /\ lo \in Nat /\ lo + 1 - 1 = lo
    BY <2>1, ReplyFacts
  <2>. QED
    BY <1>2, <2>2 DEF Holds
<1>4. run.chunks[1].candles = Piece(Asked, lo)
  BY <1>3, ReplyFacts
<1>5. Piece(Asked, lo) \subseteq Candles
  <2>1. run.chunks \in Seq(Message)
    BY DEF TypeOK, Run
  <2>2. 1 \in DOMAIN run.chunks
    BY <2>1
  <2>. QED
    BY <1>4, <2>2 DEF Candles
<1>. QED
  BY <1>2, <1>3, <1>5, HeldCandles

(* A refusal is all that has been received, if it is the first.            *)
LEMMA RefusedPage ==
  ASSUME TypeOK, CollectSound, At("page"), Candles # {}
  PROVE  run.chunks # <<>> /\ ~ run.chunks[1].error
<1>1. run.chunks # <<>>
  BY DEF Candles
<1>2. ASSUME run.chunks = <<Refusal(run.request)>> PROVE FALSE
  <2>1. Candles = Refusal(run.request).candles
    BY <1>2 DEF Candles
  <2>. QED
    BY <2>1 DEF Refusal
<1>3. PICK lo \in 1..Len(Reply), hi \in 1..Len(Reply) : Holds(lo, hi)
  BY <1>1, <1>2 DEF CollectSound, Received, At
<1>4. 1 \in 1..Len(run.chunks) /\ lo \in Nat /\ lo + 1 - 1 = lo
  <2>1. run.chunks \in Seq(Message)
    BY DEF TypeOK, Run
  <2>. QED
    BY <1>1, <2>1, ReplyFacts
<1>5. run.chunks[1] = Reply[lo]
  BY <1>3, <1>4 DEF Holds
<1>. QED
  BY <1>1, <1>5, ReplyFacts

(* The page that is added has what lies before the history.                *)
LEMMA PageAdds ==
  ASSUME TypeOK, CollectSound, Page
  PROVE  /\ run.chunks[1].candles # {}
         /\ Min(run.chunks[1].candles) \in 1..(Now + 1)
         /\ RepliesFit =>
              /\ run.history \cup Candles = {c \in market.candles : c >= Min(run.chunks[1].candles)}
              /\ run.taken + run.count = Cardinality(run.history \cup Candles)
<1>1. At("page") /\ Candles # {}
  BY DEF Page
<1>2. run.chunks # <<>> /\ ~ run.chunks[1].error
  BY <1>1, RefusedPage
<1>3. PICK lo \in 1..Len(Reply), hi \in 1..Len(Reply) :
        /\ run.chunks[1] = Reply[lo] /\ run.count = Cardinality(Candles)
        /\ Candles = Span(lo, hi) /\ (RepliesFit => hi = Len(Reply))
  BY <1>1, <1>2, PageFacts
<1>4. Asked # {}
  BY <1>1, <1>3 DEF Span
<1>5. run.chunks[1].candles = Piece(Asked, lo)
  BY <1>3, ReplyFacts
<1>6. PICK m \in Asked : /\ m = Min(run.chunks[1].candles) /\ Piece(Asked, lo) # {}
                         /\ Span(lo, Len(Reply)) = {c \in Before : c >= m}
  BY <1>3, <1>4, <1>5, LastSpan
<1>0. m \in 1..(Now + 1)
  <2>1. m \in 1..Now /\ Now \in Nat
    BY <1>6, AskedFacts, ConstantFacts
  <2>. QED
    BY <2>1
<1>. SUFFICES ASSUME RepliesFit
              PROVE  /\ run.history \cup Candles = {c \in market.candles : c >= m}
                     /\ run.taken + run.count = Cardinality(run.history \cup Candles)
  BY <1>0, <1>5, <1>6
<1>12. Candles = {c \in Before : c >= m}
  BY <1>3, <1>6
<1>7. /\ Asked \subseteq Before /\ market.candles \subseteq 1..Now /\ Now \in Nat
      /\ run.end \in 1..(Now + 1)
      /\ run.history = {c \in market.candles : c >= run.end}
      /\ run.taken = Cardinality(run.history)
  BY <1>1, AskedFacts, ConstantFacts DEF CollectSound, Growing, At
<1>8. m \in 1..Now /\ m < run.end
  BY <1>6, <1>7 DEF Before
<1>9. run.history \cup Candles = {c \in market.candles : c >= m}
  <2>1. \A c \in market.candles : c >= m <=> c >= run.end \/ (c < run.end /\ c >= m)
    BY <1>7, <1>8
  <2>2. Candles = {c \in market.candles : c < run.end /\ c >= m}
    BY <1>12 DEF Before
  <2>. QED
    BY <1>7, <2>1, <2>2
<1>10. run.history \cap Candles = {}
  <2>1. \A c \in market.candles : ~ (c >= run.end /\ c < run.end)
    BY <1>7
  <2>. QED
    BY <1>7, <1>12, <2>1 DEF Before
<1>11. Cardinality(run.history \cup Candles) = Cardinality(run.history) + Cardinality(Candles)
  <2>1. run.history \in SUBSET (1..Now) /\ Candles \in SUBSET (1..Now)
    BY <1>7, <1>12 DEF Before
  <2>2. /\ IsFiniteSet(run.history) /\ IsFiniteSet(Candles)
        /\ Cardinality(run.history) \in Nat /\ Cardinality(Candles) \in Nat
    BY <2>1, CandlesFinite
  <2>3. Cardinality(run.history \cap Candles) = 0
    BY <1>10, FS_EmptySet
  <2>4. Cardinality(run.history \cup Candles)
          = Cardinality(run.history) + Cardinality(Candles) - Cardinality(run.history \cap Candles)
    BY <2>2, FS_Union
  <2>. QED
    BY <2>2, <2>3, <2>4
<1>. QED
  BY <1>3, <1>7, <1>9, <1>11

(* A page is added, and the next request ends before it.                   *)
LEMMA PageCollects ==
  ASSUME TypeOK, CollectSound, Page
  PROVE  CollectSound'
<1>1. /\ run \in Run /\ market' = market /\ wire' = wire
      /\ run' = [run EXCEPT !.pc = "ask", !.end = Min(run.chunks[1].candles), !.history = @ \cup Candles,
                            !.taken = @ + run.count, !.chunks = <<>>, !.count = 0]
  BY DEF Page, TypeOK
<1>2. /\ run'.pc = "ask" /\ run'.end = Min(run.chunks[1].candles) /\ run'.history = run.history \cup Candles
      /\ run'.taken = run.taken + run.count /\ run'.chunks = <<>> /\ run'.count = 0
      /\ run'.request = run.request
  <2>. DEFINE m == Min(run.chunks[1].candles)
              h == run.history \cup Candles
              t == run.taken + run.count
  <2>1. run' = [run EXCEPT !.pc = "ask", !.end = m, !.history = h, !.taken = t, !.chunks = <<>>, !.count = 0]
    BY <1>1
  <2>. HIDE DEF m, h, t
  <2>2. /\ run'.pc = "ask" /\ run'.end = m /\ run'.history = h /\ run'.taken = t
        /\ run'.chunks = <<>> /\ run'.count = 0 /\ run'.request = run.request
    BY <1>1, <2>1 DEF Run
  <2>. QED
    BY <2>2 DEF m, h, t
<1>3. InOrder'
  BY <1>1, <1>2 DEF CollectSound, InOrder, At
<1>. QED
  BY <1>1, <1>2, <1>3, PageAdds DEF CollectSound, Received, Growing, HistoryWhole, At

(* A collection ends with the whole history.                               *)
LEMMA EndCollects ==
  ASSUME TypeOK, CollectSound, NoPage \/ ErrorPage \/ LastPage \/ Enough
  PROVE  CollectSound'
<1>1. PICK g \in BOOLEAN :
        /\ Collected(g) /\ run.pc \in {"ask", "page"}
        /\ \/ g
           \/ run.taken >= TotalNeeded
           \/ At("page") /\ run.chunks # <<>> /\ ~ run.chunks[1].error /\ Candles = {}
  BY DEF NoPage, ErrorPage, LastPage, Enough, At
<1>2. /\ run \in Run /\ market' = market /\ wire' = <<>>
      /\ run' = [run EXCEPT !.pc = "prepare", !.chunks = <<>>, !.count = 0, !.gaveUp = g]
  BY <1>1 DEF Collected, TypeOK
<1>3. /\ run'.pc = "prepare" /\ run'.chunks = <<>> /\ run'.count = 0 /\ run'.gaveUp = g
      /\ run'.history = run.history /\ run'.taken = run.taken /\ run'.request = run.request
  BY <1>2 DEF Run
<1>4. /\ RepliesFit => /\ run.history = {c \in market.candles : c >= run.end}
                       /\ run.taken = Cardinality(run.history)
      /\ market.candles \subseteq 1..Now /\ run.end \in 1..(Now + 1) /\ Now \in Nat
      /\ At("page") => run.taken < TotalNeeded
  BY <1>1, AskedFacts, ConstantFacts DEF CollectSound, Growing, At
<1>5. ASSUME RepliesFit PROVE run.history = {c \in market.candles : \E d \in run.history : d <= c}
  <2>1. \A c, d \in market.candles : d >= run.end /\ d <= c => c >= run.end
    BY <1>4
  <2>2. \A c \in market.candles : c <= c
    BY <1>4
  <2>. QED
    BY <1>4, <1>5, <2>1, <2>2
<1>6. ASSUME RepliesFit, At("page"), run.chunks # <<>>, ~ run.chunks[1].error, Candles = {}
      PROVE  run.history = market.candles
  <2>1. PICK lo \in 1..Len(Reply) : Candles = Span(lo, Len(Reply))
    BY <1>6, PageFacts
  <2>2. Asked = {}
    BY <1>6, <2>1, LastSpan
  <2>3. Before = {}
    BY <1>4, <1>6, <2>2, SomethingAsked
  <2>4. \A c \in market.candles : ~ (c < run.end) => c >= run.end
    BY <1>4
  <2>. QED
    BY <1>4, <1>6, <2>3, <2>4 DEF Before
<1>7. ASSUME RepliesFit PROVE HistoryWhole'
  <2>1. /\ run'.history = {c \in market'.candles : \E d \in run'.history : d <= c}
        /\ run'.taken = Cardinality(run'.history)
    <3>1. market'.candles = market.candles
      BY <1>2
    <3>2. run'.history = {c \in market.candles : \E d \in run'.history : d <= c}
      BY <1>3, <1>5, <1>7
    <3>3. run'.taken = Cardinality(run'.history)
      BY <1>3, <1>4, <1>7
    <3>. QED
      BY <3>1, <3>2, <3>3
  <2>2. run'.gaveUp \/ run'.taken >= TotalNeeded \/ run'.history = market'.candles
    BY <1>1, <1>2, <1>3, <1>6, <1>7
  <2>. QED
    BY <2>1, <2>2 DEF HistoryWhole
<1>8. Len(wire') = 0 /\ 1..0 = {}
  BY <1>2
<1>. QED
  BY <1>2, <1>3, <1>7, <1>8 DEF CollectSound, InOrder, Received, Growing, At

(* A collection begins without a history.                                  *)
LEMMA BeginCollects ==
  ASSUME TypeOK, CollectSound, Begin
  PROVE  CollectSound'
<1>1. /\ run \in Run /\ market' = market /\ wire' = wire /\ At("next")
      /\ run' = [run EXCEPT !.pc = "ask", !.end = Now + 1]
  BY DEF Begin, TypeOK
<1>2. /\ run'.pc = "ask" /\ run'.end = Now + 1 /\ run'.history = run.history /\ run'.taken = run.taken
      /\ run'.chunks = run.chunks /\ run'.count = run.count
  BY <1>1 DEF Run
<1>3. /\ run.history = {} /\ run.taken = 0 /\ run.chunks = <<>> /\ run.count = 0 /\ wire = <<>>
      /\ market.candles \subseteq 1..Now /\ Now \in Nat
  BY <1>1, AskedFacts, ConstantFacts DEF CollectSound, Growing, At
<1>4. {c \in market.candles : c >= Now + 1} = {} /\ Now + 1 \in 1..(Now + 1) /\ Cardinality({}) = 0
  <2>1. \A c \in market.candles : ~ (c >= Now + 1)
    BY <1>3
  <2>. QED
    BY <1>3, <2>1, FS_EmptySet
<1>5. Len(wire') = 0 /\ 1..0 = {}
  BY <1>1, <1>3
<1>. QED
  BY <1>1, <1>2, <1>3, <1>4, <1>5 DEF CollectSound, InOrder, Received, Growing, HistoryWhole, At

(* What a training passes to the next market, or leaves.                   *)
LEMMA OutsideFacts ==
  /\ Idle.pc = "idle" /\ Idle.chunks = <<>> /\ Idle.count = 0
  /\ Idle.history = {} /\ Idle.taken = 0
  /\ NextOne.pc = "next" /\ NextOne.chunks = <<>> /\ NextOne.count = 0
  /\ NextOne.history = {} /\ NextOne.taken = 0
BY DEF Idle, NextOne

(* Steps outside the collection.                                           *)
LEMMA TrainingCollects ==
  ASSUME TypeOK, CollectSound, run' \in Run,
         \/ Start \/ Skip \/ AllDone \/ CollectFails \/ Prepare \/ TooLittle \/ Train
         \/ Export \/ Restart \/ KillCommand
  PROVE  CollectSound'
<1>. run \in Run
  BY DEF TypeOK
<1>1. CASE Start
  <2>1. PICK by, todo : run' = [Idle EXCEPT !.pc = "next", !.by = by, !.todo = todo]
    BY <1>1 DEF Start
  <2>2. /\ run'.pc = "next" /\ run'.chunks = <<>> /\ run'.count = 0
        /\ run'.history = {} /\ run'.taken = 0
    BY <2>1 DEF Idle
  <2>3. wire' = <<>>
    BY <1>1 DEF Start, CollectSound, Growing, At
  <2>. QED
    BY <2>2, <2>3, CollectOutside
<1>2. CASE Skip \/ AllDone \/ Finish
  <2>1. run' \in {Idle, NextOne} /\ wire' = <<>>
    BY <1>2 DEF Skip, AllDone, Finish, CollectSound, Growing, At
  <2>. QED
    BY <2>1, OutsideFacts, CollectOutside
<1>3. CASE CollectFails \/ TooLittle \/ ExportFails \/ KillCommand
  <2>1. run' \in {Idle, NextOne} /\ wire' = <<>>
    BY <1>3 DEF CollectFails, TooLittle, ExportFails, KillCommand, Abandon
  <2>. QED
    BY <2>1, OutsideFacts, CollectOutside
<1>4. CASE Prepare \/ Train \/ OpenModel \/ WriteModel \/ OpenMetadata \/ WriteMetadata
  <2>1. PICK pc \in {"train", "export", "dump", "describe", "metadata", "results"} :
          run' = [run EXCEPT !.pc = pc]
    BY <1>4 DEF Prepare, Train, OpenModel, WriteModel, OpenMetadata, WriteMetadata, Goto
  <2>2. run.pc \notin {"ask", "read", "page"}
    BY <1>4 DEF Prepare, Train, OpenModel, WriteModel, OpenMetadata, WriteMetadata, At
  <2>3. wire' = <<>> /\ run.chunks = <<>> /\ run.count = 0
    BY <1>4, <2>2 DEF Prepare, Train, OpenModel, WriteModel, OpenMetadata, WriteMetadata, StoreOnly,
                      CollectSound, Growing
  <2>4. run'.pc = pc /\ run'.chunks = <<>> /\ run'.count = 0
    BY <2>1, <2>3 DEF Run
  <2>. QED
    BY <2>3, <2>4, CollectOutside
<1>5. CASE Restart
  <2>1. CASE run.by = "retrain"
    <3>1. run' = Idle /\ wire' = <<>>
      BY <1>5, <2>1 DEF Restart
    <3>. QED
      BY <3>1, OutsideFacts, CollectOutside
  <2>2. CASE run.by # "retrain"
    BY <1>5, <2>2, CollectQuiet DEF Restart
  <2>. QED
    BY <2>1, <2>2
<1>. QED
  BY <1>1, <1>2, <1>3, <1>4, <1>5 DEF Export

(* Every step keeps the collection sound.                                  *)
LEMMA CollectStep ==
  ASSUME TypeOK, CollectInv, run' \in Run, [Next]_vars
  PROVE  CollectSound'
<1>. CollectSound
  BY DEF CollectInv
<1>1. CASE Training
  <2>1. CASE Collect
    BY <2>1, AskCollects, ReadCollects, TimeoutCollects, EndCollects, PageCollects, TrainingCollects DEF Collect
  <2>2. CASE Begin
    BY <2>2, BeginCollects
  <2>. QED
    BY <1>1, <2>1, <2>2, TrainingCollects DEF Training
<1>2. CASE Use
  BY <1>2, CollectQuiet DEF Use, Look, Describe, Load, Predict, TrainingStays
<1>3. CASE Restart \/ KillCommand
  BY <1>3, TrainingCollects
<1>4. CASE UNCHANGED vars
  BY <1>4, CollectQuiet DEF vars
<1>. QED
  BY <1>1, <1>2, <1>3, <1>4 DEF Next

-----------------------------------------------------------------------------
(* The messages of an attempt                                              *)

(* No more is asked for than a page.                                       *)
LEMMA AskedBounded ==
  ASSUME TypeOK
  PROVE  Cardinality(Asked) <= PageSize
<1>. DEFINE n == Min({PageSize, TotalNeeded - run.taken})
            After(c) == {d \in Before : d > c}
            f == [c \in Asked |-> Cardinality(After(c))]
<1>1. Before \in SUBSET (1..Now) /\ Asked \subseteq Before /\ Now \in Nat /\ Asked \in SUBSET (1..Now)
  BY AskedFacts, ConstantFacts
<1>2. n \in Int /\ n <= PageSize /\ PageSize \in Nat
  <2>1. run.taken \in Nat /\ PageSize \in Nat /\ TotalNeeded \in Nat
    BY ConstantFacts DEF TypeOK, Run
  <2>2. PICK a \in Int, b \in Int : a = PageSize /\ b = TotalNeeded - run.taken
    BY <2>1
  <2>3. \E x \in {a, b} : \A y \in {a, b} : x <= y
    BY <2>2
  <2>4. Min({a, b}) \in {a, b} /\ \A y \in {a, b} : Min({a, b}) <= y
    BY <2>3 DEF Min
  <2>. QED
    BY <2>1, <2>2, <2>4
<1>3. \A c \in Asked : Cardinality(After(c)) < n
  BY DEF Asked, LastOf
<1>. HIDE DEF n
<1>4. \A c \in Before : /\ IsFiniteSet(After(c)) /\ Cardinality(After(c)) \in Nat
                        /\ After(c) \in SUBSET (1..Now)
  <2>. TAKE c \in Before
  <2>1. After(c) \in SUBSET (1..Now)
    BY <1>1
  <2>. QED
    BY <2>1, CandlesFinite
<1>5. \A c, d \in Asked : c < d => Cardinality(After(d)) < Cardinality(After(c))
  <2>. SUFFICES ASSUME NEW c \in Asked, NEW d \in Asked, c < d
                PROVE  Cardinality(After(d)) < Cardinality(After(c))
    OBVIOUS
  <2>1. c \in Nat /\ d \in Nat /\ \A e \in Before : e \in Nat
    BY <1>1
  <2>2. d \in After(c) /\ d \notin After(d) /\ \A e \in After(d) : e \in After(c)
    BY <1>1, <2>1
  <2>. HIDE DEF After
  <2>3. IsFiniteSet(After(c)) /\ Cardinality(After(c)) \in Nat /\ Cardinality(After(d)) \in Nat
    BY <1>1, <1>4
  <2>4. Cardinality(After(d)) <= Cardinality(After(c)) /\ Cardinality(After(d)) # Cardinality(After(c))
    <3>1. After(d) \in SUBSET After(c) /\ After(d) # After(c)
      BY <2>2
    <3>. QED
      BY <2>3, <3>1, FS_Subset
  <2>. QED
    BY <2>3, <2>4
<1>6. CASE n <= 0
  <2>1. Asked = {}
    <3>. SUFFICES ASSUME NEW c \in Asked PROVE FALSE
      OBVIOUS
    <3>1. PICK k \in Nat : k = Cardinality(After(c))
      BY <1>1, <1>4
    <3>2. k < n
      BY <1>3, <3>1
    <3>. QED
      BY <1>2, <1>6, <3>2
  <2>. QED
    BY <1>2, <2>1, FS_EmptySet
<1>7. CASE n > 0
  <2>1. f \in [Asked -> 0..(n - 1)]
    <3>1. \A c \in Asked : Cardinality(After(c)) \in 0..(n - 1)
      BY <1>1, <1>2, <1>3, <1>4
    <3>. QED
      BY <3>1
  <2>2. \A c, d \in Asked : f[c] = f[d] => c = d
    <3>. SUFFICES ASSUME NEW c \in Asked, NEW d \in Asked, f[c] = f[d], c # d PROVE FALSE
      OBVIOUS
    <3>1. c < d \/ d < c
      BY <1>1
    <3>2. Cardinality(After(c)) \in Nat /\ Cardinality(After(d)) \in Nat
      BY <1>1, <1>4
    <3>. HIDE DEF After
    <3>. QED
      BY <1>5, <3>1, <3>2
  <2>3. f \in Injection(Asked, 0..(n - 1))
    <3>. HIDE DEF f
    <3>. QED
      BY <2>1, <2>2 DEF Injection, IsInjective
  <2>4. IsFiniteSet(0..(n - 1)) /\ Cardinality(0..(n - 1)) = n
    <3>1. PICK m \in Int : m = n - 1
      BY <1>2
    <3>2. IsFiniteSet(0..m) /\ Cardinality(0..m) = IF 0 > m THEN 0 ELSE m - 0 + 1
      BY FS_Interval
    <3>. QED
      BY <1>2, <1>7, <3>1, <3>2
  <2>5. IsFiniteSet(Asked) /\ Cardinality(Asked) <= Cardinality(0..(n - 1))
    <3>. HIDE DEF f
    <3>. QED
      BY <2>3, <2>4, FS_Injection
  <2>6. Cardinality(Asked) \in Nat
    BY <2>5, FS_CardinalityType
  <2>. QED
    BY <1>2, <2>4, <2>5, <2>6
<1>. QED
  BY <1>2, <1>6, <1>7

(* An answer has no more parts than a page.                                *)
LEMMA PartsBounded ==
  ASSUME TypeOK
  PROVE  Parts(Asked) \in Nat /\ Parts(Asked) <= MaxParts
<1>1. /\ ChunkSize \in Nat \ {0} /\ PageSize \in Nat \ {0} /\ Cardinality(Asked) \in Nat
      /\ Cardinality(Asked) <= PageSize
  BY ConstantFacts, AskedFacts, CandlesFinite, AskedBounded
<1>2. PICK a \in Nat, b \in Nat :
        a = Cardinality(Asked) + ChunkSize - 1 /\ b = PageSize + ChunkSize - 1 /\ a <= b
  <2>1. Cardinality(Asked) + ChunkSize - 1 \in Nat /\ PageSize + ChunkSize - 1 \in Nat
        /\ Cardinality(Asked) + ChunkSize - 1 <= PageSize + ChunkSize - 1
    BY <1>1
  <2>. QED
    BY <2>1
<1>3. /\ a \div ChunkSize \in Nat /\ (a \div ChunkSize) * ChunkSize <= a
      /\ \A k \in Nat : k * ChunkSize <= b => k <= b \div ChunkSize
      /\ b \div ChunkSize \in Nat
  BY <1>1, Quotient
<1>4. a \div ChunkSize <= b \div ChunkSize
  <2>1. (a \div ChunkSize) * ChunkSize <= b
    <3>1. PICK x \in Int : x = (a \div ChunkSize) * ChunkSize
      BY <1>1, <1>3
    <3>. QED
      BY <1>2, <1>3, <3>1
  <2>. QED
    BY <1>3, <2>1
<1>5. MaxParts = b \div ChunkSize /\ MaxParts >= 1
  BY <1>2, PartsBounds DEF MaxParts
<1>6. Parts(Asked) = Max({1, a \div ChunkSize})
  BY <1>2 DEF Parts
<1>7. Parts(Asked) = IF a \div ChunkSize >= 1 THEN a \div ChunkSize ELSE 1
  BY <1>3, <1>6 DEF Max
<1>. QED
  BY <1>3, <1>4, <1>5, <1>7

(* What a request brings ends with the end of an answer.                   *)
LEMMA SendBrings ==
  ASSUME TypeOK, NEW r \in Nat, Send(r)
  PROVE  \E sent \in Seq(Message) :
           /\ wire' = wire \o sent /\ Len(sent) <= MaxParts
           /\ Len(sent) # 0 => FirstEnd(sent, r, Len(sent))
<1>1. wire \in Seq(Message) /\ MaxParts \in Nat \ {0}
  BY PartsBounds DEF TypeOK
<1>2. CASE wire' = wire \o Answer(Asked, r)
  <2>1. PICK sent \in Seq(Message) :
          /\ sent = Answer(Asked, r) /\ Len(sent) \in Nat \ {0} /\ Len(sent) <= MaxParts
          /\ \A k \in 1..Len(sent) :
               sent[k] = [request |-> r, error |-> FALSE, candles |-> Piece(Asked, k), more |-> k < Len(sent)]
    BY AskedFacts, AnswerFacts, PartsBounded
  <2>2. ASSUME NEW k \in 1..Len(sent) PROVE sent[k].request = r /\ sent[k].more = (k < Len(sent))
    <3>1. sent[k] = [request |-> r, error |-> FALSE, candles |-> Piece(Asked, k), more |-> k < Len(sent)]
      BY <2>1
    <3>. QED
      BY <3>1
  <2>3. FirstEnd(sent, r, Len(sent))
    <3>1. PICK n \in Nat \ {0} : n = Len(sent)
      BY <2>1
    <3>2. n \in 1..n /\ \A j \in 1..(n - 1) : j \in 1..n /\ j < n
      BY <3>1
    <3>3. sent[n].request = r /\ ~ sent[n].more
      <4>1. sent[n].request = r /\ sent[n].more = (n < n)
        BY <2>2, <3>1, <3>2
      <4>2. (n < n) = FALSE
        BY <3>1
      <4>3. sent[n].more = FALSE
        BY <4>1, <4>2
      <4>. QED
        BY <4>1, <4>3
    <3>4. ASSUME NEW j \in 1..(n - 1) PROVE sent[j].more
      BY <2>2, <3>1, <3>2
    <3>. QED
      BY <3>1, <3>3, <3>4 DEF FirstEnd, EndAt
  <2>4. wire' = wire \o sent /\ Len(sent) <= MaxParts
    BY <1>2, <2>1
  <2>. QED
    BY <2>3, <2>4
<1>3. CASE wire' = Append(wire, Refusal(r))
  <2>1. Refusal(r) \in Message /\ Refusal(r).request = r /\ ~ Refusal(r).more
    BY DEF Refusal, Message
  <2>2. <<Refusal(r)>> \in Seq(Message) /\ Len(<<Refusal(r)>>) = 1 /\ <<Refusal(r)>>[1] = Refusal(r)
    BY <2>1
  <2>3. FirstEnd(<<Refusal(r)>>, r, 1)
    BY <2>1, <2>2 DEF FirstEnd, EndAt
  <2>4. PICK sent \in Seq(Message) : sent = <<Refusal(r)>>
    BY <2>2
  <2>5. wire' = wire \o sent
    BY <1>1, <1>3, <2>1, <2>4
  <2>6. Len(sent) = 1 /\ FirstEnd(sent, r, 1)
    BY <2>2, <2>3, <2>4
  <2>7. Len(sent) <= MaxParts
    BY <1>1, <2>6
  <2>8. Len(sent) # 0 => FirstEnd(sent, r, Len(sent))
    BY <2>6
  <2>. QED
    BY <2>5, <2>7, <2>8
<1>4. CASE wire' = wire
  <2>1. <<>> \in Seq(Message) /\ Len(<<>>) = 0 /\ wire \o <<>> = wire
    BY <1>1
  <2>2. PICK sent \in Seq(Message) : sent = <<>> /\ Len(sent) = 0
    BY <2>1
  <2>3. wire' = wire \o sent /\ Len(sent) <= MaxParts
    BY <1>1, <1>4, <2>1, <2>2
  <2>4. Len(sent) # 0 => FirstEnd(sent, r, Len(sent))
    BY <2>2
  <2>. QED
    BY <2>3, <2>4
<1>. QED
  BY <1>2, <1>3, <1>4 DEF Send

(* An attempt begins in time, if the one before, or the request before,    *)
(* left no more than its share.                                            *)
LEMMA SendInTime ==
  ASSUME TypeOK, NEW r \in Nat, Send(r), NEW a \in 1..MaxAttempts,
         \/ Len(wire) <= Late /\ \A i \in 1..Len(wire) : wire[i].request # r
         \/ \E e \in 1..Len(wire) : /\ FirstEnd(wire, r, e) /\ e <= Late + MaxParts
                                    /\ Len(wire) - e + MaxParts <= (a - 1) * MaxParts
  PROVE  InTime(wire, r, 0, a)'
<1>1. wire \in Seq(Message) /\ Len(wire) \in Nat
  BY DEF TypeOK
<1>2. PICK sent \in Seq(Message) :
        /\ wire' = wire \o sent /\ Len(sent) <= MaxParts
        /\ Len(sent) # 0 => FirstEnd(sent, r, Len(sent))
  BY SendBrings
<1>3. /\ Len(sent) \in Nat /\ Len(wire') = Len(wire) + Len(sent)
      /\ \A i \in 1..Len(wire) : wire'[i] = wire[i]
      /\ \A k \in 1..Len(sent) : wire'[Len(wire) + k] = sent[k]
  BY <1>1, <1>2
<1>4. MaxParts \in Nat \ {0} /\ Late \in Nat /\ (a - 1) * MaxParts \in Nat
  BY PartsBounds
<1>5. ASSUME Len(wire) <= Late, \A i \in 1..Len(wire) : wire[i].request # r
      PROVE  InTime(wire, r, 0, a)'
  <2>1. CASE Len(sent) = 0
    <3>1. Len(wire') = Len(wire)
      BY <1>3, <2>1
    <3>. QED
      BY <1>3, <1>5, <3>1 DEF InTime
  <2>2. CASE Len(sent) # 0
    <3>. DEFINE e == Len(wire')
    <3>1. Len(sent) >= 1 /\ e \in 1..Len(wire') /\ e = Len(wire) + Len(sent)
      BY <1>1, <1>3, <2>2
    <3>2. FirstEnd(wire', r, e)
      <4>1. EndAt(wire', r, e)
        <5>1. Len(sent) \in 1..Len(sent)
          BY <1>3, <3>1
        <5>. QED
          BY <1>2, <1>3, <2>2, <3>1, <5>1 DEF FirstEnd, EndAt
      <4>2. ASSUME NEW j \in 1..(e - 1) PROVE ~ EndAt(wire', r, j)
        <5>1. CASE j \in 1..Len(wire)
          BY <1>3, <1>5, <5>1 DEF EndAt
        <5>2. CASE j \notin 1..Len(wire)
          <6>1. PICK k \in 1..(Len(sent) - 1) : j = Len(wire) + k
            <7>1. j - Len(wire) \in 1..(Len(sent) - 1) /\ j = Len(wire) + (j - Len(wire))
              BY <1>1, <1>3, <3>1, <5>2
            <7>. QED
              BY <7>1
          <6>2. k \in 1..Len(sent) /\ wire'[j] = sent[k]
            BY <1>3, <6>1
          <6>. QED
            BY <1>2, <2>2, <6>1, <6>2 DEF FirstEnd, EndAt
        <5>. QED
          BY <5>1, <5>2
      <4>. HIDE DEF e
      <4>. QED
        BY <4>1, <4>2 DEF FirstEnd
    <3>3. 0 + e <= Late + MaxParts /\ Len(wire') - e <= (a - 1) * MaxParts
      BY <1>1, <1>2, <1>3, <1>4, <1>5, <3>1
    <3>. QED
      BY <3>1, <3>2, <3>3 DEF InTime
  <2>. QED
    BY <2>1, <2>2
<1>6. ASSUME NEW e \in 1..Len(wire), FirstEnd(wire, r, e), e <= Late + MaxParts,
             Len(wire) - e + MaxParts <= (a - 1) * MaxParts
      PROVE  InTime(wire, r, 0, a)'
  <2>1. e \in 1..Len(wire') /\ e \in Nat
    BY <1>1, <1>3
  <2>2. FirstEnd(wire', r, e)
    <3>1. \A j \in 1..e : j \in 1..Len(wire) /\ wire'[j] = wire[j]
      BY <1>1, <1>3, <2>1
    <3>2. e \in 1..e /\ \A j \in 1..(e - 1) : j \in 1..e
      BY <2>1
    <3>. QED
      BY <1>6, <3>1, <3>2 DEF FirstEnd, EndAt
  <2>3. 0 + e <= Late + MaxParts /\ Len(wire') - e <= (a - 1) * MaxParts
    BY <1>1, <1>2, <1>3, <1>4, <1>6, <2>1
  <2>. QED
    BY <2>1, <2>2, <2>3 DEF InTime
<1>. QED
  BY <1>5, <1>6

(* A new request: no more is late than the wire holds.                     *)
LEMMA AskInTime ==
  ASSUME TypeOK, CollectInv, RepliesFit, Ask
  PROVE  Timely'
<1>1. run \in Run /\ run.request + 1 \in Nat /\ wire \in Seq(Message)
  BY DEF TypeOK, Run
<1>2. run' = [run EXCEPT !.pc = "read", !.request = @ + 1, !.attempt = 1, !.seen = 0, !.chunks = <<>>, !.count = 0]
  BY DEF Ask
<1>3. run'.pc = "read" /\ run'.request = run.request + 1 /\ run'.attempt = 1 /\ run'.seen = 0
  BY <1>1, <1>2 DEF Run
<1>4. Send(run.request + 1) /\ Len(wire) <= Late
  BY DEF Ask, CollectInv, Timely
<1>5. \A i \in 1..Len(wire) : wire[i].request # run.request + 1
  <2>. TAKE i \in 1..Len(wire)
  <2>1. wire[i].request <= run.request
    BY DEF CollectInv, CollectSound, InOrder
  <2>2. wire[i].request \in Nat /\ run.request \in Nat
    <3>1. wire[i] \in Message
      BY <1>1
    <3>. QED
      BY <1>1, <3>1 DEF Message, Run
  <2>. QED
    BY <2>1, <2>2
<1>6. 1 \in 1..MaxAttempts
  BY ConstantFacts
<1>7. PICK r \in Nat : r = run.request + 1
  BY <1>1
<1>8. InTime(wire, r, 0, 1)'
  <2>1. Send(r) /\ \A i \in 1..Len(wire) : wire[i].request # r
    BY <1>4, <1>5, <1>7
  <2>. QED
    BY <1>4, <1>6, <2>1, SendInTime
<1>9. InTime(wire', run'.request, run'.seen, run'.attempt)
  BY <1>3, <1>7, <1>8 DEF InTime, FirstEnd, EndAt
<1>. QED
  BY <1>3, <1>6, <1>9 DEF Timely, At, InTime, FirstEnd, EndAt

(* Another attempt: the end of the first answer is where it was.           *)
LEMMA TimeoutInTime ==
  ASSUME TypeOK, CollectInv, RepliesFit, ReadTimeout
  PROVE  Timely'
<1>1. run \in Run /\ wire \in Seq(Message) /\ run.attempt \in Nat
  BY DEF TypeOK, Run
<1>2. At("read") /\ run.attempt \in 1..MaxAttempts /\ InTime(wire, run.request, run.seen, run.attempt)
  BY DEF ReadTimeout, CollectInv, Timely
<1>3. CASE run.attempt < MaxAttempts
  <2>1. run' = [run EXCEPT !.attempt = @ + 1, !.seen = 0, !.chunks = <<>>, !.count = 0] /\ Send(run.request)
    BY <1>3 DEF ReadTimeout
  <2>2. /\ run'.pc = "read" /\ run'.request = run.request /\ run'.seen = 0
        /\ run'.attempt = run.attempt + 1
    BY <1>1, <1>2, <2>1 DEF Run, At
  <2>3. PICK r \in Nat, a \in 1..MaxAttempts : r = run.request /\ a = run.attempt + 1 /\ a - 1 = run.attempt
    BY <1>1, <1>2, <1>3, ConstantFacts DEF Run
  <2>4. (run.attempt - 1) * MaxParts + MaxParts = (a - 1) * MaxParts
    BY <1>1, <2>3, PartsBounds
  <2>5. \/ Len(wire) <= Late /\ \A i \in 1..Len(wire) : wire[i].request # r
        \/ \E e \in 1..Len(wire) : /\ FirstEnd(wire, r, e) /\ e <= Late + MaxParts
                                   /\ Len(wire) - e + MaxParts <= (a - 1) * MaxParts
    <3>1. ASSUME NEW e \in 1..Len(wire), run.seen + e <= Late + MaxParts,
                 Len(wire) - e <= (run.attempt - 1) * MaxParts
          PROVE  e <= Late + MaxParts /\ Len(wire) - e + MaxParts <= (a - 1) * MaxParts
      <4>1. run.seen \in Nat /\ Late \in Nat /\ MaxParts \in Nat /\ Len(wire) \in Nat
            /\ (run.attempt - 1) * MaxParts \in Nat
        BY <1>1, <1>2, PartsBounds DEF Run
      <4>. QED
        BY <2>4, <3>1, <4>1
    <3>. QED
      BY <1>2, <2>3, <3>1 DEF InTime
  <2>6. InTime(wire, r, 0, a)'
    BY <2>1, <2>3, <2>5, SendInTime
  <2>. QED
    BY <2>2, <2>3, <2>6 DEF Timely, At, InTime, FirstEnd, EndAt
<1>4. CASE ~ (run.attempt < MaxAttempts)
  <2>1. run' = [run EXCEPT !.pc = "page", !.seen = 0, !.chunks = <<>>, !.count = 0]
    BY <1>4 DEF ReadTimeout
  <2>2. run'.pc = "page" /\ run'.chunks = <<>>
    BY <1>1, <2>1 DEF Run
  <2>. QED
    BY <2>2 DEF Timely, At
<1>. QED
  BY <1>3, <1>4

(* A message less before the end, and one more that has been read.         *)
LEMMA ReadInTime ==
  ASSUME TypeOK, CollectInv, RepliesFit, Read
  PROVE  Timely'
<1>1. run \in Run /\ wire \in Seq(Message) /\ At("read") /\ wire # <<>> /\ wire' = Tail(wire)
  BY DEF Read, TypeOK
<1>2. /\ Len(wire) \in Nat \ {0} /\ Head(wire) = wire[1] /\ Len(wire') = Len(wire) - 1
      /\ \A i \in 1..Len(wire') : wire'[i] = wire[i + 1] /\ i + 1 \in 1..Len(wire)
  BY <1>1
<1>3. run.attempt \in 1..MaxAttempts /\ InTime(wire, run.request, run.seen, run.attempt)
  BY <1>1 DEF CollectInv, Timely
<1>4. /\ Late \in Nat /\ MaxParts \in Nat \ {0}
      /\ (run.attempt - 1) * MaxParts \in Nat /\ (run.attempt - 1) * MaxParts <= Late
      /\ run.seen \in Nat
  BY <1>1, <1>3, PartsBounds DEF Run
<1>. DEFINE more == IF wire[1].request = run.request THEN wire[1].more ELSE TRUE
<1>5. /\ run'.pc = IF ReadsOn(more) THEN "read" ELSE "page"
      /\ run'.seen = IF ReadsOn(more) THEN run.seen + 1 ELSE 0
      /\ run'.request = run.request /\ run'.attempt = run.attempt
      /\ wire[1].request # run.request => run'.chunks = run.chunks
  <2>1. PICK seen \in Run :
          /\ seen = Seen(more)
          /\ seen.pc = IF ReadsOn(more) THEN "read" ELSE "page"
          /\ seen.seen = IF ReadsOn(more) THEN run.seen + 1 ELSE 0
          /\ seen.request = run.request /\ seen.attempt = run.attempt /\ seen.chunks = run.chunks
    BY SeenFacts
  <2>2. CASE wire[1].request = run.request
    <3>1. run' = [seen EXCEPT !.chunks = Append(@, wire[1]), !.count = @ + Cardinality(wire[1].candles)]
      BY <1>2, <2>1, <2>2 DEF Read, Receive
    <3>2. run'.pc = seen.pc /\ run'.seen = seen.seen /\ run'.request = seen.request /\ run'.attempt = seen.attempt
      BY <3>1 DEF Run
    <3>. HIDE DEF more
    <3>. QED
      BY <2>1, <2>2, <3>2
  <2>3. CASE wire[1].request # run.request
    <3>1. run' = seen
      BY <1>2, <2>1, <2>3 DEF Read
    <3>. HIDE DEF more
    <3>. QED
      BY <2>1, <3>1
  <2>. QED
    BY <2>2, <2>3
<1>6. wire[1].request # run.request => run.chunks = <<>>
  <2>1. ASSUME wire[1].request # run.request, NEW lo \in 1..Len(Reply), NEW hi \in 1..Len(Reply),
               hi < Len(Reply), Head(wire) = Reply[hi + 1]
        PROVE  FALSE
    <3>1. hi + 1 \in 1..Len(Reply)
      BY <2>1, ReplyFacts
    <3>2. Reply[hi + 1].request = run.request
      BY <3>1, ReplyFacts
    <3>. QED
      BY <1>2, <2>1, <3>2
  <2>. QED
    BY <1>1, <2>1 DEF CollectInv, CollectSound, Received, At
<1>. HIDE DEF more
<1>7. CASE Len(wire) <= Late /\ \A i \in 1..Len(wire) : wire[i].request # run.request
  <2>1. run'.chunks = <<>> /\ 1 \in 1..Len(wire)
    BY <1>2, <1>5, <1>6, <1>7
  <2>2. Len(wire') <= Late
    BY <1>2, <1>4, <1>7
  <2>3. \A i \in 1..Len(wire') : wire'[i].request # run.request
    BY <1>2, <1>7
  <2>4. InTime(wire', run'.request, run'.seen, run'.attempt)
    BY <1>5, <2>2, <2>3 DEF InTime
  <2>. QED
    BY <1>3, <1>5, <2>1, <2>4 DEF Timely, At, InTime, FirstEnd, EndAt
<1>8. ASSUME NEW e \in 1..Len(wire), FirstEnd(wire, run.request, e), run.seen + e <= Late + MaxParts,
             Len(wire) - e <= (run.attempt - 1) * MaxParts
      PROVE  Timely'
  <2>1. CASE EndAt(wire, run.request, 1)
    <3>1. e = 1
      <4>1. e > 1 => 1 \in 1..(e - 1)
        BY <1>2
      <4>. QED
        BY <1>2, <1>8, <2>1, <4>1 DEF FirstEnd
    <3>2. ~ more
      BY <2>1 DEF EndAt, more
    <3>3. run'.pc = "page"
      BY <1>5, <3>2 DEF ReadsOn
    <3>4. Len(wire') <= Late
      BY <1>2, <1>4, <1>8, <3>1
    <3>. QED
      BY <3>3, <3>4 DEF Timely, At
  <2>2. CASE ~ EndAt(wire, run.request, 1)
    <3>1. e # 1 /\ e \in Nat
      BY <1>2, <1>8, <2>2 DEF FirstEnd
    <3>2. PICK d \in 1..Len(wire') : d = e - 1 /\ d + 1 = e
      BY <1>2, <3>1
    <3>3. FirstEnd(wire', run.request, d)
      <4>1. EndAt(wire', run.request, d)
        BY <1>2, <1>8, <3>2 DEF FirstEnd, EndAt
      <4>2. ASSUME NEW j \in 1..(d - 1) PROVE ~ EndAt(wire', run.request, j)
        <5>1. j \in 1..Len(wire') /\ j + 1 \in 1..(e - 1)
          BY <1>2, <3>2
        <5>. QED
          BY <1>2, <1>8, <5>1 DEF FirstEnd, EndAt
      <4>. QED
        BY <4>1, <4>2 DEF FirstEnd
    <3>4. Len(wire') - d <= (run.attempt - 1) * MaxParts
      BY <1>2, <1>4, <1>8, <3>2
    <3>5. more
      BY <2>2 DEF EndAt, more
    <3>6. CASE ReadsOn(more)
      <4>1. run'.pc = "read" /\ run'.seen = run.seen + 1
        BY <1>5, <3>6
      <4>2. run'.seen + d <= Late + MaxParts
        BY <1>2, <1>4, <1>8, <3>2, <4>1
      <4>3. InTime(wire', run'.request, run'.seen, run'.attempt)
        BY <1>5, <3>3, <3>4, <4>2 DEF InTime
      <4>. QED
        BY <1>3, <1>5, <4>1, <4>3 DEF Timely, At, InTime, FirstEnd, EndAt
    <3>7. CASE ~ ReadsOn(more)
      <4>1. wire[1].request # run.request
        <5>1. ASSUME wire[1].request = run.request PROVE FALSE
          <6>1. wire[1].more
            BY <3>5, <5>1 DEF more
          <6>2. ReadsOn(TRUE)
            BY <5>1, <6>1, ReadsOnInTime
          <6>. QED
            BY <3>5, <3>7, <6>2 DEF ReadsOn
        <5>. QED
          BY <5>1
      <4>2. run'.pc = "page" /\ run'.chunks = <<>>
        BY <1>5, <1>6, <3>7, <4>1
      <4>. QED
        BY <4>2 DEF Timely, At
    <3>. QED
      BY <3>6, <3>7
  <2>. QED
    BY <2>1, <2>2
<1>. QED
  BY <1>3, <1>7, <1>8 DEF InTime

(* What is late of a request lies on the wire when the next is sent; in    *)
(* other steps nothing changes, or the collection ends.                    *)
LEMMA TimelyStep ==
  ASSUME TypeOK, CollectInv, RepliesFit, run' \in Run, [Next]_vars
  PROVE  Timely'
<1>. run \in Run
  BY DEF TypeOK
<1>1. CASE Ask \/ Read \/ ReadTimeout
  BY <1>1, AskInTime, ReadInTime, TimeoutInTime
<1>2. CASE Page
  <2>1. run'.pc = "ask" /\ wire' = wire
    BY <1>2 DEF Page, Run
  <2>2. At("page") /\ run.chunks # <<>>
    BY <1>2 DEF Page, Candles
  <2>. QED
    BY <2>1, <2>2 DEF CollectInv, Timely, At
<1>3. CASE wire' = wire /\ run' = run
  <2>1. wire' = wire /\ run' = run
    BY <1>3
  <2>. QED
    BY <2>1 DEF CollectInv, Timely, At, InTime, FirstEnd, EndAt
<1>4. CASE wire' = <<>> /\ run'.pc # "read"
  <2>1. Len(wire') = 0 /\ Late \in Nat
    BY <1>4, PartsBounds
  <2>. QED
    BY <1>4, <2>1 DEF Timely, At
<1>5. CASE NoPage \/ ErrorPage \/ LastPage \/ Enough
  <2>1. PICK g \in BOOLEAN : Collected(g)
    BY <1>5 DEF NoPage, ErrorPage, LastPage, Enough
  <2>2. wire' = <<>> /\ run'.pc = "prepare"
    BY <2>1 DEF Collected, Run
  <2>. QED
    BY <1>4, <2>2
<1>6. CASE CollectFails \/ TooLittle \/ ExportFails \/ Skip \/ AllDone \/ Finish \/ KillCommand
  <2>1. run' \in {Idle, NextOne} /\ wire' = <<>>
    BY <1>6 DEF CollectFails, TooLittle, ExportFails, Skip, AllDone, Finish, KillCommand, Abandon,
                CollectInv, CollectSound, Growing, At
  <2>. QED
    BY <1>4, <2>1, OutsideFacts
<1>7. CASE Start \/ Begin \/ Prepare \/ Train \/ OpenModel \/ WriteModel \/ OpenMetadata \/ WriteMetadata
  <2>1. wire' = wire /\ run.pc \notin {"ask", "read", "page"}
    BY <1>7 DEF Start, Begin, Prepare, Train, OpenModel, WriteModel, OpenMetadata, WriteMetadata, StoreOnly, At
  <2>2. wire' = <<>>
    BY <2>1 DEF CollectInv, CollectSound, Growing
  <2>3. run'.pc # "read"
    BY <1>7 DEF Start, Begin, Prepare, Train, OpenModel, WriteModel, OpenMetadata, WriteMetadata, Goto, Run, Idle
  <2>. QED
    BY <1>4, <2>2, <2>3
<1>8. CASE Restart
  BY <1>3, <1>4, <1>8, OutsideFacts DEF Restart
<1>9. CASE Use \/ UNCHANGED vars
  BY <1>3, <1>9 DEF Use, Look, Describe, Load, Predict, TrainingStays, vars
<1>. QED
  BY <1>1, <1>2, <1>5, <1>6, <1>7, <1>8, <1>9 DEF Next, Training, Collect, Export

\* Where a step of the training that does not write the store leaves it.
Passing == {"idle", "next", "ask", "read", "page", "prepare", "export"}

(* Steps that write no files keep them, and do not come to train.          *)
LEMMA PassingSteps ==
  ASSUME TypeOK,
         \/ Collect \/ Start \/ Skip \/ Begin \/ AllDone \/ TooLittle \/ Train \/ ExportFails \/ Finish
  PROVE  /\ run'.pc \in Passing \/ (run' = run /\ rows' = rows)
         /\ UNCHANGED <<files, reader, scope>>
<1>. run \in Run
  BY DEF TypeOK
<1>1. Idle.pc \in Passing /\ NextOne.pc \in Passing
  BY DEF Idle, NextOne, Passing
<1>2. CASE CollectFails \/ TooLittle \/ ExportFails \/ Skip \/ AllDone \/ Finish
  <2>1. run' \in {Idle, NextOne}
    BY <1>2 DEF CollectFails, TooLittle, ExportFails, Skip, AllDone, Finish, Abandon
  <2>. QED
    BY <1>1, <1>2, <2>1 DEF CollectFails, TooLittle, ExportFails, Skip, AllDone, Finish, StoreStays
<1>3. CASE Ask \/ Page \/ Begin \/ Train
  <2>1. run'.pc \in Passing
    BY <1>3 DEF Ask, Page, Begin, Train, Goto, Run, Passing
  <2>. QED
    BY <1>3, <2>1 DEF Ask, Page, Begin, Train, StoreStays
<1>4. CASE ReadTimeout
  <2>1. run'.pc \in Passing
    BY <1>4 DEF ReadTimeout, At, Run, Passing
  <2>. QED
    BY <1>4, <2>1 DEF ReadTimeout, StoreStays
<1>5. CASE Read
  <2>1. \A more : Seen(more) \in Run /\ Seen(more).pc \in Passing
    BY SeenFacts DEF Passing
  <2>2. Receive(Head(wire)).pc \in Passing
    <3>1. PICK seen \in Run : seen = Seen(Head(wire).more) /\ seen.pc \in Passing
      BY <2>1
    <3>. QED
      BY <3>1 DEF Receive, Run
  <2>. QED
    BY <1>5, <2>1, <2>2 DEF Read, StoreStays
<1>6. CASE NoPage \/ ErrorPage \/ LastPage \/ Enough
  <2>1. PICK g \in BOOLEAN : Collected(g)
    BY <1>6 DEF NoPage, ErrorPage, LastPage, Enough
  <2>2. run'.pc \in Passing
    BY <2>1 DEF Collected, Run, Passing
  <2>. QED
    BY <2>1, <2>2 DEF Collected, StoreStays
<1>7. CASE Start
  <2>1. PICK by, todo : run' = [Idle EXCEPT !.pc = "next", !.by = by, !.todo = todo]
    BY <1>7 DEF Start
  <2>. QED
    BY <1>7, <2>1 DEF Start, StoreStays, Idle, Passing
<1>. QED
  BY <1>2, <1>3, <1>4, <1>5, <1>6, <1>7 DEF Collect

-----------------------------------------------------------------------------
(* The rows                                                                *)

\* What is learnt from and tested on comes of enough labels.
Lessons ==
  At("train") =>
    \E n \in Nat : /\ n > 0 /\ n >= MinLabelled /\ rows.bars = n + Horizon
                   /\ rows.split = AssembleDataset(n) /\ rows.windows = WalkForwardSplit(n)

(* Rows come to the training with enough labels.                           *)
LEMMA LessonsStep ==
  ASSUME TypeOK, Lessons, [Next]_vars
  PROVE  Lessons'
<1>. run \in Run
  BY DEF TypeOK
<1>1. CASE run' = run /\ rows' = rows
  BY <1>1 DEF Lessons, At
<1>2. CASE run'.pc # "train"
  BY <1>2 DEF Lessons, At
<1>3. CASE Prepare
  <2>1. rows' = [bars |-> Bars, split |-> AssembleDataset(Labels), windows |-> WalkForwardSplit(Labels)]
    BY <1>3 DEF Prepare
  <2>2. PICK n \in Nat : n = Labels /\ n > 0 /\ n >= MinLabelled /\ Bars = n + Horizon
    BY <1>3, LabelsFacts DEF Prepare, Sufficient
  <2>3. /\ n > 0 /\ n >= MinLabelled /\ rows'.bars = n + Horizon
        /\ rows'.split = AssembleDataset(n) /\ rows'.windows = WalkForwardSplit(n)
    BY <2>1, <2>2
  <2>. QED
    BY <2>3 DEF Lessons
<1>4. CASE Training /\ ~ Prepare
  <2>1. CASE OpenModel \/ WriteModel \/ OpenMetadata \/ WriteMetadata
    BY <2>1, <1>2 DEF OpenModel, WriteModel, OpenMetadata, WriteMetadata, Goto, Run
  <2>2. CASE ~ (OpenModel \/ WriteModel \/ OpenMetadata \/ WriteMetadata)
    <3>1. "train" \notin Passing
      BY DEF Passing
    <3>. QED
      BY <1>1, <1>2, <1>4, <2>2, <3>1, PassingSteps DEF Training, Export
  <2>. QED
    BY <2>1, <2>2
<1>5. CASE Use \/ UNCHANGED vars
  BY <1>1, <1>5 DEF Use, Look, Describe, Load, Predict, TrainingStays, vars
<1>6. CASE Restart \/ KillCommand
  BY <1>1, <1>2, <1>6 DEF Restart, KillCommand, Idle
<1>. QED
  BY <1>3, <1>4, <1>5, <1>6 DEF Next

\* Between the rows of the training part and those of the test part there is room
\* for the future of a label.
RoomForLabels ==
  \A n \in Nat : n > 0 /\ n >= MinLabelled => (70 * n) \div 100 + Horizon <= (85 * n) \div 100

(* With the 5000 labels of the code there is for any horizon up to 750.    *)
LEMMA RoomOfTheCode ==
  ASSUME 100 * Horizon <= 15 * MinLabelled
  PROVE  RoomForLabels
<1>. SUFFICES ASSUME NEW n \in Nat, n > 0, n >= MinLabelled
              PROVE  (70 * n) \div 100 + Horizon <= (85 * n) \div 100
  BY DEF RoomForLabels
<1>1. Horizon \in Nat /\ MinLabelled \in Nat
  BY DataAssumption
<1>2. 70 * n + 100 * Horizon <= 85 * n
  BY <1>1
<1>. QED
  BY <1>1, <1>2

(* With enough labels, what is tested on comes after what was learnt from. *)
LEMMA ExamFollows ==
  ASSUME RoomForLabels, Lessons
  PROVE  ExamAfterLessons
<1>. SUFFICES ASSUME At("train")
              PROVE  /\ rows.split.test # {}
                     /\ \A i \in rows.split.train, j \in rows.split.test : i < j /\ j \notin Sees(i)
                     /\ \A i \in rows.split.train \cup rows.split.val \cup rows.split.test :
                          Sees(i) \subseteq 1..rows.bars
                     /\ \A w \in rows.windows : \A i \in w.train, j \in w.test :
                          i < j /\ j \in 1..rows.bars
  BY DEF ExamAfterLessons
<1>1. PICK n \in Nat : /\ n > 0 /\ n >= MinLabelled /\ rows.bars = n + Horizon
                       /\ rows.split = AssembleDataset(n) /\ rows.windows = WalkForwardSplit(n)
  BY DEF Lessons
<1>2. Horizon \in Nat \ {0}
  BY DataAssumption
<1>3. PICK a \in Nat, b \in Nat :
        /\ a = (70 * n) \div 100 /\ b = (85 * n) \div 100
        /\ a + Horizon <= b /\ b < n
  <2>1. (70 * n) \div 100 \in Nat /\ (85 * n) \div 100 \in Nat /\ (85 * n) \div 100 < n
    BY <1>1
  <2>2. (70 * n) \div 100 + Horizon <= (85 * n) \div 100
    BY <1>1 DEF RoomForLabels
  <2>. QED
    BY <2>1, <2>2
<1>4. rows.split = [train |-> 1..a, val |-> (a + 1)..b, test |-> (b + 1)..n]
  BY <1>1, <1>3 DEF AssembleDataset
<1>5. rows.split.test # {}
  <2>1. n \in (b + 1)..n
    BY <1>3
  <2>2. rows.split.test = (b + 1)..n
    BY <1>4
  <2>. QED
    BY <2>1, <2>2
<1>6. \A i \in rows.split.train, j \in rows.split.test : i < j /\ j \notin Sees(i)
  BY <1>2, <1>3, <1>4 DEF Sees
<1>7. \A i \in rows.split.train \cup rows.split.val \cup rows.split.test : Sees(i) \subseteq 1..rows.bars
  BY <1>1, <1>2, <1>3, <1>4 DEF Sees
<1>8. \A w \in rows.windows : \A i \in w.train, j \in w.test : i < j /\ j \in 1..rows.bars
  <2>. DEFINE size    == n \div NWindows
              trained == (3 * size - 1) \div 4
              start(x) == x * size
              end(x) == start(x) + trained
  <2>1. size \in Nat /\ size * NWindows <= n /\ NWindows \in Nat \ {0}
    BY Quotient, DataAssumption
  <2>2. trained \in Int /\ trained >= -1
    BY <2>1
  <2>3. rows.windows \subseteq
          {[train |-> (start(x) + 1)..end(x), test |-> (end(x) + 1)..(start(x) + size)] : x \in 0..(NWindows - 1)}
    BY <1>1 DEF WalkForwardSplit, start, end, size, trained
  <2>. HIDE DEF size, trained
  <2>4. ASSUME NEW x \in 0..(NWindows - 1)
        PROVE  start(x) \in Nat /\ end(x) \in Int /\ end(x) >= -1 /\ start(x) + size <= n
    <3>1. start(x) \in Nat
      BY <2>1
    <3>2. start(x) + size = (x + 1) * size /\ (x + 1) * size <= NWindows * size
      BY <2>1
    <3>3. NWindows * size = size * NWindows
      BY <2>1
    <3>4. end(x) \in Int /\ end(x) >= -1
      BY <2>2, <3>1
    <3>. QED
      BY <2>1, <3>1, <3>2, <3>3, <3>4
  <2>. HIDE DEF start, end
  <2>5. ASSUME NEW x \in 0..(NWindows - 1), NEW i \in (start(x) + 1)..end(x),
               NEW j \in (end(x) + 1)..(start(x) + size)
        PROVE  i < j /\ j \in 1..rows.bars
    <3>1. i < j
      BY <2>1, <2>4
    <3>2. j >= 1 /\ j <= n
      BY <2>1, <2>4
    <3>. QED
      BY <1>1, <1>2, <3>1, <3>2
  <2>6. ASSUME NEW w \in rows.windows, NEW i \in w.train, NEW j \in w.test
        PROVE  i < j /\ j \in 1..rows.bars
    <3>1. PICK x \in 0..(NWindows - 1) :
            w = [train |-> (start(x) + 1)..end(x), test |-> (end(x) + 1)..(start(x) + size)]
      BY <2>3
    <3>2. i \in (start(x) + 1)..end(x) /\ j \in (end(x) + 1)..(start(x) + size)
      BY <3>1
    <3>. QED
      BY <2>5, <3>2
  <2>. QED
    BY <2>6
<1>. QED
  BY <1>5, <1>6, <1>7, <1>8

-----------------------------------------------------------------------------
(* All together                                                            *)

TrainInv == TypeOK /\ CollectInv /\ Lessons /\ FilesSound /\ ReaderSound

(* The invariant of the training holds in the beginning ...                *)
LEMMA TrainInvInit == Init => TrainInv
<1>. SUFFICES ASSUME Init PROVE TrainInv
  OBVIOUS
<1>1. /\ market \in Markets /\ run = Idle /\ wire = <<>> /\ rows = NoRows /\ reader = Free /\ scope \in Scopes
      /\ files = [i \in DOMAIN Shipped |-> [sym |-> Shipped[i], model |-> "whole", meta |-> "whole"]]
  BY DEF Init
<1>2. files \in Seq(File) /\ \A i \in DOMAIN files : files[i].model = "whole"
  <2>1. Shipped \in Seq(Symbols) /\ Len(Shipped) \in Nat /\ DOMAIN Shipped = 1..Len(Shipped)
    BY ConstantFacts
  <2>2. \A i \in DOMAIN Shipped : [sym |-> Shipped[i], model |-> "whole", meta |-> "whole"] \in File
    BY <2>1 DEF File
  <2>3. files \in [1..Len(Shipped) -> File]
    BY <1>1, <2>1, <2>2
  <2>4. files \in Seq(File)
    BY <2>1, <2>3
  <2>. QED
    BY <1>1, <2>4
<1>3. reader \in Reader /\ {reader.seen, reader.found, reader.floor} \subseteq 0..Len(files)
  <2>1. 0 \in 0..Len(files)
    BY <1>2
  <2>. QED
    BY <1>1, <2>1 DEF Free, NoModel, Reader
<1>4. TypeOK
  <2>1. wire \in Seq(Message)
    BY <1>1
  <2>. QED
    BY <1>1, <1>2, <1>3, <2>1, IdleType DEF TypeOK
<1>5. CollectInv
  <2>1. Len(wire) = 0 /\ 1..0 = {}
    BY <1>1
  <2>2. CollectSound
    BY <1>1, <2>1, OutsideFacts DEF CollectSound, InOrder, Received, Growing, HistoryWhole, At
  <2>3. Timely
    BY <1>1, OutsideFacts DEF Timely, At
  <2>. QED
    BY <2>2, <2>3 DEF CollectInv
<1>6. Lessons /\ FilesSound /\ ReaderSound
  BY <1>1, <1>2, OutsideFacts DEF Lessons, FilesSound, ReaderSound, Free, At
<1>. QED
  BY <1>4, <1>5, <1>6 DEF TrainInv

(* ... and after every step ...                                            *)
LEMMA TrainInvNext == TrainInv /\ [Next]_vars => TrainInv'
<1>. SUFFICES ASSUME TrainInv, [Next]_vars PROVE TrainInv'
  OBVIOUS
<1>. TypeOK /\ CollectInv /\ Lessons /\ FilesSound /\ ReaderSound
  BY DEF TrainInv
<1>1. RunTyped'
  <2>1. CASE Collect
    BY <2>1, CollectType, PageAdds DEF CollectInv
  <2>2. CASE \/ Start \/ Skip \/ Begin \/ AllDone \/ Prepare \/ TooLittle \/ Train
             \/ Export \/ Restart \/ KillCommand
    BY <2>2, TrainingType
  <2>3. CASE Use \/ UNCHANGED vars
    BY <2>3 DEF Use, Look, Describe, Load, Predict, TrainingStays, vars, RunTyped, TypeOK
  <2>. QED
    BY <2>1, <2>2, <2>3 DEF Next, Training
<1>2. CollectInv' /\ Lessons'
  <2>1. CollectSound'
    BY <1>1, CollectStep DEF RunTyped
  <2>2. RepliesFit => Timely'
    BY <1>1, TimelyStep DEF RunTyped
  <2>3. Lessons'
    BY LessonsStep
  <2>. QED
    BY <2>1, <2>2, <2>3 DEF CollectInv, RepliesFit, MaxParts
<1>3. CASE OpenModel \/ WriteModel \/ OpenMetadata \/ WriteMetadata
  <2>1. FilesSound' /\ FilesKept /\ files' \in Seq(File) /\ reader' = reader /\ scope' = scope
    BY <1>3, ExportSound
  <2>2. {reader'.seen, reader'.found, reader'.floor} \subseteq 0..Len(files')
    <3>1. {reader.seen, reader.found, reader.floor} \subseteq 0..Len(files) /\ Len(files) <= Len(files')
          /\ Len(files) \in Nat /\ Len(files') \in Nat
      BY <2>1 DEF TypeOK, FilesKept
    <3>2. 0..Len(files) \subseteq 0..Len(files')
      BY <3>1
    <3>. QED
      BY <2>1, <3>1, <3>2
  <2>3. ReaderSound'
    BY <2>1, ReaderKept
  <2>. QED
    BY <1>1, <1>2, <2>1, <2>2, <2>3 DEF TrainInv, TypeOK, RunTyped
<1>4. CASE Use
  <2>1. files' = files /\ run' = run
    BY <1>4 DEF Use, Look, Describe, Load, Predict, TrainingStays
  <2>2. StoreTyped' /\ ReaderSound' /\ FilesSound'
    BY <1>4, <2>1, UseType, UseSound, QuietStore
  <2>. QED
    BY <1>1, <1>2, <2>2 DEF TrainInv, TypeOK, RunTyped, StoreTyped
<1>5. CASE /\ files' = files /\ reader' \in {reader, Free} /\ scope' = scope
           /\ run' = run \/ run'.pc \notin Exporting
  <2>1. FilesSound' /\ FilesKept
    BY <1>5, QuietStore
  <2>2. reader' \in Reader /\ {reader'.seen, reader'.found, reader'.floor} \subseteq 0..Len(files')
    <3>1. Len(files) \in Nat /\ 0 \in 0..Len(files)
      BY DEF TypeOK
    <3>. QED
      BY <1>5, <3>1 DEF Free, NoModel, Reader, TypeOK
  <2>3. ReaderSound'
    <3>1. CASE reader' = reader
      BY <2>1, <3>1, ReaderKept
    <3>2. CASE reader' = Free
      BY <3>2 DEF ReaderSound, Free
    <3>. QED
      BY <1>5, <3>1, <3>2
  <2>4. files' \in Seq(File) /\ scope' \in Scopes
    BY <1>5 DEF TypeOK
  <2>. QED
    BY <1>1, <1>2, <2>1, <2>2, <2>3, <2>4 DEF TrainInv, TypeOK, RunTyped
<1>6. /\ files' = files /\ reader' \in {reader, Free} /\ scope' = scope
      /\ run' = run \/ run'.pc \notin Exporting
      \/ OpenModel \/ WriteModel \/ OpenMetadata \/ WriteMetadata \/ Use
  <2>1. CASE Collect \/ Start \/ Skip \/ Begin \/ AllDone \/ TooLittle \/ Train \/ ExportFails \/ Finish
    <3>1. Passing \cap Exporting = {}
      BY DEF Passing, Exporting
    <3>. QED
      BY <2>1, <3>1, PassingSteps
  <2>2. CASE Prepare
    <3>1. run'.pc = "train"
      BY <2>2 DEF Prepare, Goto, TypeOK, Run
    <3>. QED
      BY <2>2, <3>1 DEF Prepare, StoreStays, Exporting
  <2>3. CASE Restart \/ KillCommand \/ UNCHANGED vars
    BY <2>3 DEF Restart, KillCommand, vars, StoreStays, Idle, Exporting
  <2>. QED
    BY <2>1, <2>2, <2>3 DEF Next, Training, Export
<1>. QED
  BY <1>3, <1>4, <1>5, <1>6

(* ... and so always.                                                      *)
LEMMA TrainInvAlways == Spec => []TrainInv
<1>. QED
  BY TrainInvInit, TrainInvNext, PTL DEF Spec

(* Every variable of the training keeps its type, whatever the feed        *)
(* answers and wherever a training ends. (_fetch_all, run_pipeline,        *)
(* _export_model, load_latest_model)                                       *)
THEOREM TrainingTypes == Spec => []TypeOK
<1>1. TrainInv => TypeOK
  BY DEF TrainInv
<1>. QED
  BY <1>1, TrainInvAlways, PTL

(* A collected history has no hole and is as long as was asked for or as   *)
(* there is, unless the feed failed, however often an answer is late, for  *)
(* pages and messages of any size whose answers, to all attempts, are no   *)
(* more messages than an attempt reads: sixty in five attempts allow twelve*)
(* for an answer. (_fetch_all)                                             *)
THEOREM HistoriesAreWhole ==
  ASSUME RepliesFit
  PROVE  Spec => []HistoryWhole
<1>1. TrainInv => HistoryWhole
  BY DEF TrainInv, CollectInv, CollectSound
<1>. QED
  BY <1>1, TrainInvAlways, PTL

(* No model is tested on what it has learnt from, for any number of        *)
(* candles, gaps, bad prices and windows, if there is room for the labels. *)
(* (generate_labels, assemble_dataset, walk_forward_split)                 *)
THEOREM ExamsComeAfterLessons ==
  ASSUME RoomForLabels
  PROVE  Spec => []ExamAfterLessons
<1>1. TrainInv => ExamAfterLessons
  BY ExamFollows DEF TrainInv
<1>. QED
  BY <1>1, TrainInvAlways, PTL

(* What an analysis predicts with is described, and so whole.              *)
LEMMA FoundFacts ==
  ASSUME TrainInv, reader.pc = "predict"
  PROVE  /\ reader.found >= reader.floor
         /\ reader.found # NoModel =>
              files[reader.found] = [sym |-> reader.sym, model |-> "whole", meta |-> "whole"]
<1>1. reader.found \in Described(reader.sym, reader.seen) \cup {NoModel} /\ reader.found >= reader.floor
  BY DEF TrainInv, ReaderSound
<1>2. ASSUME NEW i \in Described(reader.sym, reader.seen), i = reader.found
      PROVE  files[i] = [sym |-> reader.sym, model |-> "whole", meta |-> "whole"]
  <2>1. i \in DOMAIN files
    BY DEF TrainInv, TypeOK, Described, Reader
  <2>2. files[i] \in File /\ files[i].sym = reader.sym /\ files[i].meta = "whole" /\ files[i].model = "whole"
    BY <2>1 DEF TrainInv, TypeOK, Described, FilesSound
  <2>. QED
    BY <2>2 DEF File
<1>. QED
  BY <1>1, <1>2

(* What predicts is a whole model of the market, wherever exports ended.   *)
(* (load_latest_model, _export_model)                                      *)
THEOREM OnlyWholeIsServed == Spec => []ServedWhole
<1>1. TrainInv => ServedWhole
  BY FoundFacts DEF ServedWhole
<1>. QED
  BY <1>1, TrainInvAlways, PTL

(* It is no older than the newest that there was when the analysis began.  *)
(* (load_latest_model)                                                     *)
THEOREM TheNewestIsServed == Spec => []NewestServed
<1>1. TrainInv => NewestServed
  BY FoundFacts DEF NewestServed
<1>. QED
  BY <1>1, TrainInvAlways, PTL
=============================================================================
