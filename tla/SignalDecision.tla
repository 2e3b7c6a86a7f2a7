--------------------------- MODULE SignalDecision ---------------------------
(***************************************************************************)
(* How one analysis reaches its decision: the candles are fetched, three   *)
(* stages run concurrently (the strategy evaluators, the technical         *)
(* analyzer, the model's prediction), and the evidence is judged.          *)
(* (api_views._fetch_verification_candles, _run_analysis_pipeline;         *)
(* strategies/runner.py, consensus.py, common_combined.py.)                *)
(*                                                                         *)
(* The code has two ways to judge, chosen by whether a test is running:    *)
(* the confluence of five groups, or the common combined strategy that     *)
(* production uses.                                                        *)
(*                                                                         *)
(* Confidences are in percent.  Prices are abstracted to the side of the   *)
(* entry on which the stop and the target lie.                             *)
(***************************************************************************)
EXTENDS Naturals, FiniteSets, FiniteSetsExt

CONSTANTS
  Modes,             \* the values of is_testing that an instance explores
  SetupConfidences   \* bound: confidences of the technical analyzer's setups

Evaluators == {"Momentum", "SupportResistance", "Fibonacci", "ICT", "CHoCH"}
Sides      == {"bullish", "bearish"}

ASSUME DecisionAssumption ==
  /\ Modes \subseteq BOOLEAN
  /\ SetupConfidences \subseteq 1..100

\* STRATEGY_CONSENSUS_THRESHOLD and minimum_votes, in percent and votes; the
\* confidence that makes a contradiction strong; the combined threshold.
Threshold         == 70
MinimumVotes      == 4
Strong            == 75
CombinedThreshold == 35

Neutral == [bias |-> "neutral", conf |-> 0]
Error   == [bias |-> "error", conf |-> 0]

Directional(sides, confs) == [bias : sides, conf : confs]

\* What the evaluators return, the conditions on the candles left out.
MomentumResults   == {Neutral} \cup Directional({"bullish"}, {70, 76, 78, 80, 82})
                               \cup Directional({"bearish"}, {75, 82})
ZoneResults       == {Neutral} \cup Directional(Sides, {76})
FibonacciResults  == {Neutral} \cup Directional(Sides, {66, 74})
ICTResults        == {Neutral} \cup Directional(Sides, {78})
CHoCHResults      == {Neutral} \cup Directional(Sides, {78})

\* A setup of one side with its levels, or none: price-action patterns and the
\* SMC model must not disagree.
TechnicalResults  == {Neutral} \cup Directional(Sides, SetupConfidences)

\* The prediction: no model, an error and a neutral one count the same.
Predictions == {"none"} \cup Sides

\* run_one: an evaluator that raises is an Error.
Safely(r) == r \cup {Error}

Decisions == {"none", "WAIT", "ERROR", "BUY", "SELL"}

VARIABLES
  testing,    \* is_testing, the same for the whole process
  feed,       \* the answer of the market feed
  results,    \* what each evaluator returned
  technical,  \* what the technical analyzer returned; its levels follow its bias
  rsiHigh,    \* the analyzer's RSI is at least 50
  ml,         \* bias of the prediction, "none" without one
  done,       \* stages that have completed
  decision    \* the answer of the analysis

decisionVars == <<testing, feed, results, technical, rsiHigh, ml, done, decision>>

Stages == {"strategies", "technical", "ml"}

\* fresh: the last candle of every timeframe is recent; complete: H4, M15, M5
\* and M1 are all there.
NoFeed   == [fresh |-> FALSE, complete |-> FALSE, asked |-> FALSE]
LiveFeed == [fresh |-> TRUE, complete |-> TRUE, asked |-> TRUE]

-----------------------------------------------------------------------------
(* The confluence of five groups *)

Groups == {"Momentum", "SupportResistance", "Fibonacci", "ICTWithCHoCH", "TechnicalSMC"}

\* _combine_ict_choch: an evaluator that raised counts as missing.
CombineIctChoch(ict, choch) ==
  IF Error \in {ict, choch}            THEN Error
  ELSE IF ict.bias \in Sides /\ choch.bias = ict.bias
       THEN [bias |-> ict.bias, conf |-> IF ict.conf < choch.conf THEN ict.conf ELSE choch.conf]
  ELSE IF {ict.bias, choch.bias} = Sides
       THEN [bias |-> "neutral", conf |-> 100]
  ELSE Neutral

GroupResults(res, tech) ==
  [g \in Groups |-> CASE g = "ICTWithCHoCH" -> CombineIctChoch(res["ICT"], res["CHoCH"])
                      [] g = "TechnicalSMC" -> tech
                      [] OTHER               -> res[g]]

Voters(groups, side) == {g \in Groups : groups[g].bias = side}

\* The confidences of these groups together.
Support(groups, side) ==
  LET of(g) == IF groups[g].bias = side THEN groups[g].conf ELSE 0
  IN  of("Momentum") + of("SupportResistance") + of("Fibonacci") + of("ICTWithCHoCH") + of("TechnicalSMC")

\* Mutant: the strong contradiction between ICT and CHoCH is not looked for.
CombineWithoutConflict(groups) ==
  LET buy    == Cardinality(Voters(groups, "bullish"))
      sell   == Cardinality(Voters(groups, "bearish"))
      winner == IF buy >= sell THEN "bullish" ELSE "bearish"
      votes  == Cardinality(Voters(groups, winner))
      total  == Support(groups, winner)
      strong(side) == \E g \in Voters(groups, side) : groups[g].conf >= Strong
  IN  IF \/ \E g \in Groups : groups[g] = Error
         \/ \A side \in Sides : strong(side)
         \/ votes < MinimumVotes
         \/ votes * 100 < Threshold * Cardinality(Groups)
         \/ buy = sell
      THEN [bias |-> "neutral", votes |-> 0, total |-> 0]
      ELSE [bias |-> winner, votes |-> votes, total |-> total]

\* Mutant: exactly the minimum of votes is asked for.
CombineExactly(groups) ==
  LET winner == IF Cardinality(Voters(groups, "bullish")) >= MinimumVotes THEN "bullish" ELSE "bearish"
      votes  == Cardinality(Voters(groups, winner))
      total  == Support(groups, winner)
      strong(side) == \E g \in Voters(groups, side) : groups[g].conf >= Strong
  IN  IF \/ \E g \in Groups : groups[g] = Error
         \/ \A side \in Sides : strong(side)
         \/ strong("neutral")
         \/ votes # MinimumVotes
      THEN [bias |-> "neutral", votes |-> 0, total |-> 0]
      ELSE [bias |-> winner, votes |-> votes, total |-> total]

\* consensus.combine.  Its confidence is total / votes.  The pipeline always
\* hands it five results, so that the case of another number is left out.
Combine(groups) ==
  LET buy    == Cardinality(Voters(groups, "bullish"))
      sell   == Cardinality(Voters(groups, "bearish"))
      winner == IF buy >= sell THEN "bullish" ELSE "bearish"
      votes  == Cardinality(Voters(groups, winner))
      total  == Support(groups, winner)
      strong(side) == \E g \in Voters(groups, side) : groups[g].conf >= Strong
  IN  IF \/ \E g \in Groups : groups[g] = Error
         \/ \A side \in Sides : strong(side)
         \/ strong("neutral")
         \/ votes < MinimumVotes
         \/ votes * 100 < Threshold * Cardinality(Groups)
         \/ buy = sell
      THEN [bias |-> "neutral", votes |-> 0, total |-> 0]
      ELSE [bias |-> winner, votes |-> votes, total |-> total]

\* Mutant: the side of the levels is checked for buying only.
ConfluenceDecisionOneSided(res, tech, pred, fresh) ==
  LET consensus == Combine(GroupResults(res, tech))
      ready     == /\ consensus.bias \in Sides
                   /\ consensus.total >= Threshold * consensus.votes
                   /\ consensus.bias = "bullish" => tech.bias = "bullish"
                   /\ fresh
                   /\ pred \in Sides => pred = consensus.bias
  IN  IF ~ready THEN "WAIT" ELSE IF consensus.bias = "bullish" THEN "BUY" ELSE "SELL"

\* Only a direction with levels on its sides, fresh candles and no opposing
\* prediction is an actionable one.  The levels are the analyzer's: their
\* sides are those of its bias, and without a setup there are none.
ConfluenceDecision(res, tech, pred, fresh) ==
  LET consensus == Combine(GroupResults(res, tech))
      ready     == /\ consensus.bias \in Sides
                   /\ consensus.total >= Threshold * consensus.votes
                   /\ tech.bias = consensus.bias
                   /\ fresh
                   /\ pred \in Sides => pred = consensus.bias
  IN  IF ~ready THEN "WAIT" ELSE IF consensus.bias = "bullish" THEN "BUY" ELSE "SELL"

-----------------------------------------------------------------------------
(* The common combined strategy *)

Weight == [e \in Evaluators |-> CASE e \in {"Momentum", "SupportResistance"} -> 25
                                  [] e = "ICT"                                -> 20
                                  [] OTHER                                    -> 15]

\* evaluate_common_combined: the weighted scores, in 1/10000.
CombinedBias(res) ==
  LET score(side) == MapThenSumSet(LAMBDA e : Weight[e] * res[e].conf,
                                   {e \in Evaluators : res[e].bias = side})
      wins(side)  == /\ score(side) >= CombinedThreshold * 100
                     /\ \A other \in Sides \ {side} : score(side) > score(other)
  IN  IF wins("bullish") THEN "bullish" ELSE IF wins("bearish") THEN "bearish" ELSE "neutral"

\* Production always finds a direction.  An evaluator that raises here ends the
\* analysis with an error, and so does the assignment of missing levels: the
\* analyzer's result is a frozen dataclass.
FallbackDecision(res, tech, high) ==
  IF (\E e \in Evaluators : res[e] = Error) \/ tech.bias \notin Sides THEN "ERROR"
  ELSE IF CombinedBias(res) = "bullish" \/ high THEN "BUY" ELSE "SELL"

-----------------------------------------------------------------------------
(* The analysis *)

DecisionInit ==
  /\ testing \in Modes
  /\ feed = NoFeed /\ results = [e \in Evaluators |-> Neutral]
  /\ technical = Neutral /\ rsiHigh = FALSE /\ ml = "none"
  /\ done = {} /\ decision = "none"

Running == decision = "none" /\ feed.asked

Answer(d) == decision' = d /\ UNCHANGED <<testing, feed, results, technical, rsiHigh, ml, done>>

\* A stale, mismatched or missing timeframe, no current tick, a closed market
\* in a test, or any other error of the feed.
FetchFails == decision = "none" /\ ~feed.asked /\ Answer("WAIT")

Fetch ==
  /\ decision = "none" /\ ~feed.asked
  /\ feed' = LiveFeed
  /\ UNCHANGED <<testing, results, technical, rsiHigh, ml, done, decision>>

\* A closed market: production falls back to whatever history it can fetch.
FetchClosed ==
  /\ decision = "none" /\ ~feed.asked /\ ~testing
  /\ \E complete \in BOOLEAN :
       feed' = [fresh |-> FALSE, complete |-> complete, asked |-> TRUE]
  /\ UNCHANGED <<testing, results, technical, rsiHigh, ml, done, decision>>

RunStrategies ==
  /\ Running /\ "strategies" \notin done
  /\ \E m \in Safely(MomentumResults), z \in Safely(ZoneResults),
        f \in Safely(FibonacciResults), i \in Safely(ICTResults), c \in Safely(CHoCHResults) :
       results' = [e \in Evaluators |-> CASE e = "Momentum"           -> m
                                          [] e = "SupportResistance" -> z
                                          [] e = "Fibonacci"          -> f
                                          [] e = "ICT"                -> i
                                          [] e = "CHoCH"              -> c]
  /\ done' = done \cup {"strategies"}
  /\ UNCHANGED <<testing, feed, technical, rsiHigh, ml, decision>>

RunTechnical ==
  /\ Running /\ "technical" \notin done
  /\ technical' \in TechnicalResults
  /\ rsiHigh' \in BOOLEAN
  /\ done' = done \cup {"technical"}
  /\ UNCHANGED <<testing, feed, results, ml, decision>>

RunML ==
  /\ Running /\ "ml" \notin done
  /\ ml' \in Predictions
  /\ done' = done \cup {"ml"}
  /\ UNCHANGED <<testing, feed, results, technical, rsiHigh, decision>>

\* The 120 seconds of the stages, or the 180 of the analysis, run out.
TimesOut == Running /\ Answer("WAIT")

\* The strategies stage joins the reasons of ICT and CHoCH.  Without one of the
\* timeframes those of CHoCH are a string, and joining them raises.
Raises == Running /\ "technical" \notin done /\ Answer("ERROR")

ReasonsClash ==
  /\ ~feed.complete
  /\ results["ICT"] # Error /\ results["CHoCH"] # Error

Decide ==
  /\ Running /\ done = Stages
  /\ Answer(IF ReasonsClash THEN "ERROR"
            ELSE IF testing
                 THEN ConfluenceDecision(results, technical, ml, feed.fresh)
                 ELSE FallbackDecision(results, technical, rsiHigh))

DecisionNext ==
  \/ FetchFails \/ Fetch \/ FetchClosed
  \/ RunStrategies \/ RunTechnical \/ RunML
  \/ TimesOut \/ Raises \/ Decide

DecisionSpec == DecisionInit /\ [][DecisionNext]_decisionVars

-----------------------------------------------------------------------------
(* Properties *)

DecisionTypeOK ==
  /\ testing \in Modes
  /\ feed \in [fresh : BOOLEAN, complete : BOOLEAN, asked : BOOLEAN]
  /\ \A e \in Evaluators : results[e] \in {Error, Neutral} \cup Directional(Sides, 1..100)
  /\ technical \in TechnicalResults /\ rsiHigh \in BOOLEAN /\ ml \in Predictions
  /\ done \subseteq Stages /\ decision \in Decisions

SideOf   == IF decision = "BUY" THEN "bullish" ELSE "bearish"
Opposite == IF decision = "BUY" THEN "bearish" ELSE "bullish"
Issued   == decision \in {"BUY", "SELL"}

\* "contradiction or insufficient required evidence produces WAIT" (README.md:7):
\* most evaluators are for a signal, none strongly against it, and ICT and CHoCH
\* never against each other.  (One of these two alone, with the other neutral,
\* counts as a neutral group.)
ConfluenceRequired ==
  Issued =>
    /\ Cardinality({e \in Evaluators : results[e].bias = SideOf}) >= 3
    /\ \A e \in Evaluators \ {"ICT", "CHoCH"} :
         results[e].bias = Opposite => results[e].conf < Strong
    /\ {results["ICT"].bias, results["CHoCH"].bias} # Sides
    /\ {results["ICT"].bias, results["CHoCH"].bias} # {Opposite}

\* The confluence that tests select keeps this rule, and never signals against
\* the prediction of the model, nor on stale or incomplete data, nor without a
\* setup that gives the levels of its side.  Of all this, production keeps a setup,
\* the timeframes and five evaluators that answered. (consensus.combine;
\* _run_analysis_pipeline: ml_compatible, mtf_freshness, levels_valid)
ConfluenceKept ==
  /\ testing /\ Issued => /\ ConfluenceRequired
                          /\ ml \in {"none", SideOf}
                          /\ feed.fresh /\ feed.complete
                          /\ technical.bias = SideOf
  /\ Issued => /\ technical.bias \in Sides /\ feed.complete
               /\ \A e \in Evaluators : results[e] # Error

\* The confluence has no preferred side: opposite evidence gives the opposite
\* decision. (consensus.combine: winner, ties and contradictions)
MirrorBias(b) == CASE b = "bullish" -> "bearish" [] b = "bearish" -> "bullish" [] OTHER -> b
Mirror(r)     == [r EXCEPT !.bias = MirrorBias(r.bias)]
NoPreferredSide ==
  testing /\ decision # "none" /\ done = Stages /\ feed = LiveFeed =>
    LET mirrored == ConfluenceDecision([e \in Evaluators |-> Mirror(results[e])],
                                       Mirror(technical), MirrorBias(ml), TRUE)
    IN  (mirrored = "BUY") = (ConfluenceDecision(results, technical, ml, TRUE) = "SELL")

\* Support never turns a signal into a WAIT: when an evaluator that did not
\* vote for the signal does, with the confidence asked of all, the signal stands.
\* (consensus.combine: the vote count and the mean confidence)
SupportNeverHurts ==
  testing /\ Issued =>
    \A e \in {x \in Evaluators \ {"ICT", "CHoCH"} : results[x].bias # SideOf} :
      \A c \in {Threshold, Strong, 100} :
        ConfluenceDecision([results EXCEPT ![e] = [bias |-> SideOf, conf |-> c]],
                           technical, ml, TRUE) = decision
=============================================================================
