---------------------------- MODULE FeedbackLoop ----------------------------
(***************************************************************************)
(* Predictions and what the models learn from them, for one market: the    *)
(* record of a live prediction, its resolution against realized prices,    *)
(* and the retraining on resolved predictions. (tasks.py, ml/feedback.py)  *)
(*                                                                         *)
(* Web threads record predictions, the one thread of the scheduler         *)
(* resolves them and starts the retraining, which has a thread of its own. *)
(* A prediction is identified by its place in the order of creation.  Time *)
(* is abstracted to the ages that matter: the horizon has not passed, has  *)
(* passed, or lies more than three days back.                              *)
(***************************************************************************)
EXTENDS Naturals, Sequences, FiniteSets

CONSTANTS
  Users,
  Paper,        \* the users in paper mode
  Recorders,    \* threads that run analyses
  Trainers,     \* bound: retraining threads at a time
  BatchLimit,   \* predictions resolved in a cycle: 200
  MinNew,       \* RETRAIN_MIN_NEW
  MaxRecords,   \* bound: predictions recorded in a behaviour
  Scope         \* what an instance explores beside the normal course

Nobody == "nobody"

ASSUME FeedbackAssumption ==
  /\ Paper \subseteq Users /\ Nobody \notin Users
  /\ IsFiniteSet(Recorders) /\ IsFiniteSet(Trainers)
  /\ BatchLimit \in Nat \ {0} /\ MinNew \in Nat \ {0} /\ MaxRecords \in Nat \ {0}
  /\ Scope \subseteq {"crash", "disk", "threads"}

VARIABLES
  preds,     \* the rows of PredictionRecord, oldest first
  recorder,  \* recorder[w]: the user whose prediction w is about to insert
  batch,     \* what the scheduler has fetched and not yet resolved
  training,  \* _retrain_in_progress
  trainer,   \* trainer[t]: what retraining thread t is doing
  marker,    \* feedback_marker.json: the newest prediction accounted for
  learnt     \* the outcomes that the current model was trained on

vars == <<preds, recorder, batch, training, trainer, marker, learnt>>

Ages   == {"fresh", "due", "old"}
Pred   == [user : Users, age : Ages, resolved : BOOLEAN, labelled : BOOLEAN]

NoTrainer == [pc |-> "free", last |-> 0, rows |-> {}]
Trainer   == [pc : {"free", "count", "load", "train", "mark", "write", "done"},
              last : 0..MaxRecords, rows : SUBSET (1..MaxRecords)]

Ids        == DOMAIN preds
Open       == {i \in Ids : ~ preds[i].resolved}
OpenOf(u)  == {i \in Open : preds[i].user = u}
Outcomes   == {i \in Ids : preds[i].labelled}
Largest(S) == CHOOSE i \in S : \A j \in S : j <= i

-----------------------------------------------------------------------------
(* Recording: _record_prediction looks for an open prediction ...          *)

\* Mutant: nothing is looked for.
LookAway(w, u) ==
  /\ recorder[w] = Nobody
  /\ recorder' = [recorder EXCEPT ![w] = u]
  /\ UNCHANGED <<preds, batch, training, trainer, marker, learnt>>

Look(w, u) ==
  /\ recorder[w] = Nobody
  /\ OpenOf(u) = {}
  /\ recorder' = [recorder EXCEPT ![w] = u]
  /\ UNCHANGED <<preds, batch, training, trainer, marker, learnt>>

\* ... and then inserts one.
Insert(w) ==
  /\ recorder[w] # Nobody
  /\ Len(preds) < MaxRecords
  /\ preds' = Append(preds, [user |-> recorder[w], age |-> "fresh", resolved |-> FALSE,
                             labelled |-> FALSE])
  /\ recorder' = [recorder EXCEPT ![w] = Nobody]
  /\ UNCHANGED <<batch, training, trainer, marker, learnt>>

-----------------------------------------------------------------------------
(* Resolution                                                              *)

\* The oldest open predictions, at most BatchLimit of them.
Pending == {i \in Open : Cardinality({j \in Open : j < i}) < BatchLimit}

FetchPending ==
  /\ batch = {}
  /\ Pending # {}
  /\ batch' = Pending
  /\ UNCHANGED <<preds, recorder, training, trainer, marker, learnt>>

NextInBatch(i) == i \in batch /\ \A j \in batch : i <= j

Handled(i) == /\ batch' = batch \ {i}
              /\ UNCHANGED <<recorder, training, trainer, marker, learnt>>

\* What a fetch of candles can bring: those up to the end of the horizon, fewer,
\* or none when the feed fails.  Deriv's public history serves the users in paper
\* mode, and the broker of the user the others.
RealOutcomeCandles == {"enough", "short", "none"}
PredictionCandles  == {"enough", "short", "none"}
Fetched(i) == IF preds[i].user \in Paper THEN RealOutcomeCandles ELSE PredictionCandles

\* _apply_prediction_outcome: there are enough candles, and the prediction gets
\* its label.
Resolve(i) ==
  /\ NextInBatch(i)
  /\ preds[i].age # "fresh"
  /\ "enough" \in Fetched(i)
  /\ preds' = [preds EXCEPT ![i].resolved = TRUE, ![i].labelled = TRUE]
  /\ Handled(i)

\* Without enough candles an old prediction is ended, and that of a user in real
\* mode at once when the broker answered with too few.
Ends(i, fetched) ==
  \/ preds[i].age = "old"
  \/ fetched = "short" /\ preds[i].user \notin Paper

GiveUp(i) ==
  /\ NextInBatch(i)
  /\ preds[i].age # "fresh"
  /\ \E fetched \in Fetched(i) \ {"enough"} : Ends(i, fetched)
  /\ preds' = [preds EXCEPT ![i].resolved = TRUE]
  /\ Handled(i)

\* Mutant: there is no grace period.
TryForEver(i) ==
  /\ NextInBatch(i)
  /\ UNCHANGED preds
  /\ Handled(i)

\* The horizon has not passed, or there are no candles yet.
TryLater(i) ==
  /\ NextInBatch(i)
  /\ \/ preds[i].age = "fresh"
     \/ \E fetched \in Fetched(i) \ {"enough"} : ~ Ends(i, fetched)
  /\ UNCHANGED preds
  /\ Handled(i)

-----------------------------------------------------------------------------
(* Retraining                                                              *)

\* Mutant: the flag is not looked at.
StartRetrainAnyway ==
  /\ batch = {}
  /\ training' = TRUE
  /\ \E t \in Trainers : /\ trainer[t].pc = "free"
                         /\ trainer' = [trainer EXCEPT ![t].pc = "count", ![t].last = marker]
  /\ UNCHANGED <<preds, recorder, batch, marker, learnt>>

\* retrain_models_with_feedback, by the scheduler: one at a time.  The new
\* thread reads the marker.  When it cannot be started the flag stays.
StartRetrain ==
  /\ batch = {}
  /\ ~ training
  /\ training' = TRUE
  /\ \/ \E t \in Trainers : /\ trainer[t].pc = "free"
                            /\ trainer' = [trainer EXCEPT ![t].pc = "count", ![t].last = marker]
     \/ "threads" \in Scope /\ UNCHANGED trainer
  /\ UNCHANGED <<preds, recorder, batch, marker, learnt>>

Step(t, pc, next) ==
  /\ trainer[t].pc = pc
  /\ trainer' = [trainer EXCEPT ![t].pc = next]
  /\ UNCHANGED <<preds, recorder, batch, training>>

\* How many outcomes have a number above the marker?
CountNew(t) ==
  /\ Step(t, "count", IF Cardinality({i \in Outcomes : i > trainer[t].last}) >= MinNew
                      THEN "load" ELSE "done")
  /\ UNCHANGED <<marker, learnt>>

\* load_feedback_rows: all outcomes, whatever the marker says.
Load(t) ==
  /\ trainer[t].pc = "load"
  /\ trainer' = [trainer EXCEPT ![t].pc = "train", ![t].rows = Outcomes]
  /\ UNCHANGED <<preds, recorder, batch, training, marker, learnt>>

\* run_pipeline writes the new model, or raises; without an old model of the
\* market it is not called.  The query for the marker may fail after it.
Train(t) ==
  \/ /\ Step(t, "train", "mark")
     /\ learnt' = trainer[t].rows
     /\ UNCHANGED marker
  \/ Step(t, "train", "done") /\ UNCHANGED <<marker, learnt>>
  \/ /\ "disk" \in Scope
     /\ Step(t, "train", "done")
     /\ learnt' = trainer[t].rows
     /\ UNCHANGED marker

\* The marker becomes the largest number that has an outcome now.
Mark(t) ==
  /\ trainer[t].pc = "mark"
  /\ trainer' = [trainer EXCEPT ![t].pc = "write", ![t].last = Largest(Outcomes)]
  /\ UNCHANGED <<preds, recorder, batch, training, marker, learnt>>

\* It is written at the end; a failure to write is only logged.
Write(t) ==
  /\ Step(t, "write", "done")
  /\ \/ marker' = trainer[t].last
     \/ "disk" \in Scope /\ UNCHANGED marker
  /\ UNCHANGED learnt

\* The finally clause of the thread.
EndRetrain(t) ==
  /\ trainer[t].pc = "done"
  /\ trainer' = [trainer EXCEPT ![t] = NoTrainer]
  /\ training' = FALSE
  /\ UNCHANGED <<preds, recorder, batch, marker, learnt>>

-----------------------------------------------------------------------------
(* Time, and the restart of the process                                    *)

Older(age) == IF age = "fresh" THEN "due" ELSE "old"

\* Predictions age in the order in which they were made.
Age(i) ==
  /\ preds[i].age # "old"
  /\ \A j \in 1..(i - 1) : preds[j].age = "old" \/ (preds[j].age = "due" /\ preds[i].age = "fresh")
  /\ preds' = [preds EXCEPT ![i].age = Older(@)]
  /\ UNCHANGED <<recorder, batch, training, trainer, marker, learnt>>

\* Rows, the marker's file and the model's files survive.
Restart ==
  /\ "crash" \in Scope
  /\ recorder' = [w \in Recorders |-> Nobody]
  /\ batch' = {}
  /\ training' = FALSE
  /\ trainer' = [t \in Trainers |-> NoTrainer]
  /\ UNCHANGED <<preds, marker, learnt>>

-----------------------------------------------------------------------------

Init ==
  /\ preds = << >>
  /\ recorder = [w \in Recorders |-> Nobody]
  /\ batch = {}
  /\ training = FALSE
  /\ trainer = [t \in Trainers |-> NoTrainer]
  /\ marker = 0
  /\ learnt = {}

Resolution == FetchPending \/ \E i \in batch : Resolve(i) \/ GiveUp(i) \/ TryLater(i)

Retraining(t) ==
  CountNew(t) \/ Load(t) \/ Train(t) \/ Mark(t) \/ Write(t) \/ EndRetrain(t)

Next ==
  \/ \E w \in Recorders : Insert(w) \/ \E u \in Users : Look(w, u)
  \/ Resolution
  \/ StartRetrain
  \/ \E t \in Trainers : Retraining(t)
  \/ \E i \in Ids : Age(i)
  \/ Restart

Spec == Init /\ [][Next]_vars

\* The scheduler runs its tasks again and again, and time passes.  Candles may
\* never come.
FairSpec ==
  /\ Spec
  /\ WF_vars(Resolution)
  /\ \A i \in 1..MaxRecords : WF_vars(i \in Ids /\ Age(i))

-----------------------------------------------------------------------------
(* Properties *)

TypeOK ==
  /\ preds \in Seq(Pred) /\ Len(preds) <= MaxRecords
  /\ recorder \in [Recorders -> Users \cup {Nobody}]
  /\ batch \subseteq 1..MaxRecords
  /\ training \in BOOLEAN
  /\ trainer \in [Trainers -> Trainer]
  /\ marker \in 0..MaxRecords
  /\ learnt \subseteq 1..MaxRecords

\* As many analyses of one user as run at once can each leave a prediction
\* open, and no more. (_record_prediction)
OpenBounded ==
  \A u \in Users :
     Cardinality(OpenOf(u)) + Cardinality({w \in Recorders : recorder[w] = u})
        <= Cardinality(Recorders)

\* "so records never dangle" (tasks.py:436): every prediction is resolved in the
\* end, whatever the feed does and however many are pending, unless the process
\* is restarted for ever.
NeverDangles ==
  <>[][~ Restart]_vars =>
     \A i \in 1..MaxRecords : (i \in Ids) ~> (i \in Ids /\ preds[i].resolved)

\* A new model has learnt every outcome that the model before it had, across
\* failures and restarts. (_run_feedback_retrain, load_feedback_rows)
NeverForgets == [][learnt \subseteq learnt']_vars

=============================================================================
