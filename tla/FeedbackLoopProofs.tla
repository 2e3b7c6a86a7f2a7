------------------------- MODULE FeedbackLoopProofs -------------------------
(***************************************************************************)
(* Theorems on predictions and retraining, for any number of users and of  *)
(* threads, and across failures and restarts.                              *)
(***************************************************************************)
EXTENDS FeedbackLoop, SequenceTheorems, FiniteSetTheorems, WellFoundedInduction, TLAPS

(* A set of predictions that is not empty has a newest one: of the sets of *)
(* those that come after one of them, a smallest is empty.                 *)
LEMMA LargestIsLast ==
  ASSUME NEW n \in Nat, NEW S \in SUBSET (1..n), S # {}
  PROVE  Largest(S) \in S /\ \A j \in S : j <= Largest(S)
<1>. DEFINE After(i) == (i + 1)..n
            Afters   == {After(i) : i \in S}
<1>1. \A i \in S : After(i) \in SUBSET Nat /\ IsFiniteSet(After(i))
  BY FS_Interval
<1>2. Afters \subseteq FiniteSubsetsOf(Nat) /\ Afters # {}
  <2>. HIDE DEF After
  <2>. QED
    BY <1>1 DEF FiniteSubsetsOf
<1>3. PICK A \in Afters : \A B \in Afters : <<B, A>> \notin StrictSubsetOrdering(Nat)
  <2>. HIDE DEF Afters
  <2>. QED
    BY <1>2, FS_StrictSubsetOrderingWellFounded, WFMin
<1>4. PICK i \in S : A = After(i)
  OBVIOUS
<1>5. ASSUME NEW j \in S PROVE j <= i
  <2>1. ~ (After(j) \subseteq After(i) /\ After(j) # After(i))
    <3>. HIDE DEF After
    <3>1. <<After(j), After(i)>> \notin StrictSubsetOrdering(Nat)
      BY <1>3, <1>4
    <3>. QED
      BY <1>1, <3>1 DEF StrictSubsetOrdering
  <2>2. j > i => j \in After(i) /\ j \notin After(j) /\ After(j) \subseteq After(i)
    OBVIOUS
  <2>. QED
    BY <2>1, <2>2
<1>. QED
  BY <1>5 DEF Largest

-----------------------------------------------------------------------------
(* What the actions do to the predictions                                  *)

LEMMA RowFacts ==
  ASSUME TypeOK
  PROVE  /\ Len(preds) \in Nat /\ Ids = 1..Len(preds) /\ Ids \subseteq 1..MaxRecords
         /\ \A i \in Ids : preds[i] \in Pred
         /\ IsFiniteSet(Ids)
<1>1. Len(preds) \in Nat /\ Ids = 1..Len(preds) /\ \A i \in Ids : preds[i] \in Pred
  BY DEF TypeOK, Ids
<1>2. Ids \subseteq 1..MaxRecords
  BY <1>1, FeedbackAssumption DEF TypeOK
<1>. QED
  BY <1>1, <1>2, FS_Interval

(* One row is replaced.                                                    *)
LEMMA RowReplaced ==
  ASSUME TypeOK, NEW i \in Ids, NEW p \in Pred, preds' = [preds EXCEPT ![i] = p]
  PROVE  /\ preds' \in Seq(Pred) /\ Len(preds') = Len(preds) /\ Ids' = Ids
         /\ preds'[i] = p /\ \A j \in Ids \ {i} : preds'[j] = preds[j]
<1>1. preds \in Seq(Pred) /\ i \in 1..Len(preds) /\ Ids = 1..Len(preds)
  BY RowFacts DEF TypeOK
<1>2. preds' \in Seq(Pred) /\ Len(preds') = Len(preds)
  BY <1>1, ExceptSeq
<1>3. Ids' = Ids
  BY <1>1, <1>2 DEF Ids
<1>. QED
  BY <1>1, <1>2, <1>3 DEF Ids

\* A row is kept but for its age, and for being resolved.
Kept(i) == /\ preds'[i] \in Pred /\ preds'[i].user = preds[i].user
           /\ preds[i].resolved => preds'[i].resolved
           /\ preds[i].labelled => preds'[i].labelled

RowsKept == /\ preds' \in Seq(Pred) /\ Len(preds') = Len(preds) /\ Ids' = Ids
            /\ \A i \in Ids : Kept(i)

LEMMA UpdateKeepsRows ==
  ASSUME TypeOK, NEW i, i \in batch => i \in Ids,
         \/ Resolve(i) /\ i \in batch
         \/ GiveUp(i) /\ i \in batch
         \/ Age(i) /\ i \in Ids
  PROVE  RowsKept
<1>. i \in Ids /\ preds[i] \in Pred
  BY RowFacts
<1>. DEFINE aged     == [preds[i] EXCEPT !.age = Older(@)]
            ended    == [preds[i] EXCEPT !.resolved = TRUE]
            resolved == [preds[i] EXCEPT !.resolved = TRUE, !.labelled = TRUE]
<1>1. PICK p \in Pred : /\ preds' = [preds EXCEPT ![i] = p] /\ p.user = preds[i].user
                        /\ preds[i].resolved => p.resolved
                        /\ preds[i].labelled => p.labelled
  <2>1. CASE Resolve(i)
    <3>1. resolved \in Pred /\ resolved.user = preds[i].user /\ resolved.resolved /\ resolved.labelled
      BY DEF Pred
    <3>2. preds' = [preds EXCEPT ![i] = resolved]
      BY <2>1 DEF Resolve, Ids
    <3>. HIDE DEF resolved
    <3>. QED
      BY <3>1, <3>2
  <2>2. CASE GiveUp(i)
    <3>1. ended \in Pred /\ ended.user = preds[i].user /\ ended.resolved /\ ended.labelled = preds[i].labelled
      BY DEF Pred
    <3>2. preds' = [preds EXCEPT ![i] = ended]
      BY <2>2 DEF GiveUp, Ids
    <3>. HIDE DEF ended
    <3>. QED
      BY <3>1, <3>2
  <2>3. CASE Age(i)
    <3>1. aged \in Pred /\ aged.user = preds[i].user /\ aged.resolved = preds[i].resolved
          /\ aged.labelled = preds[i].labelled
      BY DEF Pred, Ages, Older
    <3>2. preds' = [preds EXCEPT ![i] = aged]
      BY <2>3 DEF Age, Ids
    <3>. HIDE DEF aged
    <3>. QED
      BY <3>1, <3>2
  <2>. QED
    BY <2>1, <2>2, <2>3
<1>2. /\ preds' \in Seq(Pred) /\ Len(preds') = Len(preds) /\ Ids' = Ids
      /\ preds'[i] = p /\ \A j \in Ids \ {i} : preds'[j] = preds[j]
  BY <1>1, RowReplaced
<1>3. \A j \in Ids \ {i} : preds[j] \in Pred
  BY RowFacts
<1>. QED
  BY <1>1, <1>2, <1>3 DEF RowsKept, Kept

(* A prediction is recorded.                                               *)
LEMMA InsertEffect ==
  ASSUME TypeOK, NEW w \in Recorders, Insert(w)
  PROVE  LET k == Len(preds) + 1
         IN  /\ preds' \in Seq(Pred) /\ Len(preds') = k /\ k <= MaxRecords
             /\ Ids' = Ids \cup {k} /\ k \notin Ids
             /\ \A i \in Ids : preds'[i] = preds[i]
             /\ preds'[k].user = recorder[w] /\ ~ preds'[k].resolved /\ ~ preds'[k].labelled
             /\ recorder[w] \in Users
<1>. DEFINE new == [user |-> recorder[w], age |-> "fresh", resolved |-> FALSE, labelled |-> FALSE]
<1>1. recorder[w] \in Users
  BY DEF Insert, TypeOK
<1>2. new \in Pred /\ new.user = recorder[w] /\ ~ new.resolved /\ ~ new.labelled
  BY <1>1 DEF Pred, Ages
<1>3. preds' = Append(preds, new)
  BY DEF Insert
<1>. HIDE DEF new
<1>4. preds \in Seq(Pred) /\ Len(preds) \in Nat /\ Ids = 1..Len(preds)
  BY RowFacts DEF TypeOK
<1>5. /\ preds' \in Seq(Pred) /\ Len(preds') = Len(preds) + 1
      /\ \A i \in Ids : preds'[i] = preds[i]
      /\ preds'[Len(preds) + 1] = new
  BY <1>2, <1>3, <1>4, AppendProperties
<1>6. Ids' = 1..(Len(preds) + 1)
  BY <1>5 DEF Ids
<1>7. Len(preds) + 1 <= MaxRecords
  BY <1>4, FeedbackAssumption DEF Insert
<1>. QED
  BY <1>1, <1>2, <1>4, <1>5, <1>6, <1>7

-----------------------------------------------------------------------------
(* The inductive invariant                                                 *)

\* The scheduler resolves predictions that exist.
BatchExists == batch \subseteq Ids

\* One retraining at a time, and the flag is up for as long as it runs.
OneTrainer ==
  \A t \in Trainers : trainer[t].pc # "free" =>
     training /\ \A u \in Trainers \ {t} : trainer[u].pc = "free"

\* A model is trained only when there are outcomes ...
OutcomesExist ==
  \A t \in Trainers : trainer[t].pc \in {"load", "train", "mark"} => Outcomes # {}

\* ... and on all that the model before it had: outcomes do not go away.
LearntKept ==
  /\ learnt \subseteq Outcomes
  /\ \A t \in Trainers : trainer[t].pc = "train" =>
        learnt \subseteq trainer[t].rows /\ trainer[t].rows \subseteq Outcomes

FeedbackInv == BatchExists /\ OneTrainer /\ OutcomesExist /\ LearntKept

(* What the steps of the recorders, of the scheduler and of time leave.    *)
LEMMA RowStep ==
  ASSUME TypeOK, BatchExists,
         \/ \E w \in Recorders : Insert(w) \/ \E u \in Users : Look(w, u)
         \/ Resolution
         \/ \E i \in Ids : Age(i)
  PROVE  /\ preds' \in Seq(Pred) /\ Len(preds') <= MaxRecords /\ Ids \subseteq Ids' /\ batch' \subseteq Ids'
         /\ recorder' \in [Recorders -> Users \cup {Nobody}]
         /\ Outcomes \subseteq Outcomes'
         /\ UNCHANGED <<training, trainer, marker, learnt>>
<1>. Ids \subseteq 1..MaxRecords
  BY RowFacts
<1>1. ASSUME UNCHANGED preds PROVE /\ preds' \in Seq(Pred) /\ Len(preds') <= MaxRecords
                                   /\ Ids' = Ids /\ Outcomes' = Outcomes
  BY <1>1 DEF TypeOK, Ids, Outcomes
<1>2. ASSUME RowsKept PROVE /\ preds' \in Seq(Pred) /\ Len(preds') <= MaxRecords
                            /\ Ids' = Ids /\ Outcomes \subseteq Outcomes'
  BY <1>2 DEF RowsKept, Kept, TypeOK, Outcomes
<1>3. ASSUME NEW w \in Recorders, NEW u \in Users, Look(w, u)
      PROVE  UNCHANGED <<preds, batch, training, trainer, marker, learnt>>
             /\ recorder' \in [Recorders -> Users \cup {Nobody}]
  BY <1>3 DEF Look, TypeOK
<1>4. ASSUME NEW w \in Recorders, Insert(w)
      PROVE  /\ preds' \in Seq(Pred) /\ Len(preds') <= MaxRecords /\ Ids \subseteq Ids' /\ Outcomes \subseteq Outcomes'
             /\ recorder' \in [Recorders -> Users \cup {Nobody}]
             /\ UNCHANGED <<batch, training, trainer, marker, learnt>>
  <2>1. recorder' \in [Recorders -> Users \cup {Nobody}] /\ UNCHANGED <<batch, training, trainer, marker, learnt>>
    BY <1>4 DEF Insert, TypeOK
  <2>2. Outcomes \subseteq Outcomes'
    BY <1>4, InsertEffect DEF Outcomes
  <2>. QED
    BY <1>4, <2>1, <2>2, InsertEffect
<1>5. ASSUME FetchPending
      PROVE  batch' \subseteq Ids /\ UNCHANGED <<preds, recorder, training, trainer, marker, learnt>>
  BY <1>5 DEF FetchPending, Pending, Open
<1>6. ASSUME NEW i \in batch, Resolve(i) \/ GiveUp(i) \/ TryLater(i)
      PROVE  /\ RowsKept \/ UNCHANGED preds
             /\ batch' \subseteq batch /\ UNCHANGED <<recorder, training, trainer, marker, learnt>>
  <2>1. batch' \subseteq batch /\ UNCHANGED <<recorder, training, trainer, marker, learnt>>
    BY <1>6 DEF Resolve, GiveUp, TryLater, Handled
  <2>2. RowsKept \/ UNCHANGED preds
    BY <1>6, UpdateKeepsRows DEF TryLater, BatchExists
  <2>. QED
    BY <2>1, <2>2
<1>7. ASSUME NEW i \in Ids, Age(i)
      PROVE  RowsKept /\ UNCHANGED <<recorder, batch, training, trainer, marker, learnt>>
  BY <1>7, UpdateKeepsRows DEF Age, BatchExists
<1>. recorder \in [Recorders -> Users \cup {Nobody}]
  BY DEF TypeOK
<1>. QED
  BY <1>1, <1>2, <1>3, <1>4, <1>5, <1>6, <1>7 DEF Resolution, BatchExists

(* What is learnt and in training is kept while outcomes are added.        *)
LEMMA RowStepKeepsInv ==
  ASSUME TypeOK, FeedbackInv, batch' \subseteq Ids', Outcomes \subseteq Outcomes',
         UNCHANGED <<training, trainer, marker, learnt>>
  PROVE  FeedbackInv'
<1>1. BatchExists' /\ OneTrainer'
  BY DEF FeedbackInv, BatchExists, OneTrainer
<1>2. OutcomesExist' /\ LearntKept'
  BY DEF FeedbackInv, OutcomesExist, LearntKept
<1>. QED
  BY <1>1, <1>2 DEF FeedbackInv

(* A retraining is started, when none is under way.                        *)
LEMMA StartKeepsInv ==
  ASSUME TypeOK, FeedbackInv, StartRetrain
  PROVE  TypeOK' /\ FeedbackInv'
<1>1. \A t \in Trainers : trainer[t].pc = "free"
  BY DEF StartRetrain, FeedbackInv, OneTrainer
<1>2. UNCHANGED <<preds, recorder, batch, marker, learnt, Ids, Outcomes>> /\ training'
  BY DEF StartRetrain, Ids, Outcomes
<1>3. \/ UNCHANGED trainer
      \/ \E t \in Trainers : /\ trainer'[t] \in Trainer /\ trainer'[t].pc = "count"
                             /\ trainer' = [trainer EXCEPT ![t] = trainer'[t]]
  <2>1. ASSUME NEW t \in Trainers, trainer' = [trainer EXCEPT ![t].pc = "count", ![t].last = marker]
        PROVE  /\ trainer'[t] \in Trainer /\ trainer'[t].pc = "count"
               /\ trainer' = [trainer EXCEPT ![t] = trainer'[t]]
    <3>. DEFINE new == [trainer[t] EXCEPT !.pc = "count", !.last = marker]
    <3>1. trainer[t] \in Trainer /\ marker \in 0..MaxRecords
      BY DEF TypeOK
    <3>2. new \in Trainer /\ new.pc = "count"
      BY <3>1 DEF Trainer
    <3>3. trainer' = [trainer EXCEPT ![t] = new]
      BY <2>1
    <3>. HIDE DEF new
    <3>4. trainer'[t] = new
      BY <3>3 DEF TypeOK
    <3>. QED
      BY <3>2, <3>3, <3>4
  <2>. QED
    BY <2>1 DEF StartRetrain
<1>4. trainer' \in [Trainers -> Trainer]
  BY <1>3 DEF TypeOK
<1>5. \A t \in Trainers : trainer'[t].pc \in {"free", "count"}
  BY <1>1, <1>3 DEF TypeOK
<1>6. OneTrainer'
  <2>1. CASE UNCHANGED trainer
    BY <1>1, <2>1 DEF OneTrainer
  <2>2. ASSUME NEW t \in Trainers, trainer' = [trainer EXCEPT ![t] = trainer'[t]] PROVE OneTrainer'
    <3>1. \A u \in Trainers \ {t} : trainer'[u].pc = "free"
      BY <1>1, <2>2 DEF TypeOK
    <3>. QED
      BY <1>2, <3>1 DEF OneTrainer
  <2>. QED
    BY <1>3, <2>1, <2>2
<1>7. TypeOK'
  BY <1>2, <1>4 DEF TypeOK
<1>8. OutcomesExist' /\ LearntKept' /\ BatchExists'
  BY <1>2, <1>5 DEF FeedbackInv, OutcomesExist, LearntKept, BatchExists
<1>. QED
  BY <1>6, <1>7, <1>8 DEF FeedbackInv

\* What a step of retraining thread t leaves: t was running, and what it holds
\* and leaves behind fits the outcomes, none of which has been forgotten.
Advanced(t) ==
  /\ UNCHANGED <<preds, recorder, batch>>
  /\ trainer[t].pc # "free"
  /\ trainer'[t] \in Trainer /\ trainer' = [trainer EXCEPT ![t] = trainer'[t]]
  /\ training' = training \/ (training' = FALSE /\ trainer'[t].pc = "free")
  /\ marker' \in 0..MaxRecords
  /\ learnt \subseteq learnt' /\ learnt' \subseteq Outcomes
  /\ trainer'[t].pc \in {"load", "train", "mark"} => Outcomes # {}
  /\ trainer'[t].pc = "train" => trainer'[t].rows = Outcomes

(* A thread that moves on to pc, and changes nothing else of its own.      *)
LEMMA MovedOn ==
  ASSUME TypeOK, NEW t \in Trainers, NEW pc \in {"load", "train", "mark", "write", "done"},
         trainer' = [trainer EXCEPT ![t].pc = pc]
  PROVE  /\ trainer'[t] \in Trainer /\ trainer'[t].pc = pc
         /\ trainer' = [trainer EXCEPT ![t] = trainer'[t]]
<1>. DEFINE new == [trainer[t] EXCEPT !.pc = pc]
<1>1. trainer[t] \in Trainer
  BY DEF TypeOK
<1>2. new \in Trainer /\ new.pc = pc
  BY <1>1 DEF Trainer
<1>3. trainer' = [trainer EXCEPT ![t] = new]
  OBVIOUS
<1>. HIDE DEF new
<1>4. trainer'[t] = new
  BY <1>3 DEF TypeOK
<1>. QED
  BY <1>2, <1>3, <1>4

LEMMA RetrainingAdvances ==
  ASSUME TypeOK, FeedbackInv, NEW t \in Trainers, Retraining(t)
  PROVE  Advanced(t)
<1>. trainer[t] \in Trainer /\ marker \in 0..MaxRecords /\ learnt \subseteq Outcomes
  BY DEF TypeOK, FeedbackInv, LearntKept
<1>. Ids \subseteq 1..MaxRecords /\ Outcomes \subseteq 1..MaxRecords /\ IsFiniteSet(Outcomes)
  BY RowFacts, FS_Subset DEF Outcomes
<1>1. CASE CountNew(t)
  <2>. DEFINE new == {i \in Outcomes : i > trainer[t].last}
              next == IF Cardinality(new) >= MinNew THEN "load" ELSE "done"
  <2>1. Cardinality(new) >= MinNew => Outcomes # {}
    <3>1. Outcomes = {} => Cardinality(new) = 0
      BY FS_EmptySet
    <3>. QED
      BY <3>1, FeedbackAssumption
  <2>2. /\ trainer[t].pc = "count" /\ trainer' = [trainer EXCEPT ![t].pc = next]
        /\ UNCHANGED <<preds, recorder, batch, training, marker, learnt>>
    BY <1>1 DEF CountNew, Step
  <2>3. next \in {"load", "done"} /\ (next = "load" => Outcomes # {})
    BY <2>1
  <2>. HIDE DEF next
  <2>4. /\ trainer'[t] \in Trainer /\ trainer'[t].pc = next
        /\ trainer' = [trainer EXCEPT ![t] = trainer'[t]]
    BY <2>2, <2>3, MovedOn
  <2>. QED
    BY <2>2, <2>3, <2>4 DEF Advanced
<1>2. CASE Load(t)
  <2>. DEFINE new == [trainer[t] EXCEPT !.pc = "train", !.rows = Outcomes]
  <2>1. new \in Trainer /\ new.pc = "train" /\ new.rows = Outcomes
    BY DEF Trainer
  <2>2. /\ trainer[t].pc = "load" /\ trainer' = [trainer EXCEPT ![t] = new]
        /\ UNCHANGED <<preds, recorder, batch, training, marker, learnt>>
    BY <1>2 DEF Load
  <2>3. Outcomes # {}
    BY <2>2 DEF FeedbackInv, OutcomesExist
  <2>. HIDE DEF new
  <2>4. trainer'[t] = new
    BY <2>2 DEF TypeOK
  <2>. QED
    BY <2>1, <2>2, <2>3, <2>4 DEF Advanced
<1>3. CASE Train(t)
  <2>1. PICK pc \in {"mark", "done"} :
           /\ trainer[t].pc = "train" /\ trainer' = [trainer EXCEPT ![t].pc = pc]
           /\ UNCHANGED <<preds, recorder, batch, training, marker>>
           /\ learnt' = trainer[t].rows \/ learnt' = learnt
    BY <1>3 DEF Train, Step
  <2>2. learnt \subseteq trainer[t].rows /\ trainer[t].rows \subseteq Outcomes /\ Outcomes # {}
    BY <2>1 DEF FeedbackInv, LearntKept, OutcomesExist
  <2>3. /\ trainer'[t] \in Trainer /\ trainer'[t].pc = pc
        /\ trainer' = [trainer EXCEPT ![t] = trainer'[t]]
    BY <2>1, MovedOn
  <2>. QED
    BY <2>1, <2>2, <2>3 DEF Advanced
<1>4. CASE Mark(t)
  <2>. DEFINE new == [trainer[t] EXCEPT !.pc = "write", !.last = Largest(Outcomes)]
  <2>1. /\ trainer[t].pc = "mark" /\ trainer' = [trainer EXCEPT ![t] = new]
        /\ UNCHANGED <<preds, recorder, batch, training, marker, learnt>>
    BY <1>4 DEF Mark
  <2>2. Largest(Outcomes) \in 0..MaxRecords
    <3>1. Outcomes # {}
      BY <2>1 DEF FeedbackInv, OutcomesExist
    <3>2. Largest(Outcomes) \in Outcomes
      BY <3>1, LargestIsLast, FeedbackAssumption
    <3>3. 1..MaxRecords \subseteq 0..MaxRecords
      BY FeedbackAssumption
    <3>. QED
      BY <3>2, <3>3, Zenon
  <2>3. new \in Trainer /\ new.pc = "write"
    BY <2>2 DEF Trainer
  <2>. HIDE DEF new
  <2>4. trainer'[t] = new
    BY <2>1 DEF TypeOK
  <2>. QED
    BY <2>1, <2>3, <2>4 DEF Advanced
<1>5. CASE Write(t)
  <2>1. /\ trainer[t].pc = "write" /\ trainer' = [trainer EXCEPT ![t].pc = "done"]
        /\ UNCHANGED <<preds, recorder, batch, training, learnt>>
        /\ marker' = trainer[t].last \/ marker' = marker
    BY <1>5 DEF Write, Step
  <2>2. marker' \in 0..MaxRecords
    BY <2>1 DEF Trainer
  <2>3. /\ trainer'[t] \in Trainer /\ trainer'[t].pc = "done"
        /\ trainer' = [trainer EXCEPT ![t] = trainer'[t]]
    BY <2>1, MovedOn
  <2>. QED
    BY <2>1, <2>2, <2>3 DEF Advanced
<1>6. CASE EndRetrain(t)
  <2>1. NoTrainer \in Trainer /\ NoTrainer.pc = "free"
    BY FeedbackAssumption DEF NoTrainer, Trainer
  <2>2. /\ trainer[t].pc = "done" /\ trainer' = [trainer EXCEPT ![t] = NoTrainer]
        /\ training' = FALSE
        /\ UNCHANGED <<preds, recorder, batch, marker, learnt>>
    BY <1>6 DEF EndRetrain
  <2>3. trainer'[t] = NoTrainer
    BY <2>2 DEF TypeOK
  <2>. QED
    BY <2>1, <2>2, <2>3 DEF Advanced
<1>. QED
  BY <1>1, <1>2, <1>3, <1>4, <1>5, <1>6 DEF Retraining

(* Only one thread is training, so what is true of t is true of all.       *)
LEMMA AdvancedKeepsInv ==
  ASSUME TypeOK, FeedbackInv, NEW t \in Trainers, Advanced(t)
  PROVE  TypeOK' /\ FeedbackInv'
<1>. Outcomes' = Outcomes /\ Ids' = Ids
  BY DEF Advanced, Outcomes, Ids
<1>. Outcomes \subseteq 1..MaxRecords
  BY RowFacts DEF Outcomes
<1>1. training /\ \A u \in Trainers \ {t} : trainer'[u] = trainer[u] /\ trainer[u].pc = "free"
  BY DEF Advanced, FeedbackInv, OneTrainer, TypeOK
<1>2. TypeOK'
  <2>1. training' \in BOOLEAN
    BY DEF Advanced, TypeOK
  <2>2. trainer' \in [Trainers -> Trainer]
    BY DEF Advanced, TypeOK
  <2>. QED
    BY <2>1, <2>2 DEF Advanced, TypeOK
<1>3. OneTrainer'
  BY <1>1 DEF Advanced, OneTrainer
<1>4. OutcomesExist' /\ BatchExists'
  BY <1>1 DEF Advanced, OutcomesExist, FeedbackInv, BatchExists
<1>5. LearntKept'
  BY <1>1 DEF Advanced, LearntKept
<1>. QED
  BY <1>2, <1>3, <1>4, <1>5 DEF FeedbackInv

-----------------------------------------------------------------------------

LEMMA InitHolds == Init => TypeOK /\ FeedbackInv
<1>. SUFFICES ASSUME Init PROVE TypeOK /\ FeedbackInv
  OBVIOUS
<1>1. preds \in Seq(Pred) /\ Len(preds) = 0 /\ Ids = {}
  BY EmptySeq DEF Init, Ids
<1>2. NoTrainer \in Trainer /\ NoTrainer.pc = "free"
  BY FeedbackAssumption DEF NoTrainer, Trainer
<1>3. TypeOK
  <2>1. recorder \in [Recorders -> Users \cup {Nobody}] /\ Len(preds) <= MaxRecords
    BY <1>1, FeedbackAssumption DEF Init
  <2>3. training \in BOOLEAN
    BY DEF Init
  <2>2. trainer \in [Trainers -> Trainer] /\ marker \in 0..MaxRecords
    BY <1>2, FeedbackAssumption DEF Init
  <2>. QED
    BY <1>1, <2>1, <2>2, <2>3 DEF Init, TypeOK
<1>4. \A t \in Trainers : trainer[t].pc = "free"
  BY <1>2 DEF Init
<1>. QED
  BY <1>1, <1>3, <1>4 DEF Init, FeedbackInv, BatchExists, OneTrainer, OutcomesExist, LearntKept

LEMMA StepHolds ==
  ASSUME TypeOK, FeedbackInv, [Next]_vars
  PROVE  TypeOK' /\ FeedbackInv' /\ learnt \subseteq learnt'
<1>1. CASE \/ \E w \in Recorders : Insert(w) \/ \E u \in Users : Look(w, u)
           \/ Resolution
           \/ \E i \in Ids : Age(i)
  <2>1. /\ preds' \in Seq(Pred) /\ Len(preds') <= MaxRecords /\ Ids \subseteq Ids' /\ batch' \subseteq Ids'
        /\ recorder' \in [Recorders -> Users \cup {Nobody}]
        /\ Outcomes \subseteq Outcomes'
        /\ UNCHANGED <<training, trainer, marker, learnt>>
    BY <1>1, RowStep DEF FeedbackInv
  <2>2. FeedbackInv'
    BY <2>1, RowStepKeepsInv
  <2>3. Ids' \subseteq 1..MaxRecords
    <3>1. Len(preds') \in Nat /\ Ids' = 1..Len(preds')
      BY <2>1 DEF Ids
    <3>. QED
      BY <2>1, <3>1, FeedbackAssumption
  <2>4. TypeOK'
    BY <2>1, <2>3 DEF TypeOK
  <2>. QED
    BY <2>1, <2>2, <2>4
<1>2. CASE StartRetrain
  BY <1>2, StartKeepsInv DEF StartRetrain
<1>3. ASSUME NEW t \in Trainers, Retraining(t) PROVE TypeOK' /\ FeedbackInv' /\ learnt \subseteq learnt'
  BY <1>3, RetrainingAdvances, AdvancedKeepsInv DEF Advanced
<1>4. CASE Restart
  <2>1. NoTrainer \in Trainer /\ NoTrainer.pc = "free"
    BY FeedbackAssumption DEF NoTrainer, Trainer
  <2>2. UNCHANGED <<preds, marker, learnt, Ids, Outcomes>>
    BY <1>4 DEF Restart, Ids, Outcomes
  <2>3. TypeOK'
    BY <1>4, <2>1, <2>2 DEF Restart, TypeOK
  <2>4. \A t \in Trainers : trainer'[t].pc = "free"
    BY <1>4, <2>1 DEF Restart
  <2>5. FeedbackInv'
    BY <1>4, <2>2, <2>4 DEF Restart, FeedbackInv, BatchExists, OneTrainer, OutcomesExist, LearntKept
  <2>. QED
    BY <2>2, <2>3, <2>5
<1>5. CASE UNCHANGED vars
  <2>1. UNCHANGED <<preds, recorder, batch, training, trainer, marker, learnt, Ids, Outcomes>>
    BY <1>5 DEF vars, Ids, Outcomes
  <2>. QED
    BY <2>1 DEF TypeOK, FeedbackInv, BatchExists, OneTrainer, OutcomesExist, LearntKept
<1>. QED
  BY <1>1, <1>2, <1>3, <1>4, <1>5 DEF Next

LEMMA FeedbackInvHolds == Spec => [](TypeOK /\ FeedbackInv)
<1>1. TypeOK /\ FeedbackInv /\ [Next]_vars => (TypeOK /\ FeedbackInv)'
  BY StepHolds
<1>. QED
  BY InitHolds, <1>1, PTL DEF Spec

-----------------------------------------------------------------------------
(* The theorems                                                            *)

\* Every row, thread, batch and marker has its type.  In particular the query for
\* the marker's new value always finds an outcome: a training that got there
\* started from outcomes, and outcomes do not go away. (_run_feedback_retrain)
THEOREM TypeCorrect == Spec => []TypeOK
  BY FeedbackInvHolds, PTL

\* A new model has learnt every outcome that the model before it had, for any
\* number of recorders and of users, and whatever fails or is restarted.
\* (_run_feedback_retrain, load_feedback_rows)
THEOREM NothingIsForgotten == Spec => NeverForgets
<1>1. (TypeOK /\ FeedbackInv) /\ [Next]_vars => [learnt \subseteq learnt']_vars
  BY StepHolds
<1>. QED
  BY FeedbackInvHolds, <1>1, PTL DEF Spec, NeverForgets

-----------------------------------------------------------------------------
(* How many predictions stay open                                          *)

RecordersOf(u) == {w \in Recorders : recorder[w] = u}

LEMMA OpenFacts ==
  ASSUME TypeOK, NEW u
  PROVE  /\ IsFiniteSet(OpenOf(u)) /\ IsFiniteSet(RecordersOf(u))
         /\ Cardinality(OpenOf(u)) \in Nat /\ Cardinality(RecordersOf(u)) \in Nat
         /\ Cardinality(RecordersOf(u)) <= Cardinality(Recorders)
         /\ Cardinality(Recorders) \in Nat
<1>1. IsFiniteSet(Ids) /\ OpenOf(u) \subseteq Ids
  BY RowFacts DEF OpenOf, Open
<1>2. IsFiniteSet(Recorders) /\ RecordersOf(u) \subseteq Recorders
  BY FeedbackAssumption DEF RecordersOf
<1>. QED
  BY <1>1, <1>2, FS_Subset, FS_CardinalityType

\* The open predictions of a user and those about to be recorded, counted.
Counted(u) == Cardinality(OpenOf(u)) + Cardinality(RecordersOf(u))

(* An analysis looks for an open prediction: it goes on only if there is   *)
(* none, and no more analyses than there are recorders go on with it.      *)
LEMMA LookBounded ==
  ASSUME TypeOK, TypeOK', NEW w \in Recorders, NEW x \in Users, Look(w, x),
         NEW u \in Users, Counted(u) <= Cardinality(Recorders)
  PROVE  Counted(u)' <= Cardinality(Recorders)
<1>1. OpenOf(u)' = OpenOf(u)
  BY DEF Look, OpenOf, Open, Ids
<1>2. CASE u = x
  <2>1. Cardinality(OpenOf(u)') = 0
    BY <1>1, <1>2, FS_EmptySet DEF Look
  <2>2. /\ Cardinality(RecordersOf(u)') \in Nat
        /\ Cardinality(RecordersOf(u)') <= Cardinality(Recorders)
    <3>1. RecordersOf(u)' \subseteq Recorders
      BY DEF RecordersOf
    <3>. QED
      BY <3>1, FS_Subset, FS_CardinalityType, FeedbackAssumption
  <2>. QED
    BY <2>1, <2>2 DEF Counted
<1>3. CASE u # x
  <2>1. RecordersOf(u)' = RecordersOf(u)
    BY <1>3, FeedbackAssumption DEF Look, RecordersOf, TypeOK
  <2>. QED
    BY <1>1, <2>1 DEF Counted
<1>. QED
  BY <1>2, <1>3

(* A prediction is recorded: it is open now, and its recorder is free.     *)
LEMMA InsertBounded ==
  ASSUME TypeOK, NEW w \in Recorders, Insert(w),
         NEW u \in Users, Counted(u) <= Cardinality(Recorders)
  PROVE  Counted(u)' <= Cardinality(Recorders)
<1>. DEFINE k == Len(preds) + 1
<1>1. /\ Ids' = Ids \cup {k} /\ k \notin Ids
      /\ \A i \in Ids : preds'[i] = preds[i]
      /\ preds'[k].user = recorder[w] /\ ~ preds'[k].resolved
      /\ recorder[w] \in Users
  BY InsertEffect
<1>. HIDE DEF k
<1>2. OpenOf(u)' = IF u = recorder[w] THEN OpenOf(u) \cup {k} ELSE OpenOf(u)
  BY <1>1 DEF OpenOf, Open
<1>3. RecordersOf(u)' = RecordersOf(u) \ {w} /\ (w \in RecordersOf(u) <=> u = recorder[w])
  BY FeedbackAssumption DEF Insert, RecordersOf, TypeOK
<1>4. k \notin OpenOf(u)
  BY <1>1 DEF OpenOf, Open
<1>5. CASE u = recorder[w]
  <2>1. Cardinality(OpenOf(u)') = Cardinality(OpenOf(u)) + 1
    BY <1>2, <1>4, <1>5, OpenFacts, FS_AddElement
  <2>2. Cardinality(RecordersOf(u)') = Cardinality(RecordersOf(u)) - 1
    BY <1>3, <1>5, OpenFacts, FS_RemoveElement
  <2>. QED
    BY <2>1, <2>2, OpenFacts DEF Counted
<1>6. CASE u # recorder[w]
  BY <1>2, <1>3, <1>6 DEF Counted
<1>. QED
  BY <1>5, <1>6

(* A step that resolves or ages, and leaves the recorders or stops them.   *)
LEMMA FewerOpen ==
  ASSUME TypeOK, NEW u, OpenOf(u)' \subseteq OpenOf(u), RecordersOf(u)' \subseteq RecordersOf(u)
  PROVE  Counted(u)' <= Counted(u)
<1>1. /\ Cardinality(OpenOf(u)') \in Nat /\ Cardinality(OpenOf(u)') <= Cardinality(OpenOf(u))
      /\ Cardinality(RecordersOf(u)') \in Nat /\ Cardinality(RecordersOf(u)') <= Cardinality(RecordersOf(u))
  BY OpenFacts, FS_Subset, FS_CardinalityType
<1>. QED
  BY <1>1, OpenFacts DEF Counted

LEMMA OpenStep ==
  ASSUME TypeOK, TypeOK', FeedbackInv, [Next]_vars,
         NEW u \in Users, Counted(u) <= Cardinality(Recorders)
  PROVE  Counted(u)' <= Cardinality(Recorders)
<1>1. ASSUME NEW w \in Recorders, Insert(w) PROVE Counted(u)' <= Cardinality(Recorders)
  BY <1>1, InsertBounded
<1>2. ASSUME NEW w \in Recorders, NEW x \in Users, Look(w, x)
      PROVE  Counted(u)' <= Cardinality(Recorders)
  BY <1>2, LookBounded
<1>3. ASSUME RowsKept \/ UNCHANGED preds,
             UNCHANGED recorder \/ \A w \in Recorders : recorder'[w] = Nobody
      PROVE  Counted(u)' <= Cardinality(Recorders)
  <2>1. OpenOf(u)' \subseteq OpenOf(u)
    BY <1>3 DEF RowsKept, Kept, OpenOf, Open, Ids
  <2>2. RecordersOf(u)' \subseteq RecordersOf(u)
    BY <1>3, FeedbackAssumption DEF RecordersOf
  <2>3. Counted(u)' <= Counted(u)
    BY <2>1, <2>2, FewerOpen
  <2>4. Counted(u)' \in Nat /\ Counted(u) \in Nat
    <3>1. Cardinality(OpenOf(u)') \in Nat /\ Cardinality(RecordersOf(u)') \in Nat
      BY <2>1, <2>2, OpenFacts, FS_Subset, FS_CardinalityType
    <3>. QED
      BY <3>1, OpenFacts DEF Counted
  <2>. QED
    BY <2>3, <2>4, OpenFacts
<1>4. CASE Resolution
  <2>1. ASSUME NEW i \in batch, Resolve(i) \/ GiveUp(i) \/ TryLater(i)
        PROVE  (RowsKept \/ UNCHANGED preds) /\ UNCHANGED recorder
    <3>1. UNCHANGED recorder
      BY <2>1 DEF Resolve, GiveUp, TryLater, Handled
    <3>2. RowsKept \/ UNCHANGED preds
      BY <2>1, UpdateKeepsRows DEF TryLater, FeedbackInv, BatchExists
    <3>. QED
      BY <3>1, <3>2
  <2>2. CASE FetchPending
    BY <1>3, <2>2 DEF FetchPending
  <2>. QED
    BY <1>3, <1>4, <2>1, <2>2 DEF Resolution
<1>5. CASE StartRetrain
  BY <1>3, <1>5 DEF StartRetrain
<1>6. ASSUME NEW t \in Trainers, Retraining(t) PROVE UNCHANGED preds /\ UNCHANGED recorder
  BY <1>6, RetrainingAdvances DEF Advanced
<1>7. ASSUME NEW i \in Ids, Age(i) PROVE RowsKept /\ UNCHANGED recorder
  BY <1>7, UpdateKeepsRows DEF Age, FeedbackInv, BatchExists
<1>8. CASE Restart
  BY <1>3, <1>8 DEF Restart
<1>9. CASE UNCHANGED vars
  BY <1>3, <1>9 DEF vars
<1>. QED
  BY <1>1, <1>2, <1>3, <1>4, <1>5, <1>6, <1>7, <1>8, <1>9 DEF Next

\* As many analyses of one user as run at once can each leave a prediction open,
\* and no more, for any number of them: the sum of the open predictions and of
\* those about to be recorded never exceeds the number of recorders.
\* (_record_prediction)
THEOREM OpenStaysBounded == Spec => []OpenBounded
<1>. DEFINE Bound == \A u \in Users : Counted(u) <= Cardinality(Recorders)
<1>1. Init => Bound
  <2>1. ASSUME Init, NEW u \in Users PROVE Counted(u) <= Cardinality(Recorders)
    <3>1. OpenOf(u) = {} /\ RecordersOf(u) = {}
      BY <2>1, EmptySeq, FeedbackAssumption DEF Init, OpenOf, Open, Ids, RecordersOf
    <3>2. Counted(u) = 0
      BY <3>1, FS_EmptySet DEF Counted
    <3>. QED
      BY <3>2, FS_CardinalityType, FeedbackAssumption
  <2>. QED
    BY <2>1
<1>2. TypeOK /\ FeedbackInv /\ Bound /\ [Next]_vars => Bound'
  <2>1. ASSUME TypeOK, FeedbackInv, Bound, [Next]_vars, NEW u \in Users
        PROVE  Counted(u)' <= Cardinality(Recorders)
    BY <2>1, StepHolds, OpenStep
  <2>. QED
    BY <2>1
<1>3. Bound => OpenBounded
  BY DEF OpenBounded, Counted, RecordersOf
<1>. HIDE DEF Bound
<1>. QED
  BY <1>1, <1>2, <1>3, FeedbackInvHolds, PTL DEF Spec
=============================================================================
