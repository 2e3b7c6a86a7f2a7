--------------------------- MODULE MCFeedbackLoop ---------------------------
(* Instances of FeedbackLoop for TLC.                                      *)
EXTENDS FeedbackLoop, TLC

ThreadSymmetry == Permutations(Recorders) \cup Permutations(Trainers)
=============================================================================
