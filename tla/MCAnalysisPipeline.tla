------------------------- MODULE MCAnalysisPipeline -------------------------
(* Instances of AnalysisPipeline for TLC.                                  *)
EXTENDS AnalysisPipeline, TLC

ThreadSymmetry == Permutations(Workers)
=============================================================================
