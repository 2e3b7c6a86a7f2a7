---------------------------- MODULE MCOtpService ----------------------------
(* Instances of OtpService for TLC.                                        *)
EXTENDS OtpService, TLC

ThreadSymmetry == Permutations(Workers)
=============================================================================
