----------------------------- MODULE MCAccount -----------------------------
(***************************************************************************)
(* Instances of UserRow and Payments for TLC.  Both give access to the bot *)
(* and neither reads or writes what the other does, so that a behaviour of *)
(* the two is one of each, interleaved: TLC looks at one part at a time.   *)
(***************************************************************************)
EXTENDS UserRow, Payments, TLC

VARIABLE part  \* what this behaviour is about

AccountInit == Init /\ PayInit /\ part \in {"row", "payments"}

AccountNext ==
  \/ part = "row" /\ Next /\ UNCHANGED <<payVars, part>>
  \/ part = "payments" /\ PayNext /\ UNCHANGED <<vars, part>>

AccountSpec == AccountInit /\ [][AccountNext]_<<vars, payVars, part>>

ThreadSymmetry ==
  Permutations(Workers) \cup Permutations(Payers) \cup Permutations(Approvers) \cup Permutations(Spellings)
=============================================================================
