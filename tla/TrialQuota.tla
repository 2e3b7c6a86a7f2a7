----------------------------- MODULE TrialQuota -----------------------------
(***************************************************************************)
(* What the trial limit promises when nothing locks it: an analysis is     *)
(* admitted on the trial only while fewer than Limit signals have been     *)
(* issued on it, and an admitted analysis issues at most one.              *)
(***************************************************************************)
EXTENDS Naturals

CONSTANTS Analysts,  \* processes that may run an analysis
          Limit      \* signals a trial is meant to issue

VARIABLES admitted,  \* processes whose analysis was admitted on the trial
          issued     \* signals issued by such analyses

quotaVars == <<admitted, issued>>

QuotaInit == admitted = {} /\ issued = 0

Admit(p) ==
  /\ issued < Limit
  /\ admitted' = admitted \cup {p}
  /\ UNCHANGED issued

Issue(p) ==
  /\ p \in admitted
  /\ admitted' = admitted \ {p}
  /\ issued' = issued + 1

Withdraw(p) ==
  /\ p \in admitted
  /\ admitted' = admitted \ {p}
  /\ UNCHANGED issued

QuotaNext == \E p \in Analysts : Admit(p) \/ Issue(p) \/ Withdraw(p)

QuotaSpec == QuotaInit /\ [][QuotaNext]_quotaVars
=============================================================================
