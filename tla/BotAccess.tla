----------------------------- MODULE BotAccess -----------------------------
(***************************************************************************)
(* Who may use the bot (services/subscription_access.py).                  *)
(*                                                                         *)
(* The decision reads the user's row, the related subscription row and the *)
(* number of signals the user has been issued since the trial started.     *)
(* The clock is abstracted away: a trial that has been started is either   *)
(* still open or over, and a bypass or a paid plan is either in force or   *)
(* not.                                                                    *)
(***************************************************************************)
EXTENDS Naturals

CONSTANT TrialLimit  \* TRIAL_SIGNAL_LIMIT

ASSUME TrialLimitAssumption == TrialLimit \in Nat \ {0}

\* The fields of a user's row that the decision reads.
AccessRow == [denied    : BOOLEAN,   \* subscription_access_denied
              bypass    : BOOLEAN,   \* subscription_bypass, not yet expired
              botBypass : BOOLEAN,   \* bot_bypass
              trial     : BOOLEAN]   \* trial_started_at is not null

\* What the decision reads elsewhere: the subscription row and the clock.
Surroundings == [paid      : BOOLEAN,   \* an active, unexpired, non-FREE plan
                 trialOver : BOOLEAN]   \* TRIAL_DURATION has elapsed

Granting == {"admin_bypass", "subscribed", "trial", "admin_bot_bypass"}
Refusing == {"admin_denied", "trial_not_started", "trial_limit_reached", "expired"}

\* subscription_status(user)["status"]: the first rule that applies wins.
SubscriptionStatus(row, env, used) ==
  CASE row.denied                              -> "admin_denied"
    [] ~row.denied /\ row.bypass               -> "admin_bypass"
    [] ~row.denied /\ ~row.bypass /\ env.paid  -> "subscribed"
    [] OTHER -> IF ~row.trial         THEN "trial_not_started"
                ELSE IF env.trialOver THEN "expired"
                ELSE IF used < TrialLimit THEN "trial"
                ELSE "trial_limit_reached"

\* Mutant: the bot bypass helps a user who has been denied, too.
BotAccessStatusOfDenied(row, env, used) ==
  LET status == SubscriptionStatus(row, env, used)
  IN  IF status \notin Granting /\ row.botBypass THEN "admin_bot_bypass" ELSE status

\* bot_access_status(user)["status"]: the bot bypass only helps a user whom
\* the subscription rules have refused for another reason than a denial.
BotAccessStatus(row, env, used) ==
  LET status == SubscriptionStatus(row, env, used)
  IN  IF /\ status \notin {"admin_denied"} \cup Granting
         /\ row.botBypass
      THEN "admin_bot_bypass"
      ELSE status

HasAccess(status) == status \in Granting
=============================================================================
