------------------------------ MODULE UserRow ------------------------------
(***************************************************************************)
(* The columns of a user's row that give access, and everybody who writes  *)
(* them: views that save the whole row, the form of the admin site, the    *)
(* administrator's endpoint and the activation of the trial, which save    *)
(* single columns.  (views.py, admin.py, api_views.py)                     *)
(*                                                                         *)
(* Each request loads the row when it begins and saves what it made of its *)
(* copy when it ends.  Trials are numbered in the order in which they      *)
(* start, months are counted; 0 is NULL.                                   *)
(***************************************************************************)
EXTENDS Naturals

CONSTANTS
  Workers,    \* threads of the web server
  MaxTrials,  \* bound: trials started in a behaviour
  MaxMonth    \* bound: the last month that a bypass can end in

ASSUME UserRowAssumption == MaxTrials \in Nat /\ MaxMonth \in Nat \ {0}

VARIABLES
  row,     \* the committed row
  job,     \* job[w]: what thread w is doing
  trials,  \* number of trials started so far
  now      \* the month

vars == <<row, job, trials, now>>

Row == [trial  : 0..MaxTrials,     \* trial_started_at
        denied : BOOLEAN,          \* subscription_access_denied
        bypass : BOOLEAN,          \* subscription_bypass
        until  : 0..MaxMonth]      \* subscription_bypass_expires_at

NewUser == [trial |-> 0, denied |-> FALSE, bypass |-> FALSE, until |-> 0]

\* What a request of the administrator asks for; a form sends every checkbox.
Asked   == [month : BOOLEAN, bypass : {"on", "off", "keep"}, denied : {"on", "off", "keep"}]
Nothing == [month |-> FALSE, bypass |-> "keep", denied |-> "keep"]

PCs     == {"free", "whole", "form", "activate", "admin"}
Job     == [pc : PCs, copy : Row, asked : Asked]
FreeJob == [pc |-> "free", copy |-> NewUser, asked |-> Nothing]

Set(value, asked) == IF asked = "keep" THEN value ELSE asked = "on"

-----------------------------------------------------------------------------
(* Requests *)

Begin(w, pc, asked) ==
  /\ job[w].pc = "free"
  /\ job' = [job EXCEPT ![w] = [pc |-> pc, copy |-> row, asked |-> asked]]
  /\ UNCHANGED <<row, trials, now>>

\* Profile, picture, second factor and new password: save() without
\* update_fields.
BeginWhole(w) == Begin(w, "whole", Nothing)

BeginActivate(w) == Begin(w, "activate", Nothing)

\* The endpoint takes any of its fields, but not none.
BeginAdmin(w, asked) == asked # Nothing /\ Begin(w, "admin", asked)

\* The page has a checkbox for each flag and sends them all.
BeginForm(w, asked) ==
  /\ ~ asked.month /\ asked.bypass # "keep" /\ asked.denied # "keep"
  /\ Begin(w, "form", asked)

End(w, pc) ==
  /\ job[w].pc = pc
  /\ job' = [job EXCEPT ![w] = FreeJob]
  /\ UNCHANGED now

SaveWhole(w) ==
  /\ End(w, "whole")
  /\ row' = job[w].copy
  /\ UNCHANGED trials

SaveForm(w) ==
  /\ End(w, "form")
  /\ row' = [job[w].copy EXCEPT !.denied = Set(@, job[w].asked.denied),
                                !.bypass = Set(@, job[w].asked.bypass)]
  /\ UNCHANGED trials

\* Mutant: the trial starts again.
SaveActivateAgain(w) ==
  /\ End(w, "activate")
  /\ trials < MaxTrials
  /\ trials' = trials + 1
  /\ row' = [row EXCEPT !.trial = trials + 1]

\* activate_free_trial_view: only when the copy has no trial.
SaveActivate(w) ==
  /\ End(w, "activate")
  /\ IF job[w].copy.trial = 0
     THEN /\ trials < MaxTrials
          /\ trials' = trials + 1
          /\ row' = [row EXCEPT !.trial = trials + 1]
     ELSE UNCHANGED <<row, trials>>

\* The end of one more month, after the one that the copy has.
Later(until) == (IF until > now THEN until ELSE now) + 1

\* Mutant: a bypass that is switched on gets no end.
NewUntilUnlimited(asked, copy, until) ==
  IF asked.month THEN Later(copy.until)
  ELSE IF asked.bypass = "off" THEN 0
  ELSE until

\* What becomes of the end of the bypass: the first rule that applies.
NewUntil(asked, copy, until) ==
  IF asked.month THEN Later(copy.until)
  ELSE IF asked.bypass = "on" /\ ~ copy.bypass THEN now + 1
  ELSE IF asked.bypass = "off" THEN 0
  ELSE until

\* Mutant: the endpoint saves the whole copy.
SaveAdminWhole(w) ==
  LET asked == job[w].asked
      copy  == job[w].copy
      until == NewUntil(asked, copy, copy.until) IN
  /\ End(w, "admin")
  /\ until <= MaxMonth
  /\ row' = [copy EXCEPT !.denied = Set(@, asked.denied),
                         !.bypass = asked.month \/ Set(@, asked.bypass),
                         !.until  = until]
  /\ UNCHANGED trials

\* admin_user_access_view saves the columns asked for, with an end that it
\* works out on its copy.
SaveAdmin(w) ==
  LET asked == job[w].asked
      until == NewUntil(asked, job[w].copy, row.until) IN
  /\ End(w, "admin")
  /\ until <= MaxMonth
  /\ row' = [row EXCEPT !.denied = Set(@, asked.denied),
                        !.bypass = asked.month \/ Set(@, asked.bypass),
                        !.until  = until]
  /\ UNCHANGED trials

MonthPasses ==
  /\ now + 1 < MaxMonth
  /\ now' = now + 1
  /\ UNCHANGED <<row, job, trials>>

-----------------------------------------------------------------------------

Init ==
  /\ row = NewUser
  /\ job = [w \in Workers |-> FreeJob]
  /\ trials = 0
  /\ now = 1

Request(w) ==
  \/ BeginWhole(w) \/ BeginActivate(w)
  \/ \E asked \in Asked : BeginAdmin(w, asked) \/ BeginForm(w, asked)

Save(w) == SaveWhole(w) \/ SaveForm(w) \/ SaveActivate(w) \/ SaveAdmin(w)

Next == (\E w \in Workers : Request(w) \/ Save(w)) \/ MonthPasses

Spec == Init /\ [][Next]_vars

-----------------------------------------------------------------------------
(* Properties *)

TypeOK ==
  /\ row \in Row
  /\ job \in [Workers -> Job]
  /\ trials \in 0..MaxTrials
  /\ now \in 1..MaxMonth

\* A trial is settled when every request under way has seen it ...
TrialSettled(n) ==
  row.trial = n /\ \A w \in Workers : job[w].pc # "free" => job[w].copy.trial = n

\* ... and then it stays, whatever anybody saves later: only a request that began
\* before the trial can take it back. (activate_free_trial_view, whole-row saves)
TrialSettles ==
  [][\A n \in 1..MaxTrials : TrialSettled(n) => TrialSettled(n)']_vars

\* Somebody asks to end the denial.
Allows(w) == job[w].pc \in {"admin", "form"} /\ job[w].asked.denied = "off"

DenialSettled ==
  row.denied /\ \A w \in Workers : job[w].pc = "whole" => job[w].copy.denied

\* Once every whole-row save under way has seen the denial of a user, only the
\* administrator ends it. (admin_user_access_view, CustomUserAdmin)
DenialSettles ==
  [][DenialSettled => DenialSettled' \/ \E w \in Workers : Allows(w)]_vars

Unlimited == row.bypass /\ row.until = 0

\* The endpoint gives no bypass without an end by itself: one comes from the
\* form, from a request under way when there was one, or from a request whose
\* copy of the bypass was outdated. (admin_user_access_view)
BypassEnds ==
  [][Unlimited' /\ ~ Unlimited =>
       \E w \in Workers :
          /\ job[w].pc # "free" /\ job'[w].pc = "free"
          /\ \/ job[w].pc = "form"
             \/ job[w].copy.bypass # row.bypass \/ job[w].copy.until # row.until]_vars

=============================================================================
