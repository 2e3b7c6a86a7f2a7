---------------------------- MODULE AccountProofs ----------------------------
(***************************************************************************)
(* Theorems on the two ways to the bot that are decided by a row: the      *)
(* columns of the user (UserRow) and the payments (Payments).              *)
(***************************************************************************)
EXTENDS UserRow, Payments, SequenceTheorems, FiniteSetTheorems, TLAPS

(* The end of a bypass is a month.                                         *)
LEMMA NewUntilType ==
  ASSUME TypeOK, NEW asked \in Asked, NEW copy \in Row
  PROVE  NewUntil(asked, copy, row.until) \in Nat
BY UserRowAssumption DEF TypeOK, Row, Asked, NewUntil, Later

(* Every variable keeps its type. (the columns of models.User, and the     *)
(* values the views write to them)                                         *)
THEOREM TypeCorrect == Spec => []TypeOK
<1>1. Init => TypeOK
  BY UserRowAssumption DEF Init, TypeOK, NewUser, FreeJob, Nothing, Job, PCs, Row, Asked
<1>2. TypeOK /\ [Next]_vars => TypeOK'
  <2>. SUFFICES ASSUME TypeOK, [Next]_vars PROVE TypeOK'
    OBVIOUS
  <2>1. ASSUME NEW w \in Workers, NEW pc \in PCs, NEW asked \in Asked, Begin(w, pc, asked)
        PROVE  TypeOK'
    BY <2>1 DEF TypeOK, Begin, Job
  <2>2. Nothing \in Asked
    BY DEF Nothing, Asked
  <2>3. ASSUME NEW w \in Workers, Request(w) PROVE TypeOK'
    BY <2>1, <2>2, <2>3 DEF Request, BeginWhole, BeginActivate, BeginAdmin, BeginForm, PCs
  <2>4. ASSUME NEW w \in Workers, NEW pc, End(w, pc), row' \in Row, trials' \in 0..MaxTrials
        PROVE  TypeOK'
    <3>1. FreeJob \in Job
      BY UserRowAssumption DEF FreeJob, Job, NewUser, Nothing, Row, Asked, PCs
    <3>. QED BY <2>4, <3>1 DEF TypeOK, End
  <2>5. ASSUME NEW w \in Workers PROVE job[w] \in Job /\ job[w].copy \in Row /\ job[w].asked \in Asked
    BY DEF TypeOK, Job
  <2>6. ASSUME NEW w \in Workers, SaveWhole(w) PROVE TypeOK'
    BY <2>4, <2>5, <2>6 DEF SaveWhole, TypeOK
  <2>7. ASSUME NEW w \in Workers, SaveForm(w) PROVE TypeOK'
    BY <2>4, <2>5, <2>7 DEF SaveForm, TypeOK, Row, Set
  <2>8. ASSUME NEW w \in Workers, SaveActivate(w) PROVE TypeOK'
    <3>1. row \in Row /\ trials \in 0..MaxTrials
      BY DEF TypeOK
    <3>2. CASE job[w].copy.trial = 0
      BY <2>4, <2>8, <3>1, <3>2, UserRowAssumption DEF SaveActivate, Row
    <3>3. CASE job[w].copy.trial # 0
      BY <2>4, <2>8, <3>1, <3>3 DEF SaveActivate
    <3>. QED BY <3>2, <3>3
  <2>9. ASSUME NEW w \in Workers, SaveAdmin(w) PROVE TypeOK'
    <3>. DEFINE until == NewUntil(job[w].asked, job[w].copy, row.until)
    <3>1. until \in 0..MaxMonth
      BY <2>5, <2>9, NewUntilType, UserRowAssumption DEF SaveAdmin
    <3>2. row' \in Row
      <4>1. row \in Row /\ job[w].asked.month \in BOOLEAN
        BY <2>5 DEF TypeOK, Asked
      <4>2. Set(row.denied, job[w].asked.denied) \in BOOLEAN /\ Set(row.bypass, job[w].asked.bypass) \in BOOLEAN
        BY <4>1 DEF Set, Row
      <4>. HIDE DEF until
      <4>3. row' = [row EXCEPT !.denied = Set(@, job[w].asked.denied),
                               !.bypass = job[w].asked.month \/ Set(@, job[w].asked.bypass),
                               !.until  = until]
        BY <2>9 DEF SaveAdmin, until
      <4>. QED BY <3>1, <4>1, <4>2, <4>3 DEF Row
    <3>. QED BY <2>4, <2>9, <3>2 DEF SaveAdmin, TypeOK
  <2>10. CASE MonthPasses
    BY <2>10, UserRowAssumption DEF MonthPasses, TypeOK
  <2>11. CASE UNCHANGED vars
    BY <2>11 DEF vars, TypeOK
  <2>. QED BY <2>3, <2>6, <2>7, <2>8, <2>9, <2>10, <2>11 DEF Next, Save
<1>. QED BY <1>1, <1>2, PTL DEF Spec

(* What a settled trial needs of a step: nobody's copy loses it.           *)
LEMMA TrialKept ==
  ASSUME TypeOK, [Next]_vars, NEW n \in 1..MaxTrials, TrialSettled(n)
  PROVE  TrialSettled(n)'
<1>. USE DEF TrialSettled
<1>1. n # 0
  BY UserRowAssumption
<1>2. ASSUME NEW w \in Workers, NEW pc, NEW asked, Begin(w, pc, asked) PROVE TrialSettled(n)'
  BY <1>2 DEF Begin, TypeOK
<1>3. ASSUME NEW w \in Workers, NEW pc, End(w, pc), row'.trial = n PROVE TrialSettled(n)'
  <2>1. \A v \in Workers : job'[v] = IF v = w THEN FreeJob ELSE job[v]
    BY <1>3 DEF End, TypeOK
  <2>. QED BY <1>3, <2>1 DEF FreeJob
<1>4. ASSUME NEW w \in Workers, Request(w) PROVE TrialSettled(n)'
  BY <1>2, <1>4 DEF Request, BeginWhole, BeginActivate, BeginAdmin, BeginForm
<1>5. ASSUME NEW w \in Workers PROVE job[w].copy \in Row /\ row \in Row
  BY DEF TypeOK, Job
<1>6. ASSUME NEW w \in Workers, SaveWhole(w) PROVE TrialSettled(n)'
  BY <1>3, <1>6 DEF SaveWhole, End
<1>7. ASSUME NEW w \in Workers, SaveForm(w) PROVE TrialSettled(n)'
  <2>1. row'.trial = job[w].copy.trial
    BY <1>5, <1>7 DEF SaveForm, Row
  <2>. QED BY <1>3, <1>7, <2>1 DEF SaveForm, End
<1>8. ASSUME NEW w \in Workers, SaveActivate(w) PROVE TrialSettled(n)'
  BY <1>1, <1>3, <1>8 DEF SaveActivate, End
<1>9. ASSUME NEW w \in Workers, SaveAdmin(w) PROVE TrialSettled(n)'
  <2>1. row'.trial = row.trial
    BY <1>5, <1>9 DEF SaveAdmin, Row
  <2>. QED BY <1>3, <1>9, <2>1 DEF SaveAdmin
<1>10. CASE MonthPasses \/ UNCHANGED vars
  BY <1>10 DEF MonthPasses, vars
<1>. QED BY <1>4, <1>6, <1>7, <1>8, <1>9, <1>10 DEF Next, Save

(* A trial that every request under way has seen is neither forgotten nor  *)
(* started again. (activate_free_trial_view against the whole-row saves)   *)
THEOREM SettledTrialStays == Spec => TrialSettles
<1>1. TypeOK /\ [Next]_vars => [\A n \in 1..MaxTrials : TrialSettled(n) => TrialSettled(n)']_vars
  BY TrialKept
<1>. QED BY <1>1, TypeCorrect, PTL DEF Spec, TrialSettles

(* A form under way says what becomes of the denial.                       *)
FormsComplete == \A w \in Workers : job[w].pc = "form" => job[w].asked.denied # "keep"

LEMMA FormsStayComplete ==
  ASSUME TypeOK, FormsComplete, [Next]_vars
  PROVE  FormsComplete'
<1>. USE DEF FormsComplete
<1>1. ASSUME NEW w \in Workers, NEW pc, NEW asked, Begin(w, pc, asked),
             pc = "form" => asked.denied # "keep"
      PROVE  FormsComplete'
  <2>1. \A v \in Workers : job'[v] = IF v = w THEN [pc |-> pc, copy |-> row, asked |-> asked] ELSE job[v]
    BY <1>1 DEF Begin, TypeOK
  <2>. QED BY <1>1, <2>1
<1>2. ASSUME NEW w \in Workers, NEW pc, End(w, pc) PROVE FormsComplete'
  <2>1. \A v \in Workers : job'[v] = IF v = w THEN FreeJob ELSE job[v]
    BY <1>2 DEF End, TypeOK
  <2>. QED BY <2>1 DEF FreeJob
<1>3. ASSUME NEW w \in Workers, Request(w) PROVE FormsComplete'
  BY <1>1, <1>3 DEF Request, BeginWhole, BeginActivate, BeginAdmin, BeginForm
<1>4. ASSUME NEW w \in Workers, Save(w) PROVE FormsComplete'
  BY <1>2, <1>4 DEF Save, SaveWhole, SaveForm, SaveActivate, SaveAdmin
<1>5. CASE MonthPasses \/ UNCHANGED vars
  BY <1>5 DEF MonthPasses, vars
<1>. QED BY <1>3, <1>4, <1>5 DEF Next

(* The same of a denial, unless the administrator asks to end it.          *)
LEMMA DenialKept ==
  ASSUME TypeOK, FormsComplete, [Next]_vars, DenialSettled, ~ \E w \in Workers : Allows(w)
  PROVE  DenialSettled'
<1>. USE DEF DenialSettled
<1>1. ASSUME NEW w \in Workers, NEW pc, NEW asked, Begin(w, pc, asked) PROVE DenialSettled'
  <2>1. \A v \in Workers : job'[v] = IF v = w THEN [pc |-> pc, copy |-> row, asked |-> asked] ELSE job[v]
    BY <1>1 DEF Begin, TypeOK
  <2>. QED BY <1>1, <2>1 DEF Begin
<1>2. ASSUME NEW w \in Workers, NEW pc, End(w, pc), row'.denied PROVE DenialSettled'
  <2>1. \A v \in Workers : job'[v] = IF v = w THEN FreeJob ELSE job[v]
    BY <1>2 DEF End, TypeOK
  <2>. QED BY <1>2, <2>1 DEF FreeJob
<1>3. ASSUME NEW w \in Workers, Request(w) PROVE DenialSettled'
  BY <1>1, <1>3 DEF Request, BeginWhole, BeginActivate, BeginAdmin, BeginForm
<1>4. ASSUME NEW w \in Workers PROVE job[w].copy \in Row /\ row \in Row /\ job[w].asked \in Asked
  BY DEF TypeOK, Job
<1>5. ASSUME NEW w \in Workers, SaveWhole(w) PROVE DenialSettled'
  BY <1>2, <1>5 DEF SaveWhole, End
<1>6. ASSUME NEW w \in Workers, SaveActivate(w) PROVE DenialSettled'
  <2>1. row'.denied = row.denied
    BY <1>4, <1>6 DEF SaveActivate, Row
  <2>. QED BY <1>2, <1>6, <2>1 DEF SaveActivate
<1>7. ASSUME NEW w \in Workers, SaveAdmin(w) PROVE DenialSettled'
  <2>1. job[w].asked.denied # "off"
    BY <1>7 DEF SaveAdmin, End, Allows
  <2>2. row'.denied = Set(row.denied, job[w].asked.denied)
    BY <1>4, <1>7 DEF SaveAdmin, Row
  <2>3. Set(row.denied, job[w].asked.denied)
    BY <2>1, <1>4 DEF Set, Asked
  <2>. QED BY <1>2, <1>7, <2>2, <2>3 DEF SaveAdmin
<1>8. ASSUME NEW w \in Workers, SaveForm(w) PROVE DenialSettled'
  <2>1. job[w].asked.denied = "on"
    BY <1>4, <1>8 DEF SaveForm, End, Allows, FormsComplete, Asked
  <2>2. row'.denied = Set(job[w].copy.denied, job[w].asked.denied)
    BY <1>4, <1>8 DEF SaveForm, Row
  <2>. QED BY <1>2, <1>8, <2>1, <2>2 DEF SaveForm, Set
<1>9. CASE MonthPasses \/ UNCHANGED vars
  BY <1>9 DEF MonthPasses, vars
<1>. QED BY <1>3, <1>5, <1>6, <1>7, <1>8, <1>9 DEF Next, Save

(* Once every whole-row save under way has seen the denial of a user, only *)
(* the administrator ends it. (admin_user_access_view, CustomUserAdmin)    *)
THEOREM SettledDenialStays == Spec => DenialSettles
<1>1. Init => FormsComplete
  BY DEF Init, FormsComplete, FreeJob
<1>2. TypeOK /\ FormsComplete /\ [Next]_vars => FormsComplete'
  BY FormsStayComplete
<1>3. TypeOK /\ FormsComplete /\ [Next]_vars
        => [DenialSettled => DenialSettled' \/ \E w \in Workers : Allows(w)]_vars
  BY DenialKept
<1>. QED BY <1>1, <1>2, <1>3, TypeCorrect, PTL DEF Spec, DenialSettles

(* A bypass that becomes one without an end: what the request had loaded.  *)
LEMMA BypassKeepsEnd ==
  ASSUME TypeOK, Unlimited', ~ Unlimited, NEW w \in Workers, Save(w)
  PROVE  /\ job[w].pc # "free" /\ job'[w].pc = "free"
         /\ \/ job[w].pc = "form"
            \/ job[w].copy.bypass # row.bypass \/ job[w].copy.until # row.until
<1>. /\ row \in Row /\ job[w].copy \in Row /\ job[w].asked \in Asked
     /\ now \in Nat /\ now >= 1
  BY UserRowAssumption DEF TypeOK, Job
<1>1. ASSUME NEW pc, End(w, pc) PROVE job[w].pc = pc /\ job'[w].pc = "free"
  BY <1>1 DEF End, FreeJob, TypeOK
<1>2. CASE SaveWhole(w)
  BY <1>1, <1>2 DEF SaveWhole, Unlimited
<1>3. CASE SaveForm(w)
  BY <1>1, <1>3 DEF SaveForm
<1>4. CASE SaveActivate(w)
  <2>1. row'.bypass = row.bypass /\ row'.until = row.until
    BY <1>4 DEF SaveActivate, Row
  <2>. QED
    BY <2>1 DEF Unlimited
<1>5. CASE SaveAdmin(w)
  <2>. DEFINE asked == job[w].asked
              until == NewUntil(asked, job[w].copy, row.until)
  <2>1. row'.bypass = (asked.month \/ Set(row.bypass, asked.bypass)) /\ row'.until = until
    <3>1. row' = [row EXCEPT !.denied = Set(@, asked.denied),
                             !.bypass = asked.month \/ Set(@, asked.bypass),
                             !.until  = until]
      BY <1>5 DEF SaveAdmin
    <3>. HIDE DEF until
    <3>. QED
      BY <3>1 DEF Row
  <2>2. Later(job[w].copy.until) # 0 /\ now + 1 # 0
    BY UserRowAssumption DEF Later, Row
  <2>3. ~ asked.month /\ ~ (asked.bypass = "on" /\ ~ job[w].copy.bypass) /\ asked.bypass # "off"
    BY <2>1, <2>2 DEF NewUntil, Unlimited, Set
  <2>4. until = row.until
    BY <2>3 DEF NewUntil
  <2>5. asked.bypass = "on" /\ ~ row.bypass /\ job[w].copy.bypass
    BY <2>1, <2>3, <2>4 DEF Unlimited, Set, Asked
  <2>6. job[w].copy.bypass # row.bypass
    BY <2>5
  <2>7. End(w, "admin")
    BY <1>5 DEF SaveAdmin
  <2>. QED
    BY <1>1, <2>6, <2>7
<1>. QED
  BY <1>2, <1>3, <1>4, <1>5 DEF Save

(* The endpoint gives no bypass without an end by itself: one comes from   *)
(* the form or from a request whose copy of the bypass was outdated.       *)
(* (admin_user_access_view)                                                *)
THEOREM BypassesEnd == Spec => BypassEnds
<1>. DEFINE Cause == \E w \in Workers :
                        /\ job[w].pc # "free" /\ job'[w].pc = "free"
                        /\ \/ job[w].pc = "form"
                           \/ job[w].copy.bypass # row.bypass \/ job[w].copy.until # row.until
<1>1. TypeOK /\ [Next]_vars => [Unlimited' /\ ~ Unlimited => Cause]_vars
  <2>. SUFFICES ASSUME TypeOK, [Next]_vars, Unlimited', ~ Unlimited PROVE Cause
    OBVIOUS
  <2>1. row' # row
    BY DEF Unlimited
  <2>2. PICK w \in Workers : Save(w)
    BY <2>1 DEF Next, vars, MonthPasses, Request, BeginWhole, BeginActivate, BeginAdmin, BeginForm, Begin
  <2>. QED
    BY <2>2, BypassKeepsEnd
<1>. QED
  BY <1>1, TypeCorrect, PTL DEF Spec, BypassEnds

-----------------------------------------------------------------------------
(* Payments: types                                                         *)

\* What PayTypeOK needs besides: a form is that of a row, and no row has been
\* paid for more often than the plan was renewed.
RowsExist ==
  /\ Len(payments) <= MaxPayments
  /\ \A a \in Approvers : desk[a].pc = "save" => desk[a] \in Form /\ desk[a].id \in Ids
  /\ \A w \in Payers : checkout[w].pc = "create" => checkout[w] \in Checkout
  /\ \A i \in Ids : payments[i].granted <= plan

LEMMA IdsAreNumbers ==
  ASSUME PayTypeOK
  PROVE  /\ Ids = 1..Len(payments) /\ Len(payments) \in Nat
         /\ \A i \in Ids : payments[i] \in Payment
  BY DEF PayTypeOK, Ids

(* The row that a form saves.                                              *)
LEMMA SavedRow ==
  ASSUME PayTypeOK, RowsExist, NEW a \in Approvers, desk[a].pc = "save",
         NEW approved \in BOOLEAN, approved => plan < MaxGrants
  PROVE  LET p == payments[desk[a].id]
             q == Saved(a, approved)
         IN  /\ q \in Payment
             /\ q.ref = p.ref /\ q.spelling = p.spelling /\ q.status = desk[a].status
             /\ q.granted = IF approved THEN p.granted + 1 ELSE p.granted
             /\ q.again = IF (approved /\ Beside(a)) \/ (p.status = "SUCCESS" /\ desk[a].status # "SUCCESS")
                          THEN AtMost(p.again + 1) ELSE p.again
<1>. DEFINE p == payments[desk[a].id]
            g == IF approved THEN p.granted + 1 ELSE p.granted
            n == IF (approved /\ Beside(a)) \/ (p.status = "SUCCESS" /\ desk[a].status # "SUCCESS")
                 THEN AtMost(p.again + 1) ELSE p.again
<1>1. p \in Payment /\ desk[a].status \in Status /\ p.granted <= plan
  BY IdsAreNumbers DEF RowsExist, Form
<1>2. g \in 0..MaxGrants
  BY <1>1, PaymentsAssumption DEF Payment, PayTypeOK
<1>3. n \in 0..MaxGrants
  BY <1>1, PaymentsAssumption DEF Payment, AtMost
<1>4. Saved(a, approved) = [p EXCEPT !.status = desk[a].status, !.granted = g, !.again = n]
  BY <1>1 DEF Saved, Payment
<1>. HIDE DEF p, g, n
<1>5. Saved(a, approved) \in Payment
  BY <1>1, <1>2, <1>3, <1>4 DEF Payment
<1>6. LET q == Saved(a, approved)
      IN  q.ref = p.ref /\ q.spelling = p.spelling /\ q.status = desk[a].status /\ q.granted = g /\ q.again = n
  BY <1>1, <1>4 DEF Payment
<1>. QED
  BY <1>5, <1>6 DEF p, g, n

(* What saving a form does.                                                *)
LEMMA SaveEffect ==
  ASSUME PayTypeOK, RowsExist, NEW a \in Approvers, SaveModel(a)
  PROVE  /\ desk[a].pc = "save" /\ desk[a] \in Form /\ desk[a].id \in Ids
         /\ desk[a].approves => plan < MaxGrants
         /\ plan' = IF desk[a].approves THEN plan + 1 ELSE plan
         /\ payments' \in Seq(Payment) /\ Len(payments') = Len(payments)
         /\ payments'[desk[a].id] = Saved(a, desk[a].approves)
         /\ \A i \in Ids \ {desk[a].id} : payments'[i] = payments[i]
         /\ desk'[a] = NoForm
         /\ \A b \in Approvers \ {a} : desk'[b] = desk[b]
<1>1. desk[a].pc = "save" /\ desk[a] \in Form /\ desk[a].id \in Ids
  BY DEF SaveModel, RowsExist
<1>2. desk[a].approves \in BOOLEAN
  BY <1>1 DEF Form
<1>3. /\ desk[a].approves => plan < MaxGrants
      /\ plan' = IF desk[a].approves THEN plan + 1 ELSE plan
  BY DEF SaveModel, Renew
<1>4. Saved(a, desk[a].approves) \in Payment
  BY <1>1, <1>2, <1>3, SavedRow
<1>5. payments' = [payments EXCEPT ![desk[a].id] = Saved(a, desk[a].approves)]
  BY DEF SaveModel
<1>6. payments' \in Seq(Payment) /\ Len(payments') = Len(payments)
  BY <1>1, <1>4, <1>5, ExceptSeq, IdsAreNumbers DEF PayTypeOK
<1>7. /\ payments'[desk[a].id] = Saved(a, desk[a].approves)
      /\ \A i \in Ids \ {desk[a].id} : payments'[i] = payments[i]
  BY <1>1, <1>5 DEF Ids
<1>8. desk'[a] = NoForm /\ \A b \in Approvers \ {a} : desk'[b] = desk[b]
  BY DEF SaveModel, PayTypeOK
<1>. QED
  BY <1>1, <1>3, <1>6, <1>7, <1>8

(* What the insertion of a payment does.                                   *)
LEMMA CreateEffect ==
  ASSUME PayTypeOK, RowsExist, NEW w \in Payers, Create(w)
  PROVE  /\ checkout[w] \in Checkout /\ checkout' = [checkout EXCEPT ![w] = NoCheckout]
         /\ UNCHANGED <<desk, plan, revived>>
         /\ \/ UNCHANGED payments
            \/ /\ payments' \in Seq(Payment)
               /\ Len(payments') = Len(payments) + 1 /\ Len(payments') <= MaxPayments
               /\ Ids' = Ids \cup {Len(payments) + 1}
               /\ \A i \in Ids : payments'[i] = payments[i]
               /\ payments'[Len(payments) + 1] =
                    [ref |-> checkout[w].ref, spelling |-> checkout[w].spelling, status |-> "PENDING",
                     granted |-> 0, again |-> 0]
<1>. DEFINE new == [ref |-> checkout[w].ref, spelling |-> checkout[w].spelling, status |-> "PENDING",
                    granted |-> 0, again |-> 0]
<1>1. checkout[w] \in Checkout /\ checkout' = [checkout EXCEPT ![w] = NoCheckout]
      /\ UNCHANGED <<desk, plan, revived>>
  BY DEF Create, RowsExist
<1>2. new \in Payment
  BY <1>1, PaymentsAssumption DEF Checkout, Payment, Status
<1>. HIDE DEF new
<1>3. ASSUME payments' = Append(payments, new), Len(payments) < MaxPayments
      PROVE  /\ payments' \in Seq(Payment)
             /\ Len(payments') = Len(payments) + 1 /\ Len(payments') <= MaxPayments
             /\ Ids' = Ids \cup {Len(payments) + 1}
             /\ \A i \in Ids : payments'[i] = payments[i]
             /\ payments'[Len(payments) + 1] = new
  <2>1. payments \in Seq(Payment) /\ Ids = 1..Len(payments) /\ Len(payments) \in Nat
    BY IdsAreNumbers DEF PayTypeOK
  <2>2. /\ payments' \in Seq(Payment) /\ Len(payments') = Len(payments) + 1
        /\ \A i \in Ids : payments'[i] = payments[i]
        /\ payments'[Len(payments) + 1] = new
    BY <1>2, <1>3, <2>1, AppendProperties
  <2>3. Ids' = 1..(Len(payments) + 1)
    BY <2>2 DEF Ids
  <2>. QED
    BY <1>3, <2>1, <2>2, <2>3, PaymentsAssumption
<1>4. \/ UNCHANGED payments
      \/ payments' = Append(payments, new) /\ Len(payments) < MaxPayments
  BY DEF Create, new
<1>. QED
  BY <1>1, <1>3, <1>4 DEF new

LEMMA PayStepType ==
  ASSUME PayTypeOK, RowsExist, [PayNext]_payVars
  PROVE  PayTypeOK' /\ RowsExist'
<1>. /\ Ids = 1..Len(payments) /\ Len(payments) \in Nat
     /\ \A i \in Ids : payments[i] \in Payment
  BY IdsAreNumbers
<1>1. ASSUME NEW w \in Payers, NEW ref \in References, NEW spelling \in Spellings, Check(w, ref, spelling)
      PROVE  PayTypeOK' /\ RowsExist'
  <2>. DEFINE c == [pc |-> "create", ref |-> ref, spelling |-> spelling]
  <2>1. c \in Checkout
    BY DEF Checkout
  <2>2. checkout' = [checkout EXCEPT ![w] = c] /\ UNCHANGED <<payments, desk, plan, revived>>
    BY <1>1 DEF Check
  <2>. HIDE DEF c
  <2>3. PayTypeOK'
    BY <2>1, <2>2 DEF PayTypeOK
  <2>4. RowsExist'
    BY <2>1, <2>2 DEF RowsExist, Ids, PayTypeOK
  <2>. QED
    BY <2>3, <2>4
<1>2. ASSUME NEW w \in Payers, Create(w) PROVE PayTypeOK' /\ RowsExist'
  <2>. /\ checkout[w] \in Checkout /\ checkout' = [checkout EXCEPT ![w] = NoCheckout]
       /\ UNCHANGED <<desk, plan, revived>>
    BY <1>2, CreateEffect
  <2>1. \A v \in Payers : checkout'[v].pc = "create" => checkout'[v] \in Checkout
    BY DEF PayTypeOK, RowsExist, NoCheckout
  <2>2. CASE UNCHANGED payments
    BY <2>1, <2>2 DEF PayTypeOK, RowsExist, Ids
  <2>3. CASE ~ UNCHANGED payments
    <3>1. /\ payments' \in Seq(Payment) /\ Len(payments') <= MaxPayments
          /\ Ids' = Ids \cup {Len(payments) + 1}
          /\ \A i \in Ids : payments'[i] = payments[i]
          /\ payments'[Len(payments) + 1] =
               [ref |-> checkout[w].ref, spelling |-> checkout[w].spelling, status |-> "PENDING",
                granted |-> 0, again |-> 0]
      BY <1>2, <2>3, CreateEffect
    <3>2. PayTypeOK'
      BY <3>1 DEF PayTypeOK
    <3>3. \A i \in Ids' : payments'[i].granted <= plan'
      <4>1. payments'[Len(payments) + 1].granted = 0 /\ plan \in Nat
        BY <3>1, PaymentsAssumption DEF PayTypeOK
      <4>. QED
        BY <3>1, <4>1 DEF RowsExist
    <3>4. \A a \in Approvers : desk'[a].pc = "save" => desk'[a] \in Form /\ desk'[a].id \in Ids'
      BY <3>1 DEF RowsExist
    <3>. QED
      BY <2>1, <3>1, <3>2, <3>3, <3>4 DEF RowsExist
  <2>. QED
    BY <2>2, <2>3
<1>3. ASSUME NEW a \in Approvers, NEW i \in Ids, NEW status \in Status, SendForm(a, i, status)
      PROVE  PayTypeOK' /\ RowsExist'
  <2>. DEFINE f == [pc |-> "save", id |-> i, status |-> status,
                    approves |-> Approves(payments[i].status, status)]
  <2>1. f \in Form /\ f.id = i
    BY PaymentsAssumption DEF Form, Approves, RowsExist
  <2>2. desk' = [desk EXCEPT ![a] = f] /\ UNCHANGED <<payments, checkout, plan, revived>>
    BY <1>3 DEF SendForm
  <2>. HIDE DEF f
  <2>3. PayTypeOK'
    BY <2>1, <2>2 DEF PayTypeOK
  <2>4. RowsExist'
    BY <2>1, <2>2 DEF RowsExist, Ids, PayTypeOK
  <2>. QED
    BY <2>3, <2>4
<1>4. ASSUME NEW a \in Approvers, SaveModel(a) PROVE PayTypeOK' /\ RowsExist'
  <2>. DEFINE approved == desk[a].approves
  <2>1. /\ desk[a].pc = "save" /\ desk[a] \in Form /\ desk[a].id \in Ids
        /\ approved => plan < MaxGrants
        /\ plan' = IF approved THEN plan + 1 ELSE plan
        /\ payments' \in Seq(Payment) /\ Len(payments') = Len(payments)
        /\ payments'[desk[a].id] = Saved(a, approved)
        /\ \A i \in Ids \ {desk[a].id} : payments'[i] = payments[i]
        /\ desk'[a] = NoForm
        /\ \A b \in Approvers \ {a} : desk'[b] = desk[b]
    BY <1>4, SaveEffect
  <2>2. approved \in BOOLEAN
    BY <2>1 DEF Form
  <2>3. Ids' = Ids
    BY <2>1 DEF Ids
  <2>4. plan' \in 0..MaxGrants /\ plan <= plan' /\ plan \in Nat /\ plan' \in Nat
    BY <2>1, <2>2, PaymentsAssumption DEF PayTypeOK
  <2>5. PayTypeOK'
    BY <1>4, <2>1, <2>4 DEF PayTypeOK, SaveModel
  <2>6. \A i \in Ids : payments'[i].granted <= plan'
    <3>1. payments'[desk[a].id].granted <= plan'
      <4>1. payments[desk[a].id].granted <= plan /\ payments[desk[a].id].granted \in Nat
        BY <2>1, PaymentsAssumption DEF RowsExist, Payment
      <4>2. payments'[desk[a].id].granted = IF approved THEN payments[desk[a].id].granted + 1
                                                        ELSE payments[desk[a].id].granted
        BY <2>1, <2>2, SavedRow
      <4>. QED
        BY <2>1, <2>4, <4>1, <4>2
    <3>2. ASSUME NEW i \in Ids \ {desk[a].id} PROVE payments'[i].granted <= plan'
      <4>1. payments[i].granted <= plan /\ payments[i].granted \in Nat
        BY PaymentsAssumption DEF RowsExist, Payment
      <4>. QED
        BY <2>1, <2>4, <4>1
    <3>. QED
      BY <3>1, <3>2
  <2>7. RowsExist'
    BY <1>4, <2>1, <2>3, <2>6 DEF RowsExist, NoForm, SaveModel
  <2>. QED
    BY <2>5, <2>7
<1>5. CASE UNCHANGED payVars
  BY <1>5 DEF payVars, PayTypeOK, RowsExist, Ids
<1>. QED
  BY <1>1, <1>2, <1>3, <1>4, <1>5 DEF PayNext

LEMMA PayInitType == PayInit => PayTypeOK /\ RowsExist
<1>. SUFFICES ASSUME PayInit PROVE PayTypeOK /\ RowsExist
  OBVIOUS
<1>1. payments \in Seq(Payment) /\ Len(payments) = 0 /\ Ids = {}
  BY EmptySeq DEF PayInit, Ids
<1>2. PayTypeOK
  <2>1. checkout \in [Payers -> Checkout \cup {NoCheckout}] /\ desk \in [Approvers -> Form \cup {NoForm}]
    BY DEF PayInit
  <2>2. plan \in 0..MaxGrants
    BY PaymentsAssumption DEF PayInit
  <2>3. revived \in BOOLEAN
    BY DEF PayInit
  <2>. QED
    BY <1>1, <2>1, <2>2, <2>3 DEF PayTypeOK
<1>3. RowsExist
  BY <1>1, PaymentsAssumption DEF PayInit, RowsExist, NoCheckout, NoForm
<1>. QED
  BY <1>2, <1>3

(* Payments keep their types, and rows are what forms and renewals refer   *)
(* to. (PaymentTransaction)                                                *)
THEOREM PaymentTypesCorrect == PaySpec => [](PayTypeOK /\ RowsExist)
  BY PayInitType, PayStepType, PTL DEF PaySpec

-----------------------------------------------------------------------------
(* Payments: paid once                                                     *)

\* A payment that is not successful, or that somebody is about to approve, has
\* used up what it was taken back for.
Settled(i) == payments[i].granted <= payments[i].again

PaidInv ==
  /\ \A i \in Ids :
       /\ payments[i].granted <= 1 + payments[i].again
       /\ payments[i].status # "SUCCESS" => Settled(i)
       /\ \A a \in Approvers : desk[a].pc = "save" /\ desk[a].id = i /\ desk[a].approves => Settled(i)
  /\ \A a \in Approvers : desk[a].pc = "save" /\ desk[a].approves => desk[a].status = "SUCCESS"

LEMMA AtMostNext ==
  ASSUME NEW g \in 0..MaxGrants, NEW n \in 0..MaxGrants
  PROVE  /\ AtMost(n + 1) \in 0..MaxGrants /\ n <= AtMost(n + 1)
         /\ g <= 1 + n => g <= AtMost(n + 1)
  BY PaymentsAssumption DEF AtMost

(* The row that is saved.                                                  *)
LEMMA SavedIsPaidOnce ==
  ASSUME PayTypeOK, RowsExist, PaidInv, NEW a \in Approvers, SaveModel(a)
  PROVE  LET i == desk[a].id
             q == payments'[i]
         IN  /\ q.granted <= 1 + q.again
             /\ q.status # "SUCCESS" => q.granted <= q.again
             /\ \A b \in Approvers \ {a} :
                  desk[b].pc = "save" /\ desk[b].id = i /\ desk[b].approves => q.granted <= q.again
<1>. DEFINE i == desk[a].id
            p == payments[i]
            q == payments'[i]
            approved == desk[a].approves
            more == (approved /\ Beside(a)) \/ (p.status = "SUCCESS" /\ desk[a].status # "SUCCESS")
<1>1. /\ desk[a].pc = "save" /\ desk[a] \in Form /\ i \in Ids
      /\ approved => plan < MaxGrants
      /\ q = Saved(a, approved)
  BY SaveEffect
<1>2. approved \in BOOLEAN /\ p \in Payment
  BY <1>1, IdsAreNumbers DEF Form
<1>3. /\ q \in Payment /\ q.status = desk[a].status
      /\ q.granted = IF approved THEN p.granted + 1 ELSE p.granted
      /\ q.again = IF more THEN AtMost(p.again + 1) ELSE p.again
  BY <1>1, <1>2, SavedRow
<1>4. p.granted \in 0..MaxGrants /\ p.again \in 0..MaxGrants /\ q.granted \in 0..MaxGrants
  BY <1>2, <1>3 DEF Payment
<1>5. /\ p.granted <= 1 + p.again
      /\ p.status # "SUCCESS" => p.granted <= p.again
      /\ approved => p.granted <= p.again
  BY <1>1 DEF PaidInv, Settled
<1>6. ASSUME NEW b \in Approvers \ {a}, desk[b].pc = "save", desk[b].id = i, desk[b].approves
      PROVE  p.granted <= p.again /\ (approved => Beside(a))
  BY <1>1, <1>6 DEF PaidInv, Settled, Beside
<1>. HIDE DEF i, p, q, approved, more
<1>7. MaxGrants \in Nat
  BY PaymentsAssumption
<1>8. /\ p.again <= AtMost(p.again + 1)
      /\ AtMost(p.again + 1) \in 0..MaxGrants
      /\ \A g \in 0..MaxGrants : g <= 1 + p.again => g <= AtMost(p.again + 1)
  BY <1>4, AtMostNext
<1>9. q.granted <= 1 + q.again
  BY <1>2, <1>3, <1>4, <1>5, <1>7, <1>8
<1>10. q.status # "SUCCESS" => q.granted <= q.again
  <2>. SUFFICES ASSUME q.status # "SUCCESS" PROVE q.granted <= q.again
    OBVIOUS
  <2>1. CASE more
    <3>1. q.granted <= 1 + p.again
      BY <1>2, <1>3, <1>4, <1>5, <1>7
    <3>. QED
      BY <1>3, <1>4, <1>8, <2>1, <3>1
  <2>2. CASE ~ more
    <3>1. p.status # "SUCCESS"
      BY <1>3, <2>2 DEF more
    <3>2. ~ approved
      BY <1>1, <1>3 DEF PaidInv, approved
    <3>. QED
      BY <1>3, <1>5, <2>2, <3>1, <3>2
  <2>. QED
    BY <2>1, <2>2
<1>11. ASSUME NEW b \in Approvers \ {a}, desk[b].pc = "save", desk[b].id = i, desk[b].approves
       PROVE  q.granted <= q.again
  <2>1. p.granted <= p.again /\ (approved => more)
    BY <1>6, <1>11 DEF more
  <2>2. q.granted <= 1 + p.again /\ (~ approved => q.granted <= p.again)
    BY <1>2, <1>3, <1>4, <1>7, <2>1
  <2>3. CASE more
    BY <1>3, <1>4, <1>8, <2>2, <2>3
  <2>4. CASE ~ more
    BY <1>3, <2>1, <2>2, <2>4
  <2>. QED
    BY <2>3, <2>4
<1>. QED
  BY <1>9, <1>10, <1>11 DEF i, q

LEMMA PaidStep ==
  ASSUME PayTypeOK, RowsExist, PaidInv, [PayNext]_payVars
  PROVE  PaidInv'
<1>. Ids = 1..Len(payments) /\ Len(payments) \in Nat
  BY IdsAreNumbers
<1>1. ASSUME NEW w \in Payers, NEW ref \in References, NEW spelling \in Spellings, Check(w, ref, spelling)
      PROVE  PaidInv'
  BY <1>1 DEF Check, PaidInv, Settled, Ids
<1>2. ASSUME NEW w \in Payers, Create(w) PROVE PaidInv'
  <2>1. CASE UNCHANGED payments
    BY <1>2, <2>1 DEF Create, PaidInv, Settled, Ids
  <2>2. CASE ~ UNCHANGED payments
    <3>. DEFINE k == Len(payments) + 1
    <3>1. /\ UNCHANGED desk /\ Ids' = Ids \cup {k}
          /\ \A i \in Ids : payments'[i] = payments[i]
          /\ payments'[k] = [ref |-> checkout[w].ref, spelling |-> checkout[w].spelling,
                             status |-> "PENDING", granted |-> 0, again |-> 0]
      BY <1>2, <2>2, CreateEffect
    <3>2. payments'[k].granted = 0 /\ payments'[k].again = 0
      BY <3>1
    <3>. QED
      BY <3>1, <3>2 DEF PaidInv, Settled
  <2>. QED
    BY <2>1, <2>2
<1>3. ASSUME NEW a \in Approvers, NEW i \in Ids, NEW status \in Status, SendForm(a, i, status)
      PROVE  PaidInv'
  <2>. DEFINE f == [pc |-> "save", id |-> i, status |-> status,
                    approves |-> Approves(payments[i].status, status)]
  <2>1. desk' = [desk EXCEPT ![a] = f] /\ UNCHANGED <<payments, Ids>>
    BY <1>3 DEF SendForm, Ids
  <2>2. f.id = i /\ (f.approves => status = "SUCCESS" /\ Settled(i)) /\ f.status = status
    BY DEF Approves, PaidInv
  <2>. HIDE DEF f
  <2>3. \A b \in Approvers : desk'[b] = IF b = a THEN f ELSE desk[b]
    BY <2>1 DEF PayTypeOK
  <2>. QED
    BY <2>1, <2>2, <2>3 DEF PaidInv, Settled
<1>4. ASSUME NEW a \in Approvers, SaveModel(a) PROVE PaidInv'
  <2>. DEFINE k == desk[a].id
  <2>1. /\ k \in Ids /\ Len(payments') = Len(payments)
        /\ \A i \in Ids \ {k} : payments'[i] = payments[i]
        /\ desk'[a].pc = "free"
        /\ \A b \in Approvers \ {a} : desk'[b] = desk[b]
    BY <1>4, SaveEffect DEF NoForm
  <2>2. Ids' = Ids
    BY <1>4, SaveEffect DEF Ids
  <2>3. /\ payments'[k].granted <= 1 + payments'[k].again
        /\ payments'[k].status # "SUCCESS" => payments'[k].granted <= payments'[k].again
        /\ \A b \in Approvers \ {a} :
              desk[b].pc = "save" /\ desk[b].id = k /\ desk[b].approves
                => payments'[k].granted <= payments'[k].again
    BY <1>4, SavedIsPaidOnce
  <2>. HIDE DEF k
  <2>. QED
    BY <2>1, <2>2, <2>3 DEF PaidInv, Settled
<1>5. CASE UNCHANGED payVars
  BY <1>5 DEF payVars, PaidInv, Settled, Ids
<1>. QED
  BY <1>1, <1>2, <1>3, <1>4, <1>5 DEF PayNext

\* A payment renews the plan once, however often its form is saved and by however
\* many administrators, unless it was taken back meanwhile or two of them saved
\* it at once. (save_model)
THEOREM PaymentsArePaidOnce == PaySpec => []PaidOnce
<1>1. PayInit => PaidInv
  BY DEF PayInit, PaidInv, Ids, NoForm
<1>2. PayTypeOK /\ RowsExist /\ PaidInv /\ [PayNext]_payVars => PaidInv'
  BY PaidStep
<1>3. PaidInv => PaidOnce
  BY DEF PaidInv, PaidOnce
<1>. QED
  BY <1>1, <1>2, <1>3, PaymentTypesCorrect, PTL DEF PaySpec

-----------------------------------------------------------------------------
(* Payments: submitted once                                                *)

OpenOf(ref)   == {i \in Ids : payments[i].ref = ref /\ payments[i].status \in Open}
Creating(ref) == {w \in Payers : checkout[w].pc = "create" /\ checkout[w].ref = ref}

\* Together, the open payments of a reference and those about to be inserted are
\* no more than the users: whoever submits next finds one open.
SubmitInv ==
  ~ revived =>
    \A ref \in References : Cardinality(OpenOf(ref)) + Cardinality(Creating(ref)) <= Cardinality(Payers)

LEMMA OpenCounted ==
  ASSUME PayTypeOK, NEW ref
  PROVE  /\ IsFiniteSet(OpenOf(ref)) /\ Cardinality(OpenOf(ref)) \in Nat
         /\ IsFiniteSet(Creating(ref)) /\ Cardinality(Creating(ref)) \in Nat
         /\ Cardinality(Creating(ref)) <= Cardinality(Payers) /\ Cardinality(Payers) \in Nat
<1>1. IsFiniteSet(Ids)
  BY IdsAreNumbers, FS_Interval
<1>2. OpenOf(ref) \in SUBSET Ids /\ Creating(ref) \in SUBSET Payers
  BY DEF OpenOf, Creating
<1>. QED
  BY <1>1, <1>2, FS_Subset, FS_CardinalityType, PaymentsAssumption

(* Unchanged rows and checkouts count the same.                            *)
LEMMA SubmitStep ==
  ASSUME PayTypeOK, RowsExist, SubmitInv, [PayNext]_payVars
  PROVE  SubmitInv'
<1>. SUFFICES ASSUME ~ revived', NEW ref \in References
              PROVE  Cardinality(OpenOf(ref)') + Cardinality(Creating(ref)') <= Cardinality(Payers)
  BY DEF SubmitInv
<1>. /\ Ids = 1..Len(payments) /\ Len(payments) \in Nat
     /\ IsFiniteSet(OpenOf(ref)) /\ Cardinality(OpenOf(ref)) \in Nat
     /\ IsFiniteSet(Creating(ref)) /\ Cardinality(Creating(ref)) \in Nat
     /\ Cardinality(Payers) \in Nat
  BY IdsAreNumbers, OpenCounted
<1>0. ~ revived
  BY DEF PayNext, Check, Create, SendForm, SaveModel, payVars
<1>. Cardinality(OpenOf(ref)) + Cardinality(Creating(ref)) <= Cardinality(Payers)
  BY <1>0 DEF SubmitInv
<1>1. ASSUME NEW w \in Payers, NEW r \in References, NEW spelling \in Spellings, Check(w, r, spelling)
      PROVE  Cardinality(OpenOf(ref)') + Cardinality(Creating(ref)') <= Cardinality(Payers)
  <2>. DEFINE c == [pc |-> "create", ref |-> r, spelling |-> spelling]
  <2>1. checkout' = [checkout EXCEPT ![w] = c] /\ UNCHANGED payments
    BY <1>1 DEF Check
  <2>2. OpenOf(ref)' = OpenOf(ref)
    BY <2>1 DEF OpenOf, Ids
  <2>3. CASE r = ref
    <3>1. OpenOf(ref) = {}
      BY <1>1, <2>3 DEF Check, OpenOf
    <3>2. Creating(ref)' \in SUBSET Payers
      BY DEF Creating
    <3>3. Cardinality(Creating(ref)') <= Cardinality(Payers) /\ Cardinality(Creating(ref)') \in Nat
      BY <3>2, FS_Subset, FS_CardinalityType, PaymentsAssumption
    <3>4. Cardinality(OpenOf(ref)') = 0
      BY <2>2, <3>1, FS_EmptySet
    <3>. QED
      BY <3>3, <3>4
  <2>4. CASE r # ref
    <3>1. c.ref # ref /\ checkout[w].pc = "free"
      BY <1>1, <2>4 DEF Check
    <3>. HIDE DEF c
    <3>2. \A v \in Payers : checkout'[v] = IF v = w THEN c ELSE checkout[v]
      BY <2>1 DEF PayTypeOK
    <3>3. Creating(ref)' = Creating(ref)
      BY <3>1, <3>2 DEF Creating
    <3>. QED
      BY <2>2, <3>3
  <2>. QED
    BY <2>3, <2>4
<1>2. ASSUME NEW w \in Payers, Create(w)
      PROVE  Cardinality(OpenOf(ref)') + Cardinality(Creating(ref)') <= Cardinality(Payers)
  <2>1. /\ checkout[w].pc = "create"
        /\ \A v \in Payers : checkout'[v] = IF v = w THEN NoCheckout ELSE checkout[v]
    BY <1>2 DEF Create, PayTypeOK
  <2>2. Creating(ref)' = Creating(ref) \ {w}
    BY <2>1 DEF Creating, NoCheckout
  <2>3. Cardinality(Creating(ref)') = IF w \in Creating(ref) THEN Cardinality(Creating(ref)) - 1
                                                              ELSE Cardinality(Creating(ref))
    BY <2>2, FS_RemoveElement
  <2>4. CASE UNCHANGED payments
    <3>1. OpenOf(ref)' = OpenOf(ref)
      BY <2>4 DEF OpenOf, Ids
    <3>. QED
      BY <2>3, <3>1
  <2>5. CASE ~ UNCHANGED payments
    <3>. DEFINE k == Len(payments) + 1
    <3>1. /\ Ids' = Ids \cup {k}
          /\ \A i \in Ids : payments'[i] = payments[i]
          /\ payments'[k] = [ref |-> checkout[w].ref, spelling |-> checkout[w].spelling,
                             status |-> "PENDING", granted |-> 0, again |-> 0]
      BY <1>2, <2>5, CreateEffect
    <3>2. payments'[k].ref = checkout[w].ref /\ payments'[k].status \in Open /\ k \notin Ids
      BY <3>1 DEF Open
    <3>. HIDE DEF k
    <3>3. CASE checkout[w].ref = ref
      <4>1. OpenOf(ref)' = OpenOf(ref) \cup {k} /\ w \in Creating(ref)
        BY <2>1, <3>1, <3>2, <3>3 DEF OpenOf, Creating
      <4>2. Cardinality(OpenOf(ref)') = Cardinality(OpenOf(ref)) + 1
        BY <3>2, <4>1, FS_AddElement DEF OpenOf
      <4>. QED
        BY <2>3, <4>1, <4>2
    <3>4. CASE checkout[w].ref # ref
      <4>1. OpenOf(ref)' = OpenOf(ref)
        BY <3>1, <3>2, <3>4 DEF OpenOf
      <4>. QED
        BY <2>3, <4>1
    <3>. QED
      BY <3>3, <3>4
  <2>. QED
    BY <2>4, <2>5
<1>3. ASSUME NEW a \in Approvers, NEW i \in Ids, NEW status \in Status, SendForm(a, i, status)
      PROVE  Cardinality(OpenOf(ref)') + Cardinality(Creating(ref)') <= Cardinality(Payers)
  BY <1>3 DEF SendForm, OpenOf, Creating, Ids
<1>4. ASSUME NEW a \in Approvers, SaveModel(a)
      PROVE  Cardinality(OpenOf(ref)') + Cardinality(Creating(ref)') <= Cardinality(Payers)
  <2>. DEFINE k == desk[a].id
  <2>1. /\ desk[a].pc = "save" /\ k \in Ids /\ desk[a] \in Form
        /\ desk[a].approves => plan < MaxGrants
        /\ Len(payments') = Len(payments)
        /\ payments'[k] = Saved(a, desk[a].approves)
        /\ \A i \in Ids \ {k} : payments'[i] = payments[i]
    BY <1>4, SaveEffect
  <2>2. Ids' = Ids
    BY <1>4, SaveEffect DEF Ids
  <2>3. payments'[k].ref = payments[k].ref /\ payments'[k].status = desk[a].status
    BY <2>1, SavedRow DEF Form
  <2>4. payments'[k].status \in Open => payments[k].status \in Open
    BY <1>4, <2>3 DEF SaveModel
  <2>5. Creating(ref)' = Creating(ref)
    BY <1>4 DEF SaveModel, Creating
  <2>. HIDE DEF k
  <2>6. OpenOf(ref)' \in SUBSET OpenOf(ref)
    BY <2>1, <2>2, <2>3, <2>4 DEF OpenOf
  <2>7. Cardinality(OpenOf(ref)') <= Cardinality(OpenOf(ref)) /\ Cardinality(OpenOf(ref)') \in Nat
    BY <2>6, FS_Subset, FS_CardinalityType
  <2>. QED
    BY <2>5, <2>7
<1>5. CASE UNCHANGED payVars
  BY <1>5 DEF payVars, OpenOf, Creating, Ids
<1>. QED
  BY <1>1, <1>2, <1>3, <1>4, <1>5 DEF PayNext

\* A reference stands for no more payments than users can have submitted at once,
\* in whatever spelling, until an administrator takes up a failed one again.
\* (subscription_checkout_view)
THEOREM ReferencesAreSubmittedOnce == PaySpec => []SubmittedOnce
<1>1. PayInit => SubmitInv
  <2>. SUFFICES ASSUME PayInit, NEW ref \in References
                PROVE  Cardinality(OpenOf(ref)) + Cardinality(Creating(ref)) <= Cardinality(Payers)
    BY DEF SubmitInv
  <2>1. OpenOf(ref) = {} /\ Creating(ref) = {}
    BY DEF PayInit, OpenOf, Creating, Ids, NoCheckout
  <2>. QED
    BY <2>1, FS_EmptySet, FS_CardinalityType, PaymentsAssumption
<1>2. PayTypeOK /\ RowsExist /\ SubmitInv /\ [PayNext]_payVars => SubmitInv'
  BY SubmitStep
<1>3. PayTypeOK /\ SubmitInv => SubmittedOnce
  <2>. SUFFICES ASSUME PayTypeOK, SubmitInv, ~ revived, NEW ref \in References
                PROVE  Cardinality(OpenOf(ref)) <= Cardinality(Payers)
    BY DEF SubmittedOnce, OpenOf
  <2>. QED
    BY OpenCounted DEF SubmitInv
<1>. QED
  BY <1>1, <1>2, <1>3, PaymentTypesCorrect, PTL DEF PaySpec
=============================================================================
