------------------------------ MODULE Payments ------------------------------
(***************************************************************************)
(* Payments that are made by hand and approved by an administrator         *)
(* (api_views.py subscription_checkout_view; admin.py                      *)
(* PaymentTransactionAdmin; models.py PaymentTransaction).                 *)
(*                                                                         *)
(* A user submits the reference of a payment, in one of several spellings; *)
(* an administrator opens its form and saves it with a status.  A payment  *)
(* that becomes SUCCESS renews the subscription for thirty days, which     *)
(* `granted` counts for the payment and `plan` for the user.               *)
(***************************************************************************)
EXTENDS Naturals, Sequences, FiniteSets

CONSTANTS
  Payers,       \* threads in which users submit
  Approvers,    \* threads in which administrators save
  References,
  Spellings,    \* spellings of a reference: the case of its letters
  MaxPayments,  \* bound: rows
  MaxGrants     \* bound: renewals of the plan

ASSUME PaymentsAssumption ==
  /\ IsFiniteSet(Payers) /\ MaxPayments \in Nat /\ MaxGrants \in Nat

VARIABLES
  payments,  \* the rows of PaymentTransaction
  checkout,  \* checkout[w]: what payer w has checked and not yet inserted
  desk,      \* desk[a]: the form of administrator a
  plan,      \* how often the subscription has been renewed
  revived    \* history: an administrator took a failed payment up again

payVars == <<payments, checkout, desk, plan, revived>>

\* INITIATED and CANCELLED are treated as FAILED is.
Status  == {"PENDING", "SUCCESS", "FAILED"}
Open    == {"PENDING", "SUCCESS"}

\* granted: the renewals of this payment.  again: history, how often another one
\* has become possible, since the payment was taken back, or since a second
\* administrator was saving it at the same time.
Payment == [ref : References, spelling : Spellings, status : Status, granted : 0..MaxGrants, again : 0..MaxGrants]

Checkout   == [pc : {"create"}, ref : References, spelling : Spellings]
NoCheckout == [pc |-> "free"]

\* approves: the save will renew the plan.
Form       == [pc : {"save"}, id : 1..MaxPayments, status : Status, approves : BOOLEAN]
NoForm     == [pc |-> "free"]

Ids       == DOMAIN payments
Same(i, ref, spelling) == payments[i].ref = ref /\ payments[i].spelling = spelling

-----------------------------------------------------------------------------
(* subscription_checkout_view: a look for the reference in any spelling ... *)

\* Mutant: the spelling has to be the same.
CheckExact(w, ref, spelling) ==
  /\ checkout[w].pc = "free"
  /\ ~ \E i \in Ids : Same(i, ref, spelling) /\ payments[i].status \in Open
  /\ checkout' = [checkout EXCEPT ![w] = [pc |-> "create", ref |-> ref, spelling |-> spelling]]
  /\ UNCHANGED <<payments, desk, plan, revived>>

Check(w, ref, spelling) ==
  /\ checkout[w].pc = "free"
  /\ ~ \E i \in Ids : payments[i].ref = ref /\ payments[i].status \in Open
  /\ checkout' = [checkout EXCEPT ![w] = [pc |-> "create", ref |-> ref, spelling |-> spelling]]
  /\ UNCHANGED <<payments, desk, plan, revived>>

\* ... and the insertion, which the unique column refuses to a second row with
\* the same spelling.
Create(w) ==
  LET c == checkout[w] IN
  /\ c.pc = "create"
  /\ \/ /\ \E i \in Ids : Same(i, c.ref, c.spelling)
        /\ UNCHANGED payments
     \/ /\ ~ \E i \in Ids : Same(i, c.ref, c.spelling)
        /\ Len(payments) < MaxPayments
        /\ payments' = Append(payments, [ref |-> c.ref, spelling |-> c.spelling, status |-> "PENDING",
                                         granted |-> 0, again |-> 0])
  /\ checkout' = [checkout EXCEPT ![w] = NoCheckout]
  /\ UNCHANGED <<desk, plan, revived>>

-----------------------------------------------------------------------------
(* PaymentTransactionAdmin *)

Approves(old, status) == old # "SUCCESS" /\ status = "SUCCESS"

\* A form is sent with the status that it showed when it was opened, whatever
\* has become of the payment since, or with another one; save_model reads the row
\* again for its status.
SendForm(a, i, status) ==
  /\ desk[a].pc = "free"
  /\ desk' = [desk EXCEPT ![a] = [pc |-> "save", id |-> i, status |-> status,
                                  approves |-> Approves(payments[i].status, status)]]
  /\ UNCHANGED <<payments, checkout, plan, revived>>

Beside(a) == \E b \in Approvers \ {a} : desk[b].pc = "save" /\ desk[b].id = desk[a].id

AtMost(n) == IF n < MaxGrants THEN n ELSE MaxGrants

\* The row as the form has it, with one renewal when `approved`.
Saved(a, approved) ==
  LET form == desk[a]
      p    == payments[form.id]
  IN  [p EXCEPT !.status = form.status,
                !.granted = IF approved THEN @ + 1 ELSE @,
                !.again = IF (approved /\ Beside(a)) \/ (p.status = "SUCCESS" /\ form.status # "SUCCESS")
                          THEN AtMost(@ + 1) ELSE @]

Renew(approved) ==
  IF approved THEN plan < MaxGrants /\ plan' = plan + 1 ELSE UNCHANGED plan

\* Mutant: every save of a successful payment renews the plan.
SaveRenewing(a) ==
  /\ desk[a].pc = "save"
  /\ Renew(desk[a].status = "SUCCESS")
  /\ payments' = [payments EXCEPT ![desk[a].id] = Saved(a, desk[a].status = "SUCCESS")]
  /\ revived' = revived
  /\ desk' = [desk EXCEPT ![a] = NoForm]
  /\ UNCHANGED checkout

\* The subscription is renewed and the approval recorded when the payment was not
\* successful before; then the row is saved.
SaveModel(a) ==
  /\ desk[a].pc = "save"
  /\ Renew(desk[a].approves)
  /\ payments' = [payments EXCEPT ![desk[a].id] = Saved(a, desk[a].approves)]
  /\ revived' = (revived \/ (payments[desk[a].id].status \notin Open /\ desk[a].status \in Open))
  /\ desk' = [desk EXCEPT ![a] = NoForm]
  /\ UNCHANGED checkout

-----------------------------------------------------------------------------

PayInit ==
  /\ payments = <<>>
  /\ checkout = [w \in Payers |-> NoCheckout]
  /\ desk = [a \in Approvers |-> NoForm]
  /\ plan = 0
  /\ revived = FALSE

PayNext ==
  \/ \E w \in Payers :
        \/ \E ref \in References, spelling \in Spellings : Check(w, ref, spelling)
        \/ Create(w)
  \/ \E a \in Approvers :
        \/ \E i \in Ids, status \in Status : SendForm(a, i, status)
        \/ SaveModel(a)

PaySpec == PayInit /\ [][PayNext]_payVars

-----------------------------------------------------------------------------
(* Properties *)

PayTypeOK ==
  /\ payments \in Seq(Payment)
  /\ checkout \in [Payers -> Checkout \cup {NoCheckout}]
  /\ desk \in [Approvers -> Form \cup {NoForm}]
  /\ plan \in 0..MaxGrants
  /\ revived \in BOOLEAN

\* A payment renews the plan once, however often its form is saved, unless it was
\* taken back meanwhile or two administrators saved it at once. (save_model)
PaidOnce == \A i \in Ids : payments[i].granted <= 1 + payments[i].again

\* A reference stands for no more payments than users can have submitted at once,
\* in whatever spelling, until an administrator takes up a failed one again.
\* (subscription_checkout_view)
SubmittedOnce ==
  ~ revived =>
    \A ref \in References :
      Cardinality({i \in Ids : payments[i].ref = ref /\ payments[i].status \in Open}) <= Cardinality(Payers)
=============================================================================
