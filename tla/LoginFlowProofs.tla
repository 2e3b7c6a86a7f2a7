--------------------------- MODULE LoginFlowProofs ---------------------------
(***************************************************************************)
(* Proofs about LoginFlow: the types, and what sessions, the second factor *)
(* and a reset of the password promise, for any number of browsers and of  *)
(* passwords, any choice of views and whatever the slow request loaded.    *)
(***************************************************************************)
EXTENDS LoginFlow, TLAPS

Pending == slow # NoRequest

\* Only the slow request is answered late, and no row puts a password back that
\* is newer than the one in force.
SlowIsOld == Pending => ~ slow.fast /\ slow.a.pw <= account.pw

\* What is verified, or may yet be saved as verified, is earned; so is what a
\* request may do that found, or finds, an account without a second factor.
Earned ==
  /\ \A b \in Browsers : session[b].verified => b \in earned
  /\ Pending /\ slow.s.verified /\ ~ slow.lost => slow.b \in earned
  /\ Pending /\ ~ Guarded(slow.a) => slow.b \in earned
  /\ ~ Guarded(account) => earned = Browsers

\* Sessions, also the one that may yet be saved, are of the password in force
\* only where its owner signed in under it, and of none that is newer.
Signed ==
  ~ undone =>
    /\ \A b \in Browsers : /\ session[b].auth <= account.pw
                           /\ session[b].auth = account.pw => b \in since
    /\ Pending => slow.s.auth <= account.pw
    /\ Pending /\ slow.s.auth = account.pw /\ ~ slow.lost => slow.b \in since

\* Nothing allows a reset any more when its code is five minutes old.
Fresh ==
  /\ \A b \in Browsers : session[b].reset = "verified" => recent
  /\ Pending /\ slow.s.reset = "verified" => recent
  /\ grants # {} => recent

LoginInv == SlowIsOld /\ Earned /\ Signed /\ Fresh

-----------------------------------------------------------------------------
(* Requests and answers                                                    *)

(* What a request that may be answered has loaded.                         *)
LEMMA RequestType ==
  ASSUME TypeOK, NEW r \in Requests
  PROVE  /\ r \in Request
         /\ r.b \in Browsers /\ r.s \in Session /\ r.a \in Account
         /\ r.fast \in BOOLEAN /\ r.lost \in BOOLEAN
<1>1. r \in Request
  <2>1. ASSUME NEW b \in Browsers PROVE Load(b, TRUE) \in Request
    BY DEF Load, Request, TypeOK
  <2>. QED
    BY <2>1 DEF Requests, TypeOK
<1>. QED
  BY <1>1 DEF Request

(* A request that is answered at once has just loaded everything; the other *)
(* one is the slow request.                                                *)
LEMMA RequestIsOneOfTwo ==
  ASSUME TypeOK, SlowIsOld, NEW r \in Requests
  PROVE  \/ r.fast /\ ~ r.lost /\ r.s = session[r.b] /\ r.a = account
         \/ ~ r.fast /\ r = slow /\ Pending
  BY DEF Requests, Load, SlowIsOld, Pending

(* A session is saved under the key that it had.                           *)
LEMMA AnswerEffect ==
  ASSUME TypeOK, NEW r \in Requests, NEW s \in Session, Answer(r, s)
  PROVE  /\ session' \in [Browsers -> Session]
         /\ slow' \in Request \cup {NoRequest}
         /\ \A b \in Browsers \ {r.b} : session'[b] = session[b]
         /\ session'[r.b] = IF r.lost THEN session[r.b] ELSE s
         /\ slow' = NoRequest \/ (r.fast /\ slow' = slow)
<1>. r.b \in Browsers /\ session \in [Browsers -> Session]
  BY RequestType DEF TypeOK
<1>1. /\ session' \in [Browsers -> Session]
      /\ \A b \in Browsers \ {r.b} : session'[b] = session[b]
      /\ session'[r.b] = IF r.lost THEN session[r.b] ELSE s
  BY DEF Answer
<1>2. /\ slow' \in Request \cup {NoRequest}
      /\ slow' = NoRequest \/ (r.fast /\ slow' = slow)
  BY DEF Answer, Without, TypeOK
<1>. QED
  BY <1>1, <1>2

(* What is left of the slow request when the session it loaded is replaced. *)
SlowKept == Pending' => /\ Pending /\ slow'.b = slow.b /\ slow'.s = slow.s /\ slow'.a = slow.a
                        /\ slow'.fast = slow.fast /\ (slow.lost => slow'.lost)

LEMMA LostIsRequest ==
  ASSUME TypeOK, Pending
  PROVE  LET q == [slow EXCEPT !.lost = TRUE]
         IN  q \in Request /\ q.b = slow.b /\ q.s = slow.s /\ q.a = slow.a /\ q.fast = slow.fast /\ q.lost
  BY DEF TypeOK, Pending, Request

(* A session is saved under a new key.                                     *)
LEMMA AnewEffect ==
  ASSUME TypeOK, NEW r \in Requests, NEW s \in Session, AnswerAnew(r, s)
  PROVE  /\ session' \in [Browsers -> Session]
         /\ slow' \in Request \cup {NoRequest}
         /\ \A b \in Browsers \ {r.b} : session'[b] = session[b]
         /\ session'[r.b] = s
         /\ SlowKept
         /\ Pending' => r.fast /\ (slow'.b = r.b => slow'.lost)
<1>. r.b \in Browsers /\ session \in [Browsers -> Session]
  BY RequestType DEF TypeOK
<1>1. /\ session' \in [Browsers -> Session]
      /\ \A b \in Browsers \ {r.b} : session'[b] = session[b]
      /\ session'[r.b] = s
  BY DEF AnswerAnew
<1>2. CASE Pending /\ slow.b = r.b /\ r.fast
  <2>1. slow' = [slow EXCEPT !.lost = TRUE]
    BY <1>2 DEF AnswerAnew, Without, Pending
  <2>. QED
    BY <1>1, <1>2, <2>1, LostIsRequest DEF SlowKept
<1>3. CASE ~ (Pending /\ slow.b = r.b /\ r.fast)
  <2>1. slow' = NoRequest \/ (r.fast /\ slow' = slow)
    BY <1>3 DEF AnswerAnew, Without, Pending
  <2>. QED
    BY <1>1, <1>3, <2>1 DEF SlowKept, TypeOK, Pending
<1>. QED
  BY <1>2, <1>3

-----------------------------------------------------------------------------
(* Types                                                                   *)

StoresType == /\ session' \in [Browsers -> Session]
              /\ slow' \in Request \cup {NoRequest}

LEMMA IssueType ==
  ASSUME TypeOK, NEW purpose \in Purposes, NEW outcome \in Outcomes, Issue(purpose, outcome)
  PROVE  code' \in SUBSET Purposes
  BY DEF TypeOK, Issue, Outcomes

LEMMA SetUpPurposeType == \A r : SetUpPurpose(r) \in Purposes
  BY DEF SetUpPurpose, Purposes

(* A request that sends a code.                                            *)
LEMMA MailingType ==
  ASSUME TypeOK, NEW r \in Requests, NEW outcome \in Outcomes, Mailing(r, outcome)
  PROVE  TypeOK'
<1>. /\ r.s \in Session /\ r.b \in Browsers
     /\ account \in Account /\ earned \in SUBSET Browsers
  BY RequestType DEF TypeOK
<1>. "email_verify" \in Purposes /\ "2fa" \in Purposes /\ "password_reset" \in Purposes
  BY DEF Purposes
<1>1. CASE Register(r, outcome)
  <2>1. [r.s EXCEPT !.registering = TRUE] \in Session
    BY DEF Session
  <2>2. account' \in Account
    BY <1>1 DEF Register, Account
  <2>3. StoresType
    BY <1>1, <2>1, AnswerEffect DEF Register, StoresType
  <2>4. code' \in SUBSET Purposes
    BY <1>1, IssueType DEF Register
  <2>5. earned' \in SUBSET Browsers
    BY <1>1 DEF Register, Relax
  <2>. QED
    BY <1>1, <2>2, <2>3, <2>4, <2>5 DEF Register, StoresType, TypeOK
<1>2. CASE SetUpPage(r, outcome) \/ VerifyPage(r, outcome) \/ Resend(r, outcome) \/ ResetResend(r, outcome)
  <2>1. StoresType
    BY <1>2, AnswerEffect DEF SetUpPage, VerifyPage, Resend, ResetResend, StoresType
  <2>2. code' \in SUBSET Purposes
    BY <1>2, IssueType, SetUpPurposeType DEF SetUpPage, VerifyPage, Resend, ResetResend
  <2>. QED
    BY <1>2, <2>1, <2>2
       DEF SetUpPage, VerifyPage, Resend, ResetResend, StoresType, TypeOK, history
<1>3. CASE ResetRequest(r, outcome)
  <2>1. [r.s EXCEPT !.reset = IF @ = "none" THEN "asked" ELSE @] \in Session
    BY DEF Session
  <2>2. StoresType
    BY <1>3, <2>1, AnswerEffect DEF ResetRequest, StoresType
  <2>3. code' \in SUBSET Purposes
    BY <1>3, IssueType DEF ResetRequest
  <2>. QED
    BY <1>3, <2>2, <2>3 DEF ResetRequest, StoresType, TypeOK, history
<1>4. CASE ApiRequest(r, outcome)
  <2>1. [r.s EXCEPT !.asked = @ \/ outcome = "mailed"] \in Session
    BY DEF Session
  <2>2. StoresType
    BY <1>4, <2>1, AnswerEffect DEF ApiRequest, StoresType
  <2>3. code' \in SUBSET Purposes
    BY <1>4, IssueType DEF ApiRequest
  <2>. QED
    BY <1>4, <2>2, <2>3 DEF ApiRequest, StoresType, TypeOK, history
<1>. QED
  BY <1>1, <1>2, <1>3, <1>4 DEF Mailing

(* The end of a login.                                                     *)
LEMMA CompleteLoginType ==
  ASSUME TypeOK, NEW r \in Requests, NEW s \in Session, NEW remember,
         CompleteLogin(r, s, remember)
  PROVE  /\ StoresType
         /\ cookie' \in [Browsers -> {"none", "live", "dead"}]
         /\ since' \in SUBSET Browsers
<1>. r.b \in Browsers /\ r.a.pw \in Passwords /\ r.a.admin \in BOOLEAN
  BY RequestType DEF Account
<1>1. SignedInAs(r, s) \in Session
  <2>1. r.a.pw \in 0..MaxPasswords
    BY LoginAssumption DEF Passwords
  <2>. QED
    BY <2>1 DEF SignedInAs, Session
<1>2. StoresType
  BY <1>1, AnswerEffect, AnewEffect DEF CompleteLogin, SignIn, StoresType
<1>3. cookie' \in [Browsers -> {"none", "live", "dead"}]
  BY DEF CompleteLogin, TypeOK
<1>4. since' \in SUBSET Browsers
  BY DEF CompleteLogin, Trust, TypeOK
<1>. QED
  BY <1>2, <1>3, <1>4

LEMMA LoginType ==
  ASSUME TypeOK, NEW r \in Requests, Login(r)
  PROVE  TypeOK'
<1>. /\ r.s \in Session /\ r.b \in Browsers /\ r.a \in Account
     /\ "2fa" \in Purposes
  BY RequestType DEF Purposes
<1>. PICK remember \in {FALSE, On("remember")} :
          LoginOpen(r, remember) \/ \E outcome \in Outcomes : LoginGuarded(r, remember, outcome)
  BY DEF Login
<1>1. CASE LoginOpen(r, remember)
  BY <1>1, CompleteLoginType DEF LoginOpen, CompleteLogin, StoresType, TypeOK
<1>2. ASSUME NEW outcome \in Outcomes, LoginGuarded(r, remember, outcome) PROVE TypeOK'
  <2>. DEFINE pending == IF outcome # "mailed" THEN "no" ELSE IF remember THEN "remember" ELSE "yes"
  <2>1. [r.s EXCEPT !.pending = pending] \in Session
    BY DEF Session
  <2>2. StoresType
    BY <1>2, <2>1, AnswerEffect DEF LoginGuarded, StoresType
  <2>3. code' \in SUBSET Purposes
    BY <1>2, IssueType DEF LoginGuarded
  <2>. QED
    BY <1>2, <2>2, <2>3 DEF LoginGuarded, StoresType, TypeOK, history
<1>. QED
  BY <1>1, <1>2

(* Actions that turn the second factor on.                                 *)
LEMMA EnableType ==
  ASSUME TypeOK, NEW r \in Requests,
         FinishRegistration(r) \/ EnableByMail(r) \/ Verify(r) \/ ConfirmDevice(r) \/ EnrolByApi(r)
  PROVE  TypeOK'
<1>. r.s \in Session /\ r.b \in Browsers /\ account \in Account
  BY RequestType DEF TypeOK
<1>. earned' = earned \cup {r.b} => earned' \in SUBSET Browsers
  BY DEF TypeOK
<1>. [account EXCEPT !.twoFactor = TRUE] \in Account
  BY DEF Account
<1>. \A purpose : Consume(purpose) => code' \in SUBSET Purposes
  BY DEF Consume, TypeOK
<1>1. CASE FinishRegistration(r)
  <2>1. [r.s EXCEPT !.registering = FALSE] \in Session
    BY DEF Session
  <2>2. [account EXCEPT !.twoFactor = TRUE, !.emailVerified = TRUE] \in Account
    BY DEF Account
  <2>3. CompleteLogin(r, [r.s EXCEPT !.registering = FALSE], FALSE)
    BY <1>1 DEF FinishRegistration
  <2>. QED
    BY <1>1, <2>1, <2>2, <2>3, CompleteLoginType
       DEF FinishRegistration, CompleteLogin, Enter, StoresType, TypeOK
<1>2. CASE Verify(r)
  <2>1. CompleteLogin(r, r.s, r.s.pending = "remember")
    BY <1>2 DEF Verify
  <2>2. code' \in SUBSET Purposes
    BY <1>2 DEF Verify, TypeOK
  <2>. QED
    BY <1>2, <2>1, <2>2, CompleteLoginType DEF Verify, CompleteLogin, Enter, StoresType, TypeOK
<1>3. CASE EnableByMail(r) \/ ConfirmDevice(r) \/ EnrolByApi(r)
  <2>1. [r.s EXCEPT !.verified = TRUE] \in Session
    BY DEF Session
  <2>2. StoresType
    BY <1>3, <2>1, AnswerEffect DEF EnableByMail, ConfirmDevice, EnrolByApi, StoresType
  <2>. QED
    BY <1>3, <2>2 DEF EnableByMail, ConfirmDevice, EnrolByApi, Enter, StoresType, TypeOK
<1>. QED
  BY <1>1, <1>2, <1>3

(* Signing in by the cookie, and signing out.                              *)
LEMMA RememberedType ==
  ASSUME TypeOK, NEW r \in Requests, AutoLogin(r) \/ Logout(r) \/ DropSession(r)
  PROVE  TypeOK'
<1>. /\ r.s \in Session /\ r.b \in Browsers /\ r.a \in Account
     /\ "2fa" \in Purposes
  BY RequestType DEF Purposes
<1>1. CASE AutoLoginOpen(r)
  <2>1. [r.s EXCEPT !.auth = r.a.pw] \in Session
    BY LoginAssumption DEF Session, Account, Passwords
  <2>2. StoresType
    BY <1>1, <2>1, AnewEffect DEF AutoLoginOpen, StoresType
  <2>3. since' \in SUBSET Browsers
    BY <1>1 DEF AutoLoginOpen, Trust, TypeOK
  <2>. QED
    BY <1>1, <2>2, <2>3 DEF AutoLoginOpen, StoresType, TypeOK
<1>2. CASE AutoLoginDead(r)
  <2>1. StoresType
    BY <1>2, AnswerEffect DEF AutoLoginDead, StoresType
  <2>. QED
    BY <1>2, <2>1 DEF AutoLoginDead, StoresType, TypeOK, history
<1>3. ASSUME NEW outcome \in Outcomes, AutoLoginGuarded(r, outcome) PROVE TypeOK'
  <2>1. [r.s EXCEPT !.pending = "remember"] \in Session
    BY DEF Session
  <2>2. StoresType
    BY <1>3, <2>1, AnswerEffect DEF AutoLoginGuarded, StoresType
  <2>3. code' \in SUBSET Purposes
    BY <1>3, IssueType DEF AutoLoginGuarded, TypeOK
  <2>. QED
    BY <1>3, <2>2, <2>3 DEF AutoLoginGuarded, StoresType, TypeOK, history
<1>4. CASE Flush(r) /\ (cookie' = [cookie EXCEPT ![r.b] = "none"] \/ UNCHANGED cookie)
  <2>1. Anonymous \in Session
    BY LoginAssumption DEF Anonymous, Session
  <2>2. StoresType
    BY <1>4, <2>1, AnewEffect DEF Flush, StoresType
  <2>3. earned' \in SUBSET Browsers
    BY <1>4 DEF Flush, Restart, TypeOK
  <2>4. cookie' \in [Browsers -> {"none", "live", "dead"}]
    BY <1>4 DEF TypeOK
  <2>. QED
    BY <1>4, <2>2, <2>3, <2>4 DEF Flush, StoresType, TypeOK
<1>. QED
  BY <1>1, <1>2, <1>3, <1>4 DEF AutoLogin, Logout, DropSession

(* The pages of the second factor.                                         *)
LEMMA FactorPageType ==
  ASSUME TypeOK, NEW r \in Requests, DevicePage(r) \/ DisableDevice(r) \/ Toggle(r) \/ OtherPage(r)
  PROVE  TypeOK'
<1>. r.s \in Session /\ r.b \in Browsers /\ r.a \in Account
  BY RequestType
<1>1. StoresType
  BY AnswerEffect DEF DevicePage, DisableDevice, Toggle, OtherPage, StoresType
<1>2. CASE Toggle(r)
  <2>1. [r.a EXCEPT !.twoFactor = FALSE] \in Account
    BY DEF Account
  <2>2. earned' \in SUBSET Browsers
    BY <1>2 DEF Toggle, Relax, TypeOK
  <2>3. undone' \in BOOLEAN
    BY <1>2 DEF Toggle, TypeOK
  <2>. QED
    BY <1>1, <1>2, <2>1, <2>2, <2>3 DEF Toggle, StoresType, TypeOK
<1>3. CASE ~ Toggle(r)
  BY <1>1, <1>3 DEF DevicePage, DisableDevice, OtherPage, StoresType, TypeOK, history
<1>. QED
  BY <1>2, <1>3

(* A code for a reset is entered.                                          *)
LEMMA ResetVerifyType ==
  ASSUME TypeOK, NEW r \in Requests, ResetVerify(r) \/ ApiVerify(r)
  PROVE  TypeOK'
<1>. r.s \in Session /\ r.b \in Browsers
  BY RequestType
<1>1. [r.s EXCEPT !.reset = "verified"] \in Session
  BY DEF Session
<1>2. StoresType
  BY <1>1, AnswerEffect DEF ResetVerify, ApiVerify, StoresType
<1>3. code' \in SUBSET Purposes /\ grants' \in SUBSET Browsers
  BY DEF ResetVerify, ApiVerify, Consume, TypeOK
<1>. QED
  BY <1>2, <1>3 DEF ResetVerify, ApiVerify, StoresType, TypeOK

(* The password is new.                                                    *)
LEMMA NewPasswordType ==
  ASSUME TypeOK, NEW a \in Account, NewPassword(a)
  PROVE  account' \in Account /\ account'.pw = account.pw + 1
<1>1. account.pw + 1 \in Passwords
  BY LoginAssumption DEF NewPassword, TypeOK, Account, Passwords
<1>. QED
  BY <1>1 DEF NewPassword, Account

LEMMA ResetEffect ==
  ASSUME TypeOK, NEW r \in Requests, NEW mine \in Session, NEW deleted \in BOOLEAN,
         Reset(r, mine, deleted)
  PROVE  /\ StoresType
         /\ account' \in Account /\ account'.pw = account.pw + 1
         /\ \A b \in Browsers : \/ session'[b] = Anonymous
                                \/ session'[b] = session[b]
                                \/ b = r.b /\ ~ r.lost /\ session'[b] = mine
         /\ SlowKept
         /\ Pending' => r.fast
<1>. r.a \in Account /\ r.b \in Browsers /\ session \in [Browsers -> Session]
  BY RequestType DEF TypeOK
<1>. Anonymous \in Session
  BY LoginAssumption DEF Anonymous, Session
<1>. DEFINE gone(b) == deleted /\ session[b].auth # 0
<1>1. account' \in Account /\ account'.pw = account.pw + 1
  BY NewPasswordType DEF Reset
<1>2. session' = [b \in Browsers |-> IF gone(b) THEN Anonymous
                                   ELSE IF b = r.b /\ ~ r.lost THEN mine ELSE session[b]]
  BY DEF Reset
<1>3. ASSUME NEW b \in Browsers
      PROVE  \/ session'[b] = Anonymous
             \/ session'[b] = session[b]
             \/ b = r.b /\ ~ r.lost /\ session'[b] = mine
  <2>. HIDE DEF gone
  <2>. QED
    BY <1>2
<1>4. session' \in [Browsers -> Session]
  <2>. HIDE DEF gone
  <2>1. \A b \in Browsers : session'[b] \in Session
    BY <1>3
  <2>2. DOMAIN session' = Browsers /\ session' = [b \in Browsers |-> session'[b]]
    BY <1>2
  <2>. QED
    BY <2>1, <2>2
<1>5. \/ slow' = NoRequest
      \/ r.fast /\ slow' = slow
      \/ r.fast /\ Pending /\ slow' = [slow EXCEPT !.lost = TRUE]
  BY DEF Reset, Without, Pending
<1>6. SlowKept /\ slow' \in Request \cup {NoRequest} /\ (Pending' => r.fast)
  BY <1>5, LostIsRequest DEF SlowKept, TypeOK, Pending
<1>. QED
  BY <1>1, <1>3, <1>4, <1>6 DEF StoresType

LEMMA ResetType ==
  ASSUME TypeOK, NEW r \in Requests, NEW deleted \in BOOLEAN,
         ResetConfirm(r, deleted) \/ ApiConfirm(r, deleted)
  PROVE  TypeOK'
<1>. r.s \in Session
  BY RequestType
<1>1. [r.s EXCEPT !.reset = "none"] \in Session
  BY DEF Session
<1>2. PICK mine \in Session : Reset(r, mine, deleted)
  BY <1>1 DEF ResetConfirm, ApiConfirm
<1>3. StoresType /\ account' \in Account
  BY <1>2, ResetEffect
<1>4. /\ cookie' \in [Browsers -> {"none", "live", "dead"}]
      /\ since' \in SUBSET Browsers /\ earned' \in SUBSET Browsers
  BY <1>2 DEF Reset, Relax, TypeOK
<1>5. grants' \in SUBSET Browsers
  BY DEF ResetConfirm, ApiConfirm, TypeOK
<1>. QED
  BY <1>2, <1>3, <1>4, <1>5 DEF Reset, StoresType, TypeOK

LEMMA ServeType ==
  ASSUME TypeOK, NEW r \in Requests, Serve(r)
  PROVE  TypeOK'
  BY MailingType, LoginType, EnableType, RememberedType, FactorPageType, ResetVerifyType, ResetType
     DEF Serve

(* Sessions grow old.                                                      *)
LEMMA AgedType ==
  ASSUME NEW s \in Session
  PROVE  /\ Aged(s) \in Session
         /\ Aged(s).verified = s.verified /\ Aged(s).auth = s.auth /\ Aged(s).reset # "verified"
  BY DEF Aged, Session

LEMMA AgedSlow ==
  ASSUME TypeOK, Pending
  PROVE  LET q == [slow EXCEPT !.s = Aged(@)]
         IN  /\ q \in Request
             /\ q.b = slow.b /\ q.s = Aged(slow.s) /\ q.a = slow.a /\ q.fast = slow.fast /\ q.lost = slow.lost
<1>. slow \in Request /\ Aged(slow.s) \in Session
  BY AgedType DEF TypeOK, Pending, Request
<1>. QED
  BY DEF Request

LEMMA ClockType ==
  ASSUME TypeOK, Clock
  PROVE  TypeOK'
<1>1. ASSUME NEW purpose \in Purposes, CodeExpires(purpose) PROVE TypeOK'
  BY <1>1 DEF CodeExpires, TypeOK, history
<1>2. ASSUME NEW b \in Browsers, SessionExpires(b) PROVE TypeOK'
  <2>1. Anonymous \in Session
    BY LoginAssumption DEF Anonymous, Session
  <2>2. slow' \in Request \cup {NoRequest}
    BY <1>2, LostIsRequest DEF SessionExpires, TypeOK, Pending
  <2>3. earned' \in SUBSET Browsers
    BY <1>2 DEF SessionExpires, Restart, TypeOK
  <2>. QED
    BY <1>2, <2>1, <2>2, <2>3 DEF SessionExpires, TypeOK
<1>3. ASSUME NEW b \in Browsers, TokenExpires(b) PROVE TypeOK'
  BY <1>3 DEF TokenExpires, TypeOK, history
<1>4. CASE ResetAges
  <2>1. session' \in [Browsers -> Session]
    <3>1. \A b \in Browsers : Aged(session[b]) \in Session
      BY AgedType DEF TypeOK
    <3>. QED
      BY <1>4, <3>1 DEF ResetAges
  <2>2. slow' \in Request \cup {NoRequest}
    BY <1>4, AgedSlow DEF ResetAges, TypeOK, Pending
  <2>. QED
    BY <1>4, <2>1, <2>2 DEF ResetAges, TypeOK
<1>. QED
  BY <1>1, <1>2, <1>3, <1>4 DEF Clock

LEMMA StepType ==
  ASSUME TypeOK, [Next]_vars
  PROVE  TypeOK'
<1>1. ASSUME NEW r \in Requests, Serve(r) \/ DropSession(r) PROVE TypeOK'
  BY <1>1, ServeType, RememberedType
<1>2. ASSUME NEW b \in Browsers, Begin(b) PROVE TypeOK'
  <2>1. Load(b, FALSE) \in Request
    BY DEF Load, Request, TypeOK
  <2>. QED
    BY <1>2, <2>1 DEF Begin, TypeOK, history
<1>3. CASE SetupOwner
  <2>1. [account EXCEPT !.admin = TRUE, !.twoFactor = TRUE] \in Account
    BY DEF TypeOK, Account
  <2>2. account' \in Account
    BY <1>3, <2>1, NewPasswordType DEF SetupOwner
  <2>. QED
    BY <1>3, <2>2 DEF SetupOwner, TypeOK
<1>4. CASE UNCHANGED vars
  BY <1>4 DEF vars, TypeOK
<1>. QED
  BY <1>1, <1>2, <1>3, <1>4, ClockType DEF Next, Current

LEMMA InitType == Init => TypeOK
<1>. SUFFICES ASSUME Init PROVE TypeOK
  OBVIOUS
<1>1. Anonymous \in Session
  BY LoginAssumption DEF Anonymous, Session
<1>. QED
  BY <1>1 DEF Init, TypeOK

\* Every variable keeps its type, whatever requests and the clock do.
THEOREM TypeCorrect == Spec => []TypeOK
  BY InitType, StepType, PTL DEF Spec

-----------------------------------------------------------------------------
(* The inductive invariant                                                 *)

(* What a request that may be answered entitles its browser to.            *)
LEMMA LoadedFacts ==
  ASSUME TypeOK, LoginInv, NEW r \in Requests
  PROVE  /\ ~ r.lost /\ r.s.verified => r.b \in earned
         /\ ~ Guarded(r.a) => r.b \in earned
         /\ r.a.pw <= account.pw
         /\ ~ undone => r.s.auth <= account.pw
         /\ ~ undone /\ ~ r.lost /\ r.s.auth = account.pw => r.b \in since
         /\ r.s.reset = "verified" => recent
         /\ r.fast => r.a = account
<1>. r.b \in Browsers
  BY RequestType
<1>1. CASE r.fast /\ ~ r.lost /\ r.s = session[r.b] /\ r.a = account
  <2>1. account.pw <= account.pw
    BY DEF TypeOK, Account, Passwords
  <2>. QED
    BY <1>1, <2>1 DEF LoginInv, Earned, Signed, Fresh
<1>2. CASE ~ r.fast /\ r = slow /\ Pending
  BY <1>2 DEF LoginInv, SlowIsOld, Earned, Signed, Fresh
<1>. QED
  BY <1>1, <1>2, RequestIsOneOfTwo DEF LoginInv

\* What the session s that request r saves has to be.
Entitled(r, s) ==
  /\ s.verified => r.b \in earned'
  /\ ~ undone' => s.auth <= account.pw /\ (s.auth = account.pw => r.b \in since')
  /\ s.reset = "verified" => recent'

\* What the step may do besides.
Modest(r) ==
  /\ account'.pw = account.pw \/ (undone' /\ slow' = NoRequest)
  /\ earned \subseteq earned'
  /\ Guarded(account') \/ earned' = Browsers
  /\ undone => undone'
  /\ \A b \in since : b \in since' \/ (b = r.b /\ slow' = NoRequest)
  /\ recent => recent'
  /\ grants' # {} => recent'

(* An answer keeps the invariant if the session that it saves is entitled. *)
LEMMA ServedKeepsInv ==
  ASSUME TypeOK, LoginInv, NEW r \in Requests, NEW s \in Session, Modest(r),
         \/ AnswerAnew(r, s) /\ Entitled(r, s)
         \/ Answer(r, s) /\ (r.lost /\ r.b \in since => r.b \in since') /\ (~ r.lost => Entitled(r, s))
  PROVE  LoginInv'
<1>. r.b \in Browsers
  BY RequestType
<1>1. /\ \A b \in Browsers \ {r.b} : session'[b] = session[b]
      /\ \/ session'[r.b] = s /\ Entitled(r, s)
         \/ session'[r.b] = session[r.b] /\ (r.b \in since => r.b \in since')
      /\ SlowKept
  BY AnswerEffect, AnewEffect DEF SlowKept, Pending
<1>2. SlowIsOld'
  BY <1>1 DEF LoginInv, SlowIsOld, SlowKept, Modest, Pending
<1>3. Earned'
  <2>1. \A b \in Browsers : session'[b].verified => b \in earned'
    BY <1>1 DEF LoginInv, Earned, Modest, Entitled
  <2>2. Pending' => /\ slow'.s.verified /\ ~ slow'.lost => slow'.b \in earned'
                    /\ ~ Guarded(slow'.a) => slow'.b \in earned'
    BY <1>1 DEF LoginInv, Earned, Modest, SlowKept
  <2>. QED
    BY <2>1, <2>2 DEF Earned, Modest, Pending, Guarded
<1>4. Signed'
  <2>. SUFFICES ASSUME ~ undone' PROVE Signed'
    BY DEF Signed
  <2>1. account'.pw = account.pw /\ ~ undone
    BY DEF Modest
  <2>2. \A b \in Browsers : /\ session'[b].auth <= account.pw
                            /\ session'[b].auth = account.pw => b \in since'
    BY <1>1, <2>1 DEF LoginInv, Signed, Modest, Entitled
  <2>3. Pending' => /\ slow'.s.auth <= account.pw
                    /\ slow'.s.auth = account.pw /\ ~ slow'.lost => slow'.b \in since'
    BY <1>1, <2>1 DEF LoginInv, Signed, Modest, SlowKept, Pending
  <2>. QED
    BY <2>1, <2>2, <2>3 DEF Signed, Pending
<1>5. Fresh'
  BY <1>1 DEF LoginInv, Fresh, Modest, Entitled, SlowKept, Pending
<1>. QED
  BY <1>2, <1>3, <1>4, <1>5 DEF LoginInv

(* A page that leaves the user, the password and the second factor of its  *)
(* session alone.                                                          *)
LEMMA PageKeepsInv ==
  ASSUME TypeOK, LoginInv, NEW r \in Requests, NEW s \in Session, Answer(r, s),
         s.verified = r.s.verified, s.auth = r.s.auth,
         s.reset = "verified" => r.s.reset = "verified" \/ recent',
         UNCHANGED <<account, earned, since, undone>>,
         recent => recent', grants' = grants \/ recent'
  PROVE  LoginInv'
<1>1. Modest(r)
  BY DEF LoginInv, Earned, Fresh, Modest, Guarded
<1>2. ~ r.lost => Entitled(r, s)
  BY LoadedFacts DEF Entitled
<1>. QED
  BY <1>1, <1>2, ServedKeepsInv

LEMMA PagesKeepInv ==
  ASSUME TypeOK, LoginInv, NEW r \in Requests,
         \/ \E outcome \in Outcomes :
              \/ SetUpPage(r, outcome) \/ VerifyPage(r, outcome) \/ Resend(r, outcome)
              \/ ResetRequest(r, outcome) \/ ResetResend(r, outcome) \/ ApiRequest(r, outcome)
              \/ AutoLoginGuarded(r, outcome)
              \/ \E remember : LoginGuarded(r, remember, outcome)
         \/ AutoLoginDead(r) \/ DevicePage(r) \/ DisableDevice(r) \/ OtherPage(r)
         \/ ResetVerify(r) \/ ApiVerify(r)
  PROVE  LoginInv'
<1>. r.s \in Session
  BY RequestType
<1>. DEFINE Same(s) == s \in Session /\ s.verified = r.s.verified /\ s.auth = r.s.auth
<1>1. ASSUME NEW outcome \in Outcomes,
             SetUpPage(r, outcome) \/ VerifyPage(r, outcome) \/ Resend(r, outcome) \/ ResetResend(r, outcome)
      PROVE  LoginInv'
  BY <1>1, PageKeepsInv DEF SetUpPage, VerifyPage, Resend, ResetResend, history
<1>2. CASE AutoLoginDead(r) \/ DevicePage(r) \/ DisableDevice(r) \/ OtherPage(r)
  BY <1>2, PageKeepsInv DEF AutoLoginDead, DevicePage, DisableDevice, OtherPage, history
<1>3. ASSUME NEW outcome \in Outcomes, ResetRequest(r, outcome) PROVE LoginInv'
  <2>. DEFINE s == [r.s EXCEPT !.reset = IF @ = "none" THEN "asked" ELSE @]
  <2>1. Same(s) /\ (s.reset = "verified" => r.s.reset = "verified")
    BY DEF Session
  <2>2. Answer(r, s)
    BY <1>3 DEF ResetRequest
  <2>. HIDE DEF s
  <2>. QED
    BY <1>3, <2>1, <2>2, PageKeepsInv DEF ResetRequest, history
<1>4. ASSUME NEW outcome \in Outcomes, ApiRequest(r, outcome) PROVE LoginInv'
  <2>. DEFINE s == [r.s EXCEPT !.asked = @ \/ outcome = "mailed"]
  <2>1. Same(s) /\ s.reset = r.s.reset
    BY DEF Session
  <2>2. Answer(r, s)
    BY <1>4 DEF ApiRequest
  <2>. HIDE DEF s
  <2>. QED
    BY <1>4, <2>1, <2>2, PageKeepsInv DEF ApiRequest, history
<1>5. ASSUME NEW outcome \in Outcomes, AutoLoginGuarded(r, outcome) PROVE LoginInv'
  <2>. DEFINE s == [r.s EXCEPT !.pending = "remember"]
  <2>1. Same(s) /\ s.reset = r.s.reset
    BY DEF Session
  <2>2. Answer(r, s)
    BY <1>5 DEF AutoLoginGuarded
  <2>. HIDE DEF s
  <2>. QED
    BY <1>5, <2>1, <2>2, PageKeepsInv DEF AutoLoginGuarded, history
<1>6. ASSUME NEW outcome \in Outcomes, NEW remember, LoginGuarded(r, remember, outcome) PROVE LoginInv'
  <2>. DEFINE s == [r.s EXCEPT !.pending = IF outcome # "mailed" THEN "no"
                                   ELSE IF remember THEN "remember" ELSE "yes"]
  <2>1. Same(s) /\ s.reset = r.s.reset
    BY DEF Session
  <2>2. Answer(r, s)
    BY <1>6 DEF LoginGuarded
  <2>. HIDE DEF s
  <2>. QED
    BY <1>6, <2>1, <2>2, PageKeepsInv DEF LoginGuarded, history
<1>7. CASE ResetVerify(r) \/ ApiVerify(r)
  <2>. DEFINE s == IF ResetVerify(r) THEN [r.s EXCEPT !.reset = "verified"] ELSE r.s
  <2>1. Same(s)
    BY DEF Session
  <2>2. Answer(r, s) /\ recent' /\ UNCHANGED <<account, earned, since, undone>>
    BY <1>7 DEF ResetVerify, ApiVerify
  <2>. HIDE DEF s
  <2>. QED
    BY <2>1, <2>2, PageKeepsInv
<1>. QED
  BY <1>1, <1>2, <1>3, <1>4, <1>5, <1>6, <1>7

(* Whoever enters a code or a token is verified by right.                  *)
LEMMA EnterKeepsInv ==
  ASSUME TypeOK, LoginInv, NEW r \in Requests, EnableByMail(r) \/ ConfirmDevice(r) \/ EnrolByApi(r)
  PROVE  LoginInv'
<1>. r.s \in Session /\ account \in Account
  BY RequestType DEF TypeOK
<1>. DEFINE s == [r.s EXCEPT !.verified = TRUE]
<1>1. s \in Session /\ s.auth = r.s.auth /\ s.reset = r.s.reset
  BY DEF Session
<1>2. Answer(r, s) /\ earned' = earned \cup {r.b} /\ UNCHANGED <<grants, since, recent, undone>>
  BY DEF EnableByMail, ConfirmDevice, EnrolByApi, Enter
<1>3. account'.pw = account.pw /\ account'.twoFactor
  BY DEF EnableByMail, ConfirmDevice, EnrolByApi, Account
<1>4. Modest(r)
  BY <1>2, <1>3 DEF LoginInv, Fresh, Modest, Guarded
<1>5. ~ r.lost => Entitled(r, s)
  <2>. HIDE DEF s
  <2>. QED
    BY <1>1, <1>2, LoadedFacts DEF Entitled
<1>. HIDE DEF s
<1>. QED
  BY <1>1, <1>2, <1>4, <1>5, ServedKeepsInv

(* The history of who is signed in follows what is saved.                  *)
LEMMA TrustEffect ==
  ASSUME TypeOK, LoginInv, NEW r \in Requests, Trust(r), Pending' => r.fast
  PROVE  /\ ~ Interrupted(r) /\ r.a.pw = account.pw => r.b \in since'
         /\ \A b \in since : b \in since' \/ (b = r.b /\ slow' = NoRequest)
         /\ Interrupted(r) => since' = since
<1>1. CASE Interrupted(r)
  BY <1>1 DEF Trust, Interrupted
<1>2. CASE ~ Interrupted(r) /\ r.a.pw = account.pw
  <2>1. since' = since \cup {r.b}
    BY <1>2 DEF Trust
  <2>. QED
    BY <1>2, <2>1
<1>3. CASE ~ Interrupted(r) /\ r.a.pw # account.pw
  <2>1. since' = since \ {r.b}
    BY <1>3 DEF Trust
  <2>2. slow' = NoRequest
    BY <1>3, LoadedFacts DEF Pending
  <2>. QED
    BY <1>3, <2>1, <2>2
<1>. QED
  BY <1>1, <1>2, <1>3

(* Signing in, where the browser has earned it.                            *)
LEMMA CompleteLoginKeepsInv ==
  ASSUME TypeOK, LoginInv, NEW r \in Requests, NEW s \in Session, NEW remember,
         CompleteLogin(r, s, remember), s.reset = r.s.reset,
         r.b \in earned', earned \subseteq earned',
         account'.pw = account.pw, Guarded(account') \/ earned' = Browsers
  PROVE  LoginInv'
<1>. r.a \in Account /\ r.s \in Session
  BY RequestType
<1>. DEFINE new == SignedInAs(r, s)
<1>1. new \in Session /\ new.auth = r.a.pw /\ new.reset = r.s.reset
  <2>1. r.a.pw \in 0..MaxPasswords /\ r.a.admin \in BOOLEAN
    BY LoginAssumption DEF Account, Passwords
  <2>. QED
    BY <2>1 DEF SignedInAs, Session
<1>2. Pending' => r.fast
  BY <1>1, AnswerEffect, AnewEffect DEF CompleteLogin, SignIn, Pending
<1>3. Modest(r)
  BY <1>2, TrustEffect DEF CompleteLogin, Modest, LoginInv, Fresh
<1>4. ~ Interrupted(r) => Entitled(r, new)
  <2>1. r.a.pw <= account.pw /\ (r.s.reset = "verified" => recent)
    BY LoadedFacts
  <2>2. ~ Interrupted(r) /\ r.a.pw = account.pw => r.b \in since'
    BY <1>2, TrustEffect DEF CompleteLogin
  <2>3. recent' = recent
    BY DEF CompleteLogin
  <2>. HIDE DEF new
  <2>. QED
    BY <1>1, <2>1, <2>2, <2>3 DEF Entitled
<1>5. Interrupted(r) => since' = since
  BY <1>2, TrustEffect DEF CompleteLogin
<1>6. \/ AnswerAnew(r, new) /\ ~ Interrupted(r)
      \/ Answer(r, new) /\ ~ SignedOut(r)
  BY DEF CompleteLogin, SignIn, Interrupted
<1>. HIDE DEF new
<1>. QED
  BY <1>1, <1>3, <1>4, <1>5, <1>6, ServedKeepsInv DEF Interrupted

LEMMA LoginsKeepInv ==
  ASSUME TypeOK, LoginInv, NEW r \in Requests,
         (\E remember : LoginOpen(r, remember)) \/ FinishRegistration(r) \/ Verify(r)
  PROVE  LoginInv'
<1>. r.s \in Session /\ r.b \in Browsers /\ account \in Account
  BY RequestType DEF TypeOK
<1>. Guarded(account) \/ earned = Browsers
  BY DEF LoginInv, Earned
<1>1. ASSUME NEW remember, LoginOpen(r, remember) PROVE LoginInv'
  <2>1. r.b \in earned
    BY <1>1, LoadedFacts DEF LoginOpen
  <2>. QED
    BY <1>1, <2>1, CompleteLoginKeepsInv DEF LoginOpen, Guarded
<1>2. CASE FinishRegistration(r)
  <2>. DEFINE s == [r.s EXCEPT !.registering = FALSE]
  <2>1. s \in Session /\ s.reset = r.s.reset
    BY DEF Session
  <2>2. account'.pw = account.pw /\ account'.twoFactor
    BY <1>2 DEF FinishRegistration, Account
  <2>3. CompleteLogin(r, s, FALSE) /\ earned' = earned \cup {r.b}
    BY <1>2 DEF FinishRegistration, Enter
  <2>. HIDE DEF s
  <2>. QED
    BY <2>1, <2>2, <2>3, CompleteLoginKeepsInv DEF Guarded
<1>3. CASE Verify(r)
  <2>1. CompleteLogin(r, r.s, r.s.pending = "remember")
    BY <1>3 DEF Verify
  <2>2. earned' = earned \cup {r.b} /\ UNCHANGED account
    BY <1>3 DEF Verify, Enter
  <2>3. Guarded(account') \/ earned' = Browsers
    BY <2>2 DEF Guarded, TypeOK
  <2>. QED
    BY <2>1, <2>2, <2>3, CompleteLoginKeepsInv
<1>. QED
  BY <1>1, <1>2, <1>3

(* Being remembered where no second factor is on.                          *)
LEMMA AutoLoginKeepsInv ==
  ASSUME TypeOK, LoginInv, NEW r \in Requests, AutoLoginOpen(r)
  PROVE  LoginInv'
<1>. r.a \in Account /\ r.s \in Session
  BY RequestType
<1>. DEFINE s == [r.s EXCEPT !.auth = r.a.pw]
<1>1. s \in Session /\ s.auth = r.a.pw /\ s.reset = r.s.reset
  <2>1. r.a.pw \in 0..MaxPasswords
    BY LoginAssumption DEF Account, Passwords
  <2>. QED
    BY <2>1 DEF Session
<1>2. AnswerAnew(r, s) /\ Trust(r) /\ ~ Interrupted(r) /\ ~ Guarded(r.a)
      /\ UNCHANGED <<account, grants, earned, recent, undone>>
  BY DEF AutoLoginOpen, Interrupted
<1>. HIDE DEF s
<1>3. Pending' => r.fast
  BY <1>1, <1>2, AnewEffect
<1>4. Modest(r)
  BY <1>2, <1>3, TrustEffect DEF Modest, LoginInv, Fresh, Earned, Guarded
<1>5. Entitled(r, s)
  BY <1>1, <1>2, <1>3, TrustEffect, LoadedFacts DEF Entitled
<1>. QED
  BY <1>1, <1>2, <1>4, <1>5, ServedKeepsInv

(* A new account; a second factor that is turned off with an older row.    *)
LEMMA RelaxKeepsInv ==
  ASSUME TypeOK, LoginInv, NEW r \in Requests,
         (\E outcome \in Outcomes : Register(r, outcome)) \/ Toggle(r)
  PROVE  LoginInv'
<1>. r.a \in Account /\ r.s \in Session /\ account \in Account /\ r.b \in Browsers
  BY RequestType DEF TypeOK
<1>1. ASSUME NEW outcome \in Outcomes, Register(r, outcome) PROVE LoginInv'
  <2>. DEFINE s == [r.s EXCEPT !.registering = TRUE]
  <2>1. s \in Session /\ s.auth = r.s.auth /\ s.reset = r.s.reset /\ s.verified = r.s.verified
    BY DEF Session
  <2>2. Answer(r, s) /\ UNCHANGED <<grants, since, recent, undone>>
    BY <1>1 DEF Register
  <2>3. account'.pw = account.pw /\ Guarded(account') = Guarded(account)
    BY <1>1 DEF Register, Account, Guarded
  <2>4. earned \subseteq earned' /\ (Guarded(account) \/ earned' = Browsers)
    BY <1>1 DEF Register, Relax, TypeOK
  <2>. HIDE DEF s
  <2>5. Modest(r)
    BY <2>2, <2>3, <2>4 DEF Modest, LoginInv, Fresh
  <2>6. ~ r.lost => Entitled(r, s)
    BY <2>1, <2>2, <2>4, LoadedFacts DEF Entitled
  <2>. QED
    BY <2>1, <2>2, <2>5, <2>6, ServedKeepsInv
<1>2. CASE Toggle(r)
  <2>1. Answer(r, r.s) /\ UNCHANGED <<grants, since, recent>>
    BY <1>2 DEF Toggle
  <2>2. account'.pw = r.a.pw /\ (undone' = (undone \/ r.a.pw # account.pw))
    BY <1>2 DEF Toggle, Account
  <2>3. earned \subseteq earned' /\ (Guarded(account') \/ earned' = Browsers)
    BY <1>2 DEF Toggle, Relax, TypeOK
  <2>4. r.a.pw # account.pw => slow' = NoRequest
    BY <2>1, AnswerEffect, LoadedFacts
  <2>5. Modest(r)
    BY <2>1, <2>2, <2>3, <2>4 DEF Modest, LoginInv, Fresh
  <2>6. ~ r.lost => Entitled(r, r.s)
    BY <2>1, <2>2, <2>3, LoadedFacts DEF Entitled
  <2>. QED
    BY <2>1, <2>5, <2>6, ServedKeepsInv
<1>. QED
  BY <1>1, <1>2

(* Signing out, and sessions that are dropped.                             *)
LEMMA LeavingKeepsInv ==
  ASSUME TypeOK, LoginInv, NEW b \in Browsers, Restart(b), since' = since \ {b},
         session' = [session EXCEPT ![b] = Anonymous],
         SlowKept, Pending' /\ slow'.b = b => slow'.lost,
         UNCHANGED <<account, grants, recent, undone>>
  PROVE  LoginInv'
<1>. session \in [Browsers -> Session] /\ earned \subseteq Browsers
  BY DEF TypeOK
<1>1. /\ \A d \in Browsers \ {b} : session'[d] = session[d]
      /\ session'[b] = Anonymous
  OBVIOUS
<1>2. SlowIsOld'
  BY DEF LoginInv, SlowIsOld, SlowKept, Pending
<1>3. Earned'
  <2>1. /\ \A d \in Browsers \ {b} : d \in earned => d \in earned'
        /\ ~ Guarded(account) \/ FoundOpen(b) => earned' = earned \cup {b}
    BY DEF Restart
  <2>2. \A d \in Browsers : session'[d].verified => d \in earned'
    BY <1>1, <2>1 DEF LoginInv, Earned, Anonymous
  <2>3. Pending' /\ slow'.s.verified /\ ~ slow'.lost => slow'.b \in earned'
    BY <2>1 DEF LoginInv, Earned, SlowKept, TypeOK, Pending, Request
  <2>4. Pending' /\ ~ Guarded(slow'.a) => slow'.b \in earned'
    BY <2>1 DEF LoginInv, Earned, SlowKept, TypeOK, Pending, Request, FoundOpen
  <2>5. ~ Guarded(account) => earned' = Browsers
    BY <2>1 DEF LoginInv, Earned
  <2>. QED
    BY <2>2, <2>3, <2>4, <2>5 DEF Earned, Pending, Guarded
<1>4. Signed'
  <2>. SUFFICES ASSUME ~ undone PROVE Signed'
    BY DEF Signed
  <2>1. account.pw \in Nat \ {0}
    BY LoginAssumption DEF TypeOK, Account, Passwords
  <2>2. \A d \in Browsers : /\ session'[d].auth <= account.pw
                            /\ session'[d].auth = account.pw => d \in since'
    BY <1>1, <2>1 DEF LoginInv, Signed, Anonymous
  <2>3. Pending' => /\ slow'.s.auth <= account.pw
                    /\ slow'.s.auth = account.pw /\ ~ slow'.lost => slow'.b \in since'
    BY DEF LoginInv, Signed, SlowKept, Pending
  <2>. QED
    BY <2>2, <2>3 DEF Signed, Pending
<1>5. Fresh'
  BY <1>1 DEF LoginInv, Fresh, SlowKept, Pending, Anonymous
<1>. QED
  BY <1>2, <1>3, <1>4, <1>5 DEF LoginInv

LEMMA FlushKeepsInv ==
  ASSUME TypeOK, LoginInv, NEW r \in Requests, Flush(r)
  PROVE  LoginInv'
<1>. r.b \in Browsers /\ Anonymous \in Session
  BY RequestType, LoginAssumption DEF Anonymous, Session
<1>1. SlowKept /\ (Pending' /\ slow'.b = r.b => slow'.lost)
  BY AnewEffect DEF Flush
<1>2. session' = [session EXCEPT ![r.b] = Anonymous]
  BY DEF Flush, AnswerAnew
<1>. QED
  BY <1>1, <1>2, LeavingKeepsInv DEF Flush

LEMMA ExpiryKeepsInv ==
  ASSUME TypeOK, LoginInv, NEW b \in Browsers, SessionExpires(b)
  PROVE  LoginInv'
<1>1. SlowKept /\ (Pending' /\ slow'.b = b => slow'.lost)
  <2>1. CASE Pending /\ slow.b = b
    BY <2>1, LostIsRequest DEF SessionExpires, SlowKept, Pending
  <2>2. CASE ~ (Pending /\ slow.b = b)
    BY <2>2 DEF SessionExpires, SlowKept, Pending
  <2>. QED
    BY <2>1, <2>2
<1>. QED
  BY <1>1, LeavingKeepsInv DEF SessionExpires

(* The password is new: no session, saved or loaded, has it yet.           *)
LEMMA NewPasswordKeepsInv ==
  ASSUME TypeOK, LoginInv, account'.pw = account.pw + 1,
         since' = {}, session' \in [Browsers -> Session], SlowKept, UNCHANGED <<recent, undone>>,
         grants' \subseteq grants, earned \subseteq earned',
         Guarded(account') \/ earned' = Browsers,
         \A b \in Browsers : /\ session'[b].verified => b \in earned'
                             /\ ~ undone => session'[b].auth <= account.pw
                             /\ session'[b].reset = "verified" => recent
  PROVE  LoginInv'
<1>. account.pw \in Nat
  BY LoginAssumption DEF TypeOK, Account, Passwords
<1>1. SlowIsOld'
  <2>1. Pending => slow.a.pw \in Nat
    BY LoginAssumption DEF TypeOK, Pending, Request, Account, Passwords
  <2>. QED
    BY <2>1 DEF LoginInv, SlowIsOld, SlowKept, Pending
<1>2. Earned'
  <2>1. Pending' => /\ slow'.s.verified /\ ~ slow'.lost => slow'.b \in earned'
                    /\ ~ Guarded(slow'.a) => slow'.b \in earned'
    BY DEF LoginInv, Earned, SlowKept
  <2>. QED
    BY <2>1 DEF Earned, Pending, Guarded
<1>3. Signed'
  <2>. SUFFICES ASSUME ~ undone PROVE Signed'
    BY DEF Signed
  <2>1. Pending => slow.s.auth \in Nat /\ slow.s.auth <= account.pw
    BY LoginAssumption DEF LoginInv, Signed, TypeOK, Pending, Request, Session
  <2>2. Pending' => slow'.s.auth \in Nat /\ slow'.s.auth <= account.pw
    BY <2>1 DEF SlowKept
  <2>3. ASSUME NEW b \in Browsers, session'[b].auth <= account.pw
        PROVE  session'[b].auth <= account.pw + 1 /\ session'[b].auth # account.pw + 1
    <3>1. session'[b].auth \in Nat
      BY DEF Session
    <3>. QED
      BY <2>3, <3>1
  <2>. QED
    BY <2>2, <2>3 DEF Signed, Pending
<1>4. Fresh'
  BY DEF LoginInv, Fresh, SlowKept, Pending
<1>. QED
  BY <1>1, <1>2, <1>3, <1>4 DEF LoginInv

LEMMA ResetKeepsInv ==
  ASSUME TypeOK, LoginInv, NEW r \in Requests, NEW deleted \in BOOLEAN,
         ResetConfirm(r, deleted) \/ ApiConfirm(r, deleted)
  PROVE  LoginInv'
<1>. r.s \in Session /\ r.b \in Browsers
  BY RequestType
<1>1. PICK mine \in Session : /\ Reset(r, mine, deleted)
                              /\ mine.verified = r.s.verified /\ mine.auth = r.s.auth
                              /\ mine.reset = "verified" => r.s.reset = "verified"
  <2>1. CASE ResetConfirm(r, deleted)
    <3>. DEFINE s == [r.s EXCEPT !.reset = "none"]
    <3>1. s \in Session /\ s.verified = r.s.verified /\ s.auth = r.s.auth /\ s.reset = "none"
      BY DEF Session
    <3>2. Reset(r, s, deleted)
      BY <2>1 DEF ResetConfirm
    <3>. HIDE DEF s
    <3>. QED
      BY <3>1, <3>2
  <2>2. CASE ApiConfirm(r, deleted)
    BY <2>2 DEF ApiConfirm
  <2>. QED
    BY <2>1, <2>2
<1>2. /\ StoresType /\ SlowKept /\ account'.pw = account.pw + 1
      /\ \A b \in Browsers : \/ session'[b] = Anonymous
                             \/ session'[b] = session[b]
                             \/ b = r.b /\ ~ r.lost /\ session'[b] = mine
  BY <1>1, ResetEffect
<1>3. since' = {} /\ UNCHANGED <<recent, undone>> /\ Relax(account')
  BY <1>1 DEF Reset
<1>4. earned \subseteq earned' /\ (Guarded(account') \/ earned' = Browsers)
  BY <1>3 DEF Relax, TypeOK
<1>5. grants' \subseteq grants
  BY DEF ResetConfirm, ApiConfirm
<1>6. ASSUME NEW b \in Browsers
      PROVE  /\ session'[b].verified => b \in earned'
             /\ ~ undone => session'[b].auth <= account.pw
             /\ session'[b].reset = "verified" => recent
  <2>1. CASE session'[b] = Anonymous
    <3>1. account.pw \in Nat
      BY LoginAssumption DEF TypeOK, Account, Passwords
    <3>. QED
      BY <2>1, <3>1 DEF Anonymous
  <2>2. CASE session'[b] = session[b]
    BY <1>4, <2>2 DEF LoginInv, Earned, Signed, Fresh
  <2>3. CASE b = r.b /\ ~ r.lost /\ session'[b] = mine
    BY <1>1, <1>4, <2>3, LoadedFacts
  <2>. QED
    BY <1>2, <2>1, <2>2, <2>3
<1>. QED
  BY <1>2, <1>3, <1>4, <1>5, <1>6, NewPasswordKeepsInv DEF StoresType

LEMMA OwnerKeepsInv ==
  ASSUME TypeOK, LoginInv, SetupOwner
  PROVE  LoginInv'
<1>1. account'.pw = account.pw + 1 /\ account'.twoFactor
  <2>. DEFINE a == [account EXCEPT !.admin = TRUE, !.twoFactor = TRUE]
  <2>1. a \in Account /\ a.twoFactor
    BY DEF TypeOK, Account
  <2>2. NewPassword(a)
    BY DEF SetupOwner
  <2>. HIDE DEF a
  <2>3. account' = [a EXCEPT !.pw = account.pw + 1]
    BY <2>2 DEF NewPassword
  <2>. QED
    BY <2>1, <2>3 DEF Account
<1>2. SlowKept
  BY DEF SetupOwner, SlowKept, Pending
<1>3. \A b \in Browsers : /\ session[b].verified => b \in earned
                          /\ ~ undone => session[b].auth <= account.pw
                          /\ session[b].reset = "verified" => recent
  BY DEF LoginInv, Earned, Signed, Fresh
<1>. QED
  BY <1>1, <1>2, <1>3, NewPasswordKeepsInv DEF SetupOwner, Guarded, TypeOK

(* A request begins; the clock runs.                                       *)
LEMMA BeginKeepsInv ==
  ASSUME TypeOK, LoginInv, NEW b \in Browsers, Begin(b)
  PROVE  LoginInv'
<1>1. /\ slow'.b = b /\ slow'.s = session[b] /\ slow'.a = account /\ ~ slow'.fast
      /\ UNCHANGED <<account, session, grants, history>>
  BY DEF Begin, Load
<1>2. account.pw <= account.pw
  BY DEF TypeOK, Account, Passwords
<1>. QED
  BY <1>1, <1>2 DEF LoginInv, SlowIsOld, Earned, Signed, Fresh, Pending, Guarded, history

LEMMA AgesKeepInv ==
  ASSUME TypeOK, LoginInv, ResetAges
  PROVE  LoginInv'
<1>1. \A b \in Browsers : /\ session'[b].verified = session[b].verified
                          /\ session'[b].auth = session[b].auth
                          /\ session'[b].reset # "verified"
  BY AgedType DEF ResetAges, TypeOK
<1>2. Pending' => /\ Pending /\ slow'.b = slow.b /\ slow'.a = slow.a
                  /\ slow'.fast = slow.fast /\ slow'.lost = slow.lost
                  /\ slow'.s.verified = slow.s.verified /\ slow'.s.auth = slow.s.auth
                  /\ slow'.s.reset # "verified"
  <2>1. CASE Pending
    <3>1. slow.s \in Session
      BY <2>1 DEF TypeOK, Pending, Request
    <3>. QED
      BY <2>1, <3>1, AgedSlow, AgedType DEF ResetAges, Pending
  <2>2. CASE ~ Pending
    BY <2>2 DEF ResetAges, Pending
  <2>. QED
    BY <2>1, <2>2
<1>3. UNCHANGED <<account, earned, since, undone>> /\ grants' = {}
  BY DEF ResetAges
<1>4. SlowIsOld' /\ Fresh'
  BY <1>1, <1>2, <1>3 DEF LoginInv, SlowIsOld, Fresh, Pending
<1>5. Earned'
  BY <1>1, <1>2, <1>3 DEF LoginInv, Earned, Pending, Guarded
<1>6. Signed'
  BY <1>1, <1>2, <1>3 DEF LoginInv, Signed, Pending
<1>. QED
  BY <1>4, <1>5, <1>6 DEF LoginInv

LEMMA ServeKeepsInv ==
  ASSUME TypeOK, LoginInv, NEW r \in Requests, Serve(r)
  PROVE  LoginInv'
<1>1. ASSUME NEW outcome \in Outcomes, Mailing(r, outcome) PROVE LoginInv'
  BY <1>1, PagesKeepInv, RelaxKeepsInv DEF Mailing
<1>2. CASE Login(r)
  <2>1. PICK remember \in {FALSE, On("remember")} :
            LoginOpen(r, remember) \/ \E outcome \in Outcomes : LoginGuarded(r, remember, outcome)
    BY <1>2 DEF Login
  <2>. QED
    BY <2>1, LoginsKeepInv, PagesKeepInv
<1>3. CASE AutoLogin(r)
  BY <1>3, AutoLoginKeepsInv, PagesKeepInv DEF AutoLogin
<1>4. CASE Logout(r)
  BY <1>4, FlushKeepsInv DEF Logout
<1>. QED
  BY <1>1, <1>2, <1>3, <1>4, LoginsKeepInv, EnterKeepsInv, PagesKeepInv, RelaxKeepsInv, ResetKeepsInv
     DEF Serve

LEMMA StepKeepsInv ==
  ASSUME TypeOK, LoginInv, [Next]_vars
  PROVE  LoginInv'
<1>1. ASSUME NEW r \in Requests, Serve(r) PROVE LoginInv'
  BY <1>1, ServeKeepsInv
<1>2. ASSUME NEW r \in Requests, DropSession(r) PROVE LoginInv'
  BY <1>2, FlushKeepsInv DEF DropSession
<1>3. CASE UNCHANGED <<account, session, grants, slow, history>>
  BY <1>3 DEF LoginInv, SlowIsOld, Earned, Signed, Fresh, Pending, Guarded, history
<1>4. CASE Clock
  BY <1>3, <1>4, ExpiryKeepsInv, AgesKeepInv DEF Clock, CodeExpires, TokenExpires
<1>. QED
  BY <1>1, <1>2, <1>3, <1>4, OwnerKeepsInv, BeginKeepsInv DEF Next, Current, vars, history

LEMMA InitInv == Init => LoginInv
<1>. SUFFICES ASSUME Init PROVE LoginInv
  OBVIOUS
<1>1. account.pw = 1 /\ session = [b \in Browsers |-> Anonymous] /\ ~ Pending
  BY DEF Init, Pending
<1>. QED
  BY <1>1 DEF Init, LoginInv, SlowIsOld, Earned, Signed, Fresh, Anonymous, Pending

-----------------------------------------------------------------------------
(* Theorems                                                                *)

LEMMA LoginInvariant == Spec => [](TypeOK /\ LoginInv)
  BY InitType, StepType, InitInv, StepKeepsInv, PTL DEF Spec

\* While the second factor is on, no session is verified in which no code or
\* token was entered, whatever the slow request of an owner loaded and whenever
\* it is answered. (_complete_login, setup_2fa_view, auto_login_view)
THEOREM OnlyEarnedIsVerified == Spec => []VerifiedIsEarned
<1>1. LoginInv => VerifiedIsEarned
  BY DEF LoginInv, Earned, VerifiedIsEarned
<1>. QED
  BY <1>1, LoginInvariant, PTL

\* After a reset no browser is served that has not signed in since, unless an
\* older row was saved over the new password. (password_reset_confirm_view)
THEOREM ResetSignsOut == Spec => []SignedOutByReset
<1>1. LoginInv => SignedOutByReset
  BY DEF LoginInv, Signed, SignedOutByReset
<1>. QED
  BY <1>1, LoginInvariant, PTL

\* But for the administrator's command, the password only changes within five
\* minutes of a code being accepted. (reset_verified_at)
THEOREM ResetNeedsCode == Spec => ResetByCode
<1>1. TypeOK /\ LoginInv /\ [Next]_vars => [account'.pw > account.pw => recent \/ SetupOwner]_vars
  <2>. SUFFICES ASSUME TypeOK, LoginInv, [Next]_vars, account'.pw > account.pw
                PROVE  recent \/ SetupOwner
    OBVIOUS
  <2>. account \in Account /\ account.pw \in Nat
    BY LoginAssumption DEF TypeOK, Account, Passwords
  <2>1. account' # account /\ account'.pw # account.pw
    OBVIOUS
  <2>2. ASSUME NEW r \in Requests, Serve(r) PROVE recent
    <3>. r.a \in Account
      BY RequestType
    <3>1. \/ FinishRegistration(r) \/ EnableByMail(r) \/ ConfirmDevice(r) \/ EnrolByApi(r) \/ Toggle(r)
          \/ \E outcome \in Outcomes : Register(r, outcome)
          \/ \E deleted \in BOOLEAN : ResetConfirm(r, deleted) \/ ApiConfirm(r, deleted)
      BY <2>1, <2>2
         DEF Serve, Mailing, SetUpPage, VerifyPage, Resend, ResetRequest, ResetResend, ApiRequest,
             Login, LoginOpen, LoginGuarded, Verify, AutoLogin, AutoLoginOpen, AutoLoginDead,
             AutoLoginGuarded, Logout, Flush, DevicePage, DisableDevice, ResetVerify, ApiVerify, OtherPage
    <3>2. ~ (FinishRegistration(r) \/ EnableByMail(r) \/ ConfirmDevice(r) \/ EnrolByApi(r))
      BY <2>1 DEF FinishRegistration, EnableByMail, ConfirmDevice, EnrolByApi, Account
    <3>3. ~ \E outcome \in Outcomes : Register(r, outcome)
      BY <2>1 DEF Register, Account
    <3>4. ~ Toggle(r)
      <4>1. r.a.pw <= account.pw /\ r.a.pw \in Nat
        BY LoadedFacts, LoginAssumption DEF Account, Passwords
      <4>2. Toggle(r) => account'.pw = r.a.pw
        BY DEF Toggle, Account
      <4>. QED
        BY <4>1, <4>2
    <3>5. ASSUME NEW deleted \in BOOLEAN, ResetConfirm(r, deleted) \/ ApiConfirm(r, deleted) PROVE recent
      BY <3>5, LoadedFacts DEF ResetConfirm, ApiConfirm, MayReset, LoginInv, Fresh
    <3>. QED
      BY <3>1, <3>2, <3>3, <3>4, <3>5
  <2>. QED
    BY <2>1, <2>2 DEF Next, Current, DropSession, Flush, Begin, Clock, CodeExpires, SessionExpires,
         TokenExpires, ResetAges, vars
<1>. QED
  BY <1>1, LoginInvariant, PTL DEF Spec, ResetByCode

=============================================================================
