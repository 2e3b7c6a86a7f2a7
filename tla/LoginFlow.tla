------------------------------ MODULE LoginFlow ------------------------------
(***************************************************************************)
(* Signing in with a second factor, being remembered, and resetting the    *)
(* password: the views of views.py and api_views.py that read and write    *)
(* the session, for one account and the browsers of its owner.             *)
(*                                                                         *)
(* A request loads the session and the user's row when it begins, and      *)
(* saves the session whole when it ends (SESSION_SAVE_EVERY_REQUEST).      *)
(* Requests are answered at once, but for one slow request, which works    *)
(* with what it loaded before the others.  A code is abstracted to its     *)
(* purpose: OtpService is about the codes themselves.  The password that   *)
(* the owner enters is right; attempts that are refused change nothing.    *)
(***************************************************************************)
EXTENDS Naturals, FiniteSets

CONSTANTS
  Browsers,      \* the browsers of the account's owner
  Patient,       \* the browsers at which the owner does not give up
  Scopes,        \* the groups of views that may be used together in a behaviour
  MaxPasswords   \* bound: passwords the account has in a behaviour

ASSUME LoginAssumption ==
  /\ IsFiniteSet(Browsers)
  /\ Patient \subseteq Browsers
  /\ Scopes \subseteq SUBSET {"register", "setup", "device", "remember", "admin", "reset", "api"}
  /\ MaxPasswords \in Nat \ {0}

VARIABLES
  account,  \* the user's row
  device,   \* the TOTPDevice of the user
  code,     \* the purposes for which a live code is in the owner's mailbox
  session,  \* session[b]: the session that browser b's cookie names
  cookie,   \* cookie[b]: the remember-me cookie of b and its token
  grants,   \* browsers with a pwd_reset_verified token in the cache
  slow,     \* the request that is being answered slowly, if there is one
  scope,    \* the views that this behaviour is about
  earned,   \* history: browsers that entered a code, or could go without one
  since,    \* history: browsers signed in under the password in force
  recent,   \* history: a code for a reset was accepted, not too long ago
  undone    \* history: a whole row put an older password back

vars == <<account, device, code, session, cookie, grants, slow, scope, earned, since, recent, undone>>

history == <<earned, since, recent, undone>>

Purposes  == {"email_verify", "2fa", "password_reset"}
Passwords == 1..MaxPasswords

Account == [exists : BOOLEAN, twoFactor : BOOLEAN, emailVerified : BOOLEAN,
            admin : BOOLEAN, pw : Passwords]

\* auth: _auth_user_id with the hash of the password it was made under, or 0.
Session == [auth : 0..MaxPasswords, verified : BOOLEAN, admin : BOOLEAN,
            pending : {"no", "yes", "remember"}, registering : BOOLEAN,
            reset : {"none", "asked", "verified", "stale"}, asked : BOOLEAN]

Anonymous == [auth |-> 0, verified |-> FALSE, admin |-> FALSE, pending |-> "no",
              registering |-> FALSE, reset |-> "none", asked |-> FALSE]

\* What a request loaded; lost: the session it loaded has been replaced.
Request == [b : Browsers, s : Session, a : Account, fast : BOOLEAN, lost : BOOLEAN]

NoRequest == [fast |-> TRUE]

\* The requests that may be answered now.
Load(b, fast) == [b |-> b, s |-> session[b], a |-> account, fast |-> fast, lost |-> FALSE]
Requests      == {Load(b, TRUE) : b \in Browsers} \cup ({slow} \ {NoRequest})

On(part) == part \in scope

-----------------------------------------------------------------------------
(* Sessions                                                                *)

\* get_user: a session made under another password is flushed.
Outdated(r)      == r.s.auth \notin {0, r.a.pw}
Authenticated(r) == r.s.auth = r.a.pw
SignedOut(r)     == r.s.auth = 0

\* A user who has to show a second factor.
Guarded(a) == a.twoFactor \/ a.admin

\* TwoFactorSessionMiddleware, for a path that is not exempt.
Passes(r) ==
  /\ r.s.verified \/ r.s.pending = "no"
  /\ r.s.verified \/ ~ (Authenticated(r) /\ Guarded(r.a))

Without(r, q) == IF r.fast THEN q ELSE NoRequest

\* The response is sent and the session saved, unless its row is gone.
Answer(r, s) ==
  /\ session' = [session EXCEPT ![r.b] = IF r.lost THEN @ ELSE s]
  /\ slow' = Without(r, slow)

\* ... under a new key: what other requests loaded is not saved any more.
AnswerAnew(r, s) ==
  /\ session' = [session EXCEPT ![r.b] = s]
  /\ slow' = Without(r, IF slow # NoRequest /\ slow.b = r.b THEN [slow EXCEPT !.lost = TRUE] ELSE slow)

\* The session is gone, and the answer is an error.
Interrupted(r) == r.lost /\ ~ SignedOut(r)

\* django's login keeps the key of a user who is signed in already.
SignIn(r, s) == IF SignedOut(r) THEN AnswerAnew(r, s) ELSE Answer(r, s)

\* What the history remembers: a slow request may have found an open account.
FoundOpen(b)     == slow # NoRequest /\ slow.b = b /\ ~ Guarded(slow.a)
Enter(b)         == earned' = earned \cup {b}
Restart(b)       == earned' = IF Guarded(account) /\ ~ FoundOpen(b) THEN earned \ {b} ELSE earned \cup {b}
Relax(a)         == earned' = IF Guarded(a) THEN earned ELSE Browsers
Trust(r)         == since' = IF Interrupted(r) THEN since
                             ELSE IF r.a.pw = account.pw THEN since \cup {r.b}
                             ELSE since \ {r.b}

\* _issue_email_otp: refused by the limit; the mail fails and what there was is
\* void; or a code arrives.
Outcomes == {"refused", "failed", "mailed"}

Issue(purpose, outcome) ==
  code' = CASE outcome = "refused" -> code
            [] outcome = "failed"  -> code \ {purpose}
            [] outcome = "mailed"  -> code \cup {purpose}

\* consume_otp with the code that is in the mailbox.
Consume(purpose) == purpose \in code /\ code' = code \ {purpose}

-----------------------------------------------------------------------------
(* Signing in                                                              *)

\* Mutant: the user is read again before the session is made.
SignedInRefreshed(r, s) ==
  [s EXCEPT !.auth = account.pw, !.verified = TRUE, !.admin = r.a.admin, !.pending = "no"]

SignedInAs(r, s) ==
  [s EXCEPT !.auth = r.a.pw, !.verified = TRUE, !.admin = r.a.admin, !.pending = "no"]

\* _complete_login.
CompleteLogin(r, s, remember) ==
  /\ SignIn(r, SignedInAs(r, s))
  /\ cookie' = IF remember /\ ~ Interrupted(r) THEN [cookie EXCEPT ![r.b] = "live"] ELSE cookie
  /\ Trust(r)
  /\ UNCHANGED <<device, grants, scope, recent, undone>>

\* register_view, of which the first code is a part.
Register(r, outcome) ==
  /\ On("register")
  /\ SignedOut(r)
  /\ ~ account.exists
  /\ account' = [account EXCEPT !.exists = TRUE]
  /\ Issue("email_verify", outcome)
  /\ Answer(r, [r.s EXCEPT !.registering = TRUE])
  /\ Relax(account)
  /\ UNCHANGED <<device, cookie, grants, scope, since, recent, undone>>

\* login_view with the right password.
LoginGuarded(r, remember, outcome) ==
  /\ SignedOut(r)
  /\ r.a.exists /\ Guarded(r.a)
  /\ Issue("2fa", outcome)
  /\ Answer(r, [r.s EXCEPT !.pending = IF outcome # "mailed" THEN "no"
                                      ELSE IF remember THEN "remember" ELSE "yes"])
  /\ UNCHANGED <<account, device, cookie, grants, scope, history>>

LoginOpen(r, remember) ==
  /\ SignedOut(r)
  /\ r.a.exists /\ ~ Guarded(r.a)
  /\ CompleteLogin(r, r.s, remember)
  /\ UNCHANGED <<account, code, earned, undone>>

Login(r) ==
  \E remember \in {FALSE, On("remember")} :
     LoginOpen(r, remember) \/ \E outcome \in Outcomes : LoginGuarded(r, remember, outcome)

\* setup_2fa_view: who it is about, and the purpose of the code.
SetUp(r) ==
  /\ On("setup")
  /\ ~ r.a.twoFactor
  /\ r.s.registering \/ Authenticated(r)

SetUpPurpose(r) == IF r.s.registering THEN "email_verify" ELSE "2fa"

SetUpPage(r, outcome) ==
  /\ SetUp(r)
  /\ SetUpPurpose(r) \notin code
  /\ Issue(SetUpPurpose(r), outcome)
  /\ Answer(r, r.s)
  /\ UNCHANGED <<account, device, cookie, grants, scope, history>>

FinishRegistration(r) ==
  /\ SetUp(r) /\ r.s.registering
  /\ Consume("email_verify")
  /\ account' = [account EXCEPT !.twoFactor = TRUE, !.emailVerified = TRUE]
  /\ CompleteLogin(r, [r.s EXCEPT !.registering = FALSE], FALSE)
  /\ Enter(r.b)

EnableByMail(r) ==
  /\ SetUp(r) /\ ~ r.s.registering
  /\ Consume("2fa")
  /\ account' = [account EXCEPT !.twoFactor = TRUE]
  /\ Answer(r, [r.s EXCEPT !.verified = TRUE])
  /\ Enter(r.b)
  /\ UNCHANGED <<device, cookie, grants, scope, since, recent, undone>>

\* verify_2fa_view: for a user who is signed in or is waited for.
Verifiable(r) ==
  /\ Authenticated(r) \/ (SignedOut(r) /\ r.s.pending # "no")
  /\ Guarded(r.a)

VerifyPage(r, outcome) ==
  /\ On("setup")
  /\ Verifiable(r)
  /\ r.s.pending # "no" /\ device # "confirmed" /\ "2fa" \notin code
  /\ Issue("2fa", outcome)
  /\ Answer(r, r.s)
  /\ UNCHANGED <<account, device, cookie, grants, scope, history>>

Verify(r) ==
  /\ Verifiable(r)
  /\ Consume("2fa") \/ (device = "confirmed" /\ UNCHANGED code)
  /\ CompleteLogin(r, r.s, r.s.pending = "remember")
  /\ Enter(r.b)
  /\ UNCHANGED account

\* Mutant: a user who is signed in and not verified is not sent a code.
ResendPendingOnly(r, outcome) ==
  /\ On("setup")
  /\ r.s.pending # "no" \/ r.s.registering
  /\ Issue(SetUpPurpose(r), outcome)
  /\ Answer(r, r.s)
  /\ UNCHANGED <<account, device, cookie, grants, scope, history>>

\* resend_otp_view.
Resend(r, outcome) ==
  /\ On("setup")
  /\ \/ r.s.pending # "no" \/ r.s.registering
     \/ Authenticated(r) /\ r.a.twoFactor /\ ~ r.s.verified
  /\ Issue(SetUpPurpose(r), outcome)
  /\ Answer(r, r.s)
  /\ UNCHANGED <<account, device, cookie, grants, scope, history>>

-----------------------------------------------------------------------------
(* Being remembered, and signing out                                       *)

AutoLoginGuarded(r, outcome) ==
  /\ SignedOut(r) /\ cookie[r.b] = "live" /\ Guarded(r.a)
  /\ IF "2fa" \in code THEN UNCHANGED code ELSE Issue("2fa", outcome)
  /\ Answer(r, [r.s EXCEPT !.pending = "remember"])
  /\ UNCHANGED <<account, device, cookie, grants, scope, history>>

\* Mutant: a remembered user is taken for verified.
AutoLoginVerified(r) ==
  /\ SignedOut(r) /\ cookie[r.b] = "live"
  /\ AnswerAnew(r, [r.s EXCEPT !.auth = r.a.pw, !.verified = TRUE])
  /\ Trust(r)
  /\ UNCHANGED <<account, device, code, cookie, grants, scope, earned, recent, undone>>

AutoLoginOpen(r) ==
  /\ SignedOut(r) /\ cookie[r.b] = "live" /\ ~ Guarded(r.a)
  /\ AnswerAnew(r, [r.s EXCEPT !.auth = r.a.pw])
  /\ Trust(r)
  /\ UNCHANGED <<account, device, code, cookie, grants, scope, earned, recent, undone>>

AutoLoginDead(r) ==
  /\ SignedOut(r) /\ cookie[r.b] = "dead"
  /\ cookie' = [cookie EXCEPT ![r.b] = "none"]
  /\ Answer(r, r.s)
  /\ UNCHANGED <<account, device, code, grants, scope, history>>

\* auto_login_view.
AutoLogin(r) ==
  /\ On("remember")
  /\ AutoLoginOpen(r) \/ AutoLoginDead(r) \/ \E outcome \in Outcomes : AutoLoginGuarded(r, outcome)

Flush(r) ==
  /\ AnswerAnew(r, Anonymous)
  /\ Restart(r.b)
  /\ since' = since \ {r.b}
  /\ UNCHANGED <<account, device, code, grants, scope, recent, undone>>

\* logout_view; the administration's logout does the same.
Logout(r) ==
  /\ Authenticated(r)
  /\ cookie' = [cookie EXCEPT ![r.b] = "none"]
  /\ Flush(r)

\* get_user flushes a session of another password.
DropSession(r) ==
  /\ Outdated(r)
  /\ Flush(r)
  /\ UNCHANGED cookie

-----------------------------------------------------------------------------
(* Choosing the second factor                                              *)

\* setup_authenticator_view makes the device when it is first shown.
DevicePage(r) ==
  /\ On("device")
  /\ Authenticated(r) /\ Passes(r) /\ device = "none"
  /\ device' = "new"
  /\ Answer(r, r.s)
  /\ UNCHANGED <<account, code, cookie, grants, scope, history>>

\* ... and enables it with its first token.
ConfirmDevice(r) ==
  /\ Authenticated(r) /\ Passes(r) /\ device = "new"
  /\ device' = "confirmed"
  /\ account' = [account EXCEPT !.twoFactor = TRUE]
  /\ Answer(r, [r.s EXCEPT !.verified = TRUE])
  /\ Enter(r.b)
  /\ UNCHANGED <<code, cookie, grants, scope, since, recent, undone>>

\* setup_totp_api_view makes another device if there is one.
EnrolByApi(r) ==
  /\ On("device")
  /\ Authenticated(r) /\ Passes(r)
  /\ device' = "confirmed"
  /\ account' = [account EXCEPT !.twoFactor = TRUE]
  /\ Answer(r, [r.s EXCEPT !.verified = TRUE])
  /\ Enter(r.b)
  /\ UNCHANGED <<code, cookie, grants, scope, since, recent, undone>>

\* disable_authenticator_view leaves the second factor on: codes go by mail.
DisableDevice(r) ==
  /\ Authenticated(r) /\ Passes(r) /\ device # "none"
  /\ device' = "none"
  /\ Answer(r, r.s)
  /\ UNCHANGED <<account, code, cookie, grants, scope, history>>

\* toggle_2fa_view saves the whole row as the request loaded it.
Toggle(r) ==
  /\ Authenticated(r) /\ Passes(r) /\ r.a.twoFactor
  /\ account' = [r.a EXCEPT !.twoFactor = FALSE]
  /\ code' = code \ {"2fa"}
  /\ Answer(r, r.s)
  /\ Relax(account')
  /\ undone' = (undone \/ r.a.pw # account.pw)
  /\ UNCHANGED <<device, cookie, grants, scope, since, recent>>

-----------------------------------------------------------------------------
(* Resetting the password                                                  *)

Recover(r) == SignedOut(r) /\ r.a.exists

\* password_reset_request_view: what an earlier code allowed stays allowed.
ResetRequest(r, outcome) ==
  /\ On("reset") /\ Recover(r)
  /\ Issue("password_reset", outcome)
  /\ Answer(r, [r.s EXCEPT !.reset = IF @ = "none" THEN "asked" ELSE @])
  /\ UNCHANGED <<account, device, cookie, grants, scope, history>>

\* resend_reset_otp_view.
ResetResend(r, outcome) ==
  /\ Recover(r) /\ r.s.reset # "none"
  /\ Issue("password_reset", outcome)
  /\ Answer(r, r.s)
  /\ UNCHANGED <<account, device, cookie, grants, scope, history>>

\* password_reset_verify_view.
ResetVerify(r) ==
  /\ Recover(r)
  /\ r.s.reset # "none"
  /\ Consume("password_reset")
  /\ Answer(r, [r.s EXCEPT !.reset = "verified"])
  /\ recent' = TRUE
  /\ UNCHANGED <<account, device, cookie, grants, scope, earned, since, undone>>

\* api_password_reset_request: the reset token is made when the mail is out.
ApiRequest(r, outcome) ==
  /\ On("api") /\ r.a.exists
  /\ Issue("password_reset", outcome)
  /\ Answer(r, [r.s EXCEPT !.asked = @ \/ outcome = "mailed"])
  /\ UNCHANGED <<account, device, cookie, grants, scope, history>>

ApiVerify(r) ==
  /\ r.s.asked
  /\ Consume("password_reset")
  /\ grants' = grants \cup {r.b}
  /\ Answer(r, r.s)
  /\ recent' = TRUE
  /\ UNCHANGED <<account, device, cookie, scope, earned, since, undone>>

\* Mutant: the age of the verification is not looked at.
MayResetLater(r) == Recover(r) /\ r.s.reset \in {"verified", "stale"}

MayReset(r) == Recover(r) /\ r.s.reset = "verified"

\* The password is new: the bound keeps its number from having been used.
NewPassword(a) ==
  /\ account.pw < MaxPasswords
  /\ \A b \in Browsers : session[b].auth <= account.pw
  /\ account' = [a EXCEPT !.pw = account.pw + 1]

\* setup_owner_admin makes the owner the administrator, with a new password.
SetupOwner ==
  /\ On("admin") /\ account.exists
  /\ NewPassword([account EXCEPT !.admin = TRUE, !.twoFactor = TRUE])
  /\ since' = {}
  /\ UNCHANGED <<device, code, session, cookie, grants, slow, scope, earned, recent, undone>>

\* The row is saved whole; then the tokens go, and the user's sessions, if it
\* is the database that keeps them.  mine: what the request leaves in its own.
Reset(r, mine, deleted) ==
  /\ NewPassword(r.a)
  /\ cookie' = [b \in Browsers |-> IF cookie[b] = "live" THEN "dead" ELSE cookie[b]]
  /\ LET gone(b) == deleted /\ session[b].auth # 0
     IN /\ session' = [b \in Browsers |-> IF gone(b) THEN Anonymous
                                        ELSE IF b = r.b /\ ~ r.lost THEN mine ELSE session[b]]
        /\ slow' = Without(r, IF slow # NoRequest /\ gone(slow.b) THEN [slow EXCEPT !.lost = TRUE] ELSE slow)
  /\ since' = {}
  /\ Relax(account')
  /\ UNCHANGED <<device, code, scope, recent, undone>>

\* password_reset_confirm_view.
ResetConfirm(r, deleted) ==
  /\ MayReset(r)
  /\ Reset(r, [r.s EXCEPT !.reset = "none"], deleted)
  /\ UNCHANGED grants

\* api_password_reset_confirm.
ApiConfirm(r, deleted) ==
  /\ r.b \in grants
  /\ grants' = grants \ {r.b}
  /\ Reset(r, r.s, deleted)

-----------------------------------------------------------------------------
(* Other requests, and the clock                                           *)

\* A request begins and takes its time.
Begin(b) ==
  /\ slow = NoRequest
  /\ slow' = Load(b, FALSE)
  /\ UNCHANGED <<account, device, code, session, cookie, grants, scope, history>>

\* Any other page, or an answer that changes nothing.
OtherPage(r) ==
  /\ ~ r.fast
  /\ Answer(r, r.s)
  /\ UNCHANGED <<account, device, code, cookie, grants, scope, history>>

CodeExpires(purpose) ==
  /\ purpose \in code
  /\ code' = code \ {purpose}
  /\ UNCHANGED <<account, device, session, cookie, grants, slow, scope, history>>

SessionExpires(b) ==
  /\ On("setup")
  /\ session[b] # Anonymous
  /\ session' = [session EXCEPT ![b] = Anonymous]
  /\ slow' = IF slow # NoRequest /\ slow.b = b THEN [slow EXCEPT !.lost = TRUE] ELSE slow
  /\ Restart(b)
  /\ since' = since \ {b}
  /\ UNCHANGED <<account, device, code, cookie, grants, scope, recent, undone>>

TokenExpires(b) ==
  /\ cookie[b] = "live"
  /\ cookie' = [cookie EXCEPT ![b] = "dead"]
  /\ UNCHANGED <<account, device, code, session, grants, slow, scope, history>>

\* Five minutes after a code for a reset was accepted.
Aged(s) == [s EXCEPT !.reset = IF @ = "verified" THEN "stale" ELSE @]

ResetAges ==
  /\ recent
  /\ recent' = FALSE
  /\ session' = [b \in Browsers |-> Aged(session[b])]
  /\ slow' = IF slow = NoRequest THEN slow ELSE [slow EXCEPT !.s = Aged(@)]
  /\ grants' = {}
  /\ UNCHANGED <<account, device, code, cookie, scope, earned, since, undone>>

-----------------------------------------------------------------------------

Init ==
  /\ scope \in Scopes
  /\ account \in {a \in Account : /\ a.pw = 1
                                  /\ ~ a.admin
                                  /\ a.exists = ~ On("register")
                                  /\ a.twoFactor => a.exists /\ On("setup")
                                  /\ a.emailVerified = a.exists}
  /\ device = "none"
  /\ code = {}
  /\ session = [b \in Browsers |-> Anonymous]
  /\ cookie = [b \in Browsers |-> "none"]
  /\ grants = {}
  /\ slow = NoRequest
  /\ earned = IF Guarded(account) THEN {} ELSE Browsers
  /\ since = {}
  /\ recent = FALSE
  /\ undone = FALSE

\* Requests whose session is not of another password.
Current == {r \in Requests : ~ Outdated(r)}

Mailing(r, outcome) ==
  \/ Register(r, outcome) \/ SetUpPage(r, outcome) \/ VerifyPage(r, outcome) \/ Resend(r, outcome)
  \/ ResetRequest(r, outcome) \/ ResetResend(r, outcome) \/ ApiRequest(r, outcome)

Serve(r) ==
  \/ \E outcome \in Outcomes : Mailing(r, outcome)
  \/ Login(r) \/ FinishRegistration(r) \/ EnableByMail(r) \/ Verify(r)
  \/ AutoLogin(r) \/ Logout(r)
  \/ DevicePage(r) \/ ConfirmDevice(r) \/ EnrolByApi(r) \/ DisableDevice(r) \/ Toggle(r)
  \/ ResetVerify(r) \/ ApiVerify(r)
  \/ \E deleted \in BOOLEAN : ResetConfirm(r, deleted) \/ ApiConfirm(r, deleted)
  \/ OtherPage(r)

Clock ==
  \/ \E purpose \in Purposes : CodeExpires(purpose)
  \/ \E b \in Browsers : SessionExpires(b) \/ TokenExpires(b)
  \/ ResetAges

Next ==
  \/ \E r \in Current : Serve(r)
  \/ \E r \in Requests : DropSession(r)
  \/ \E b \in Browsers : Begin(b)
  \/ SetupOwner
  \/ Clock

Spec == Init /\ [][Next]_vars

\* Owners who wait at a browser do not give up: mail comes through in the end,
\* and a code is entered before it expires.
Persistent(b) ==
  /\ SF_vars(~ Outdated(Load(b, TRUE)) /\ VerifyPage(Load(b, TRUE), "mailed"))
  /\ SF_vars(~ Outdated(Load(b, TRUE)) /\ Resend(Load(b, TRUE), "mailed"))
  /\ SF_vars(~ Outdated(Load(b, TRUE)) /\ Verify(Load(b, TRUE)))

FairSpec == Spec /\ \A b \in Patient : Persistent(b)

-----------------------------------------------------------------------------
(* Properties *)

TypeOK ==
  /\ account \in Account
  /\ device \in {"none", "new", "confirmed"}
  /\ code \in SUBSET Purposes
  /\ session \in [Browsers -> Session]
  /\ cookie \in [Browsers -> {"none", "live", "dead"}]
  /\ grants \in SUBSET Browsers
  /\ slow \in Request \cup {NoRequest}
  /\ scope \in Scopes
  /\ earned \in SUBSET Browsers
  /\ since \in SUBSET Browsers
  /\ recent \in BOOLEAN
  /\ undone \in BOOLEAN

\* While the second factor is on, no session is verified in which no code or
\* token was entered, whatever requests it loaded or overwrote it, unless the
\* second factor was off at some time during that session.
\* (_complete_login, setup_2fa_view, auto_login_view)
VerifiedIsEarned == \A b \in Browsers : session[b].verified => b \in earned

\* After a reset no browser is served that has not signed in since by a request
\* that found the new password, but where a request that turns the second factor
\* off puts the old password back with the row it loaded. (password_reset_confirm_view)
SignedOutByReset ==
  ~ undone => \A b \in Browsers : session[b].auth = account.pw => b \in since

\* But for the administrator's command, passwords only change within five minutes of a code being accepted, even
\* where a slow request brings an old session back. (reset_verified_at)
ResetByCode == [][account'.pw > account.pw => recent \/ SetupOwner]_vars

\* A browser of which the second factor is still asked.
Waiting(b) ==
  /\ session[b].auth \in {0, account.pw}
  /\ session[b].auth # 0 \/ session[b].pending # "no"
  /\ Guarded(account) /\ ~ session[b].verified

\* A browser that waits for its second factor does not wait for ever, however it
\* came to be unverified: signing in, being remembered, another browser that
\* turned the second factor on, or a slow request that put back an older
\* session. (verify_2fa_view, resend_otp_view)
WaitingEnds == \A b \in Patient : Waiting(b) ~> ~ Waiting(b)

=============================================================================
