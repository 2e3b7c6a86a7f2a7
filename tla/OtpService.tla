----------------------------- MODULE OtpService -----------------------------
(***************************************************************************)
(* Codes sent by e-mail: services/otp_service.py, for one user and one     *)
(* purpose, with the views and the task that issue codes and verify them.  *)
(*                                                                         *)
(* Rows are kept in the order of their creation.  A code is abstracted to  *)
(* the row it belongs to, 0 standing for any other six digits.  The        *)
(* database is PostgreSQL under READ COMMITTED: a statement sees the rows  *)
(* committed before it began, so that issuing takes effect in two steps;   *)
(* consuming holds the row's lock and is one step.  Counters in the cache  *)
(* are read and written in separate steps.                                 *)
(***************************************************************************)
EXTENDS Naturals, Sequences, FiniteSets, SequencesExt

CONSTANTS
  Workers,            \* threads that serve requests or tasks
  MaxVerifyAttempts,  \* MAX_VERIFY_ATTEMPTS
  RequestLimit,       \* codes a user may request in a window
  MaxRows             \* bound: codes issued in a behaviour

ASSUME OtpAssumption ==
  /\ IsFiniteSet(Workers)
  /\ MaxVerifyAttempts \in Nat \ {0}
  /\ RequestLimit \in Nat \ {0}
  /\ MaxRows \in Nat \ {0}

VARIABLES
  rows,      \* the rows of EmailOTP, oldest first
  attempts,  \* otp_verify_attempts, counted up to the limit
  requests,  \* otp_request_issue
  job        \* job[w]: what thread w is doing

vars == <<rows, attempts, requests, job>>

\* guesses, verified, beside: history, the wrong codes compared with the row's
\* code, the times the code was accepted, and the codes that became live while
\* this one was being issued.
Row == [state : {"live", "used", "deleted"}, expired : BOOLEAN, mailed : BOOLEAN,
        failed : 0..MaxVerifyAttempts, guesses : Nat, verified : Nat,
        beside : SUBSET (1..MaxRows)]

NewRow(beside) == [state |-> "live", expired |-> FALSE, mailed |-> FALSE,
                   failed |-> 0, guesses |-> 0, verified |-> 0, beside |-> beside]

\* seen: the request counter, the rows or the code that the thread works with.
Job == [pc : {"free"}, seen : {0}]
       \cup [pc : {"count"}, seen : 0..RequestLimit]
       \cup [pc : {"issue"}, seen : {0}]
       \cup [pc : {"commit"}, seen : SUBSET (1..MaxRows)]
       \cup [pc : {"reset", "send"}, seen : 1..MaxRows]
       \cup [pc : {"compare"}, seen : 0..MaxRows]

FreeJob == [pc |-> "free", seen |-> 0]

At(w, pc)         == job[w].pc = pc
Goto(w, pc, seen) == job' = [job EXCEPT ![w] = [pc |-> pc, seen |-> seen]]
Finish(w)         == job' = [job EXCEPT ![w] = FreeJob]

Live == {i \in DOMAIN rows : rows[i].state = "live"}
Newest(S) == CHOOSE i \in S : \A j \in S : j <= i

AtMost(n, max) == IF n < max THEN n ELSE max

-----------------------------------------------------------------------------
(* Issuing                                                                 *)

\* can_request_otp: the counter is read ...
RequestCode(w) ==
  /\ At(w, "free")
  /\ requests < RequestLimit
  /\ Goto(w, "count", requests)
  /\ UNCHANGED <<rows, attempts, requests>>

\* ... and written back, incremented.
CountRequest(w) ==
  /\ At(w, "count")
  /\ requests' = job[w].seen + 1
  /\ Goto(w, "issue", 0)
  /\ UNCHANGED <<rows, attempts>>

\* send_otp_email_task and its retries do not ask for permission.
StartTask(w) ==
  /\ At(w, "free")
  /\ Goto(w, "issue", 0)
  /\ UNCHANGED <<rows, attempts, requests>>

\* issue_otp: the statement that invalidates begins, and sees what is live.
IssueBegin(w) ==
  /\ At(w, "issue")
  /\ Len(rows) < MaxRows
  /\ Goto(w, "commit", Live)
  /\ UNCHANGED <<rows, attempts, requests>>

\* Mutant: earlier codes are left alone.
IssueBesides(w) ==
  /\ At(w, "commit")
  /\ Len(rows) < MaxRows
  /\ rows' = Append(rows, NewRow(Live \ job[w].seen))
  /\ Goto(w, "reset", Len(rows) + 1)
  /\ UNCHANGED <<attempts, requests>>

\* The transaction commits: what was seen is used, and there is a new row.
IssueCommit(w) ==
  /\ At(w, "commit")
  /\ Len(rows) < MaxRows
  /\ rows' = Append([i \in DOMAIN rows |->
                       IF i \in job[w].seen /\ rows[i].state = "live"
                       THEN [rows[i] EXCEPT !.state = "used"] ELSE rows[i]], NewRow(Live \ job[w].seen))
  /\ Goto(w, "reset", Len(rows) + 1)
  /\ UNCHANGED <<attempts, requests>>

\* After the transaction: the failed attempts are forgotten.
IssueReset(w) ==
  /\ At(w, "reset")
  /\ attempts' = 0
  /\ Goto(w, "send", job[w].seen)
  /\ UNCHANGED <<rows, requests>>

\* The mail goes out, or does not and the code is invalidated, or sending
\* raises and the code stays, with or without the mail.
Send(w) ==
  /\ At(w, "send")
  /\ \E mailed \in BOOLEAN, invalidate \in BOOLEAN :
        /\ mailed => ~ invalidate
        /\ rows' = [rows EXCEPT ![job[w].seen].mailed = mailed,
                                ![job[w].seen].state = IF invalidate /\ @ = "live" THEN "used" ELSE @]
  /\ Finish(w)
  /\ UNCHANGED <<attempts, requests>>

-----------------------------------------------------------------------------
(* Verifying                                                               *)

\* _record_failed_attempt.
RecordFailure == attempts' = AtMost(attempts + 1, MaxVerifyAttempts)

\* consume_otp: the lock is read first; a code that is not six digits is only
\* counted.
Malformed(w) ==
  /\ At(w, "free")
  /\ attempts < MaxVerifyAttempts
  /\ RecordFailure
  /\ UNCHANGED <<rows, requests, job>>

\* The user enters a code that came by mail, or any other.
Verify(w, code) ==
  /\ At(w, "free")
  /\ attempts < MaxVerifyAttempts
  /\ code # 0 => rows[code].mailed
  /\ Goto(w, "compare", code)
  /\ UNCHANGED <<rows, attempts, requests>>

\* The row that consume_otp locks: the newest one that is not used.
Locked == Newest(Live)

Used(i) == rows' = [rows EXCEPT ![i].state = "used"]

\* No row is live: one that was used, or deleted, or never issued.
NothingToCompare(w) ==
  /\ At(w, "compare")
  /\ Live = {}
  /\ IF \E i \in DOMAIN rows : rows[i].state = "used" THEN RecordFailure ELSE UNCHANGED attempts
  /\ Finish(w)
  /\ UNCHANGED <<rows, requests>>

\* The row has expired, or has had its failures.
Refuse(w) ==
  /\ At(w, "compare")
  /\ Live # {}
  /\ rows[Locked].expired \/ rows[Locked].failed >= MaxVerifyAttempts
  /\ Used(Locked)
  /\ RecordFailure
  /\ Finish(w)
  /\ UNCHANGED requests

Comparable == Live # {} /\ ~ rows[Locked].expired /\ rows[Locked].failed < MaxVerifyAttempts

\* Mutant: the limit compared with > instead of >=.
CompareWrongOffByOne(w) ==
  /\ At(w, "compare")
  /\ Comparable
  /\ job[w].seen # Locked
  /\ LET failed == rows[Locked].guesses + 1 IN
     rows' = [rows EXCEPT ![Locked].guesses = failed,
                          ![Locked].state = IF failed > MaxVerifyAttempts THEN "used" ELSE @]
  /\ RecordFailure
  /\ Finish(w)
  /\ UNCHANGED requests

\* A wrong code: the failure is counted on the row, which the last one uses up.
CompareWrong(w) ==
  /\ At(w, "compare")
  /\ Comparable
  /\ job[w].seen # Locked
  /\ LET failed == rows[Locked].failed + 1 IN
     rows' = [rows EXCEPT ![Locked].failed = failed,
                          ![Locked].guesses = @ + 1,
                          ![Locked].state = IF failed >= MaxVerifyAttempts THEN "used" ELSE @]
  /\ RecordFailure
  /\ Finish(w)
  /\ UNCHANGED requests

\* The cached counter goes between add and incr: incr raises and the
\* transaction is rolled back; the client gets an error, no answer.
RecordRaises(w) ==
  /\ At(w, "compare")
  /\ Live # {} => (job[w].seen # Locked \/ ~ Comparable)
  /\ attempts' = 0
  /\ Finish(w)
  /\ UNCHANGED <<rows, requests>>

\* Mutant: an accepted code is not marked used.
AcceptUnmarked(w) ==
  /\ At(w, "compare")
  /\ Comparable
  /\ job[w].seen = Locked
  /\ rows' = [rows EXCEPT ![Locked].verified = @ + 1]
  /\ attempts' = 0
  /\ Finish(w)
  /\ UNCHANGED requests

Accept(w) ==
  /\ At(w, "compare")
  /\ Comparable
  /\ job[w].seen = Locked
  /\ rows' = [rows EXCEPT ![Locked].state = "used", ![Locked].verified = @ + 1]
  /\ attempts' = 0
  /\ Finish(w)
  /\ UNCHANGED requests

-----------------------------------------------------------------------------
(* The clock, and the clean-up                                             *)

\* Codes live for the same time, so that they expire in the order of issue.
Expire(i) ==
  /\ ~ rows[i].expired
  /\ \A j \in 1..(i - 1) : rows[j].expired
  /\ rows' = [rows EXCEPT ![i].expired = TRUE]
  /\ UNCHANGED <<attempts, requests, job>>

CountersExpire ==
  /\ \/ attempts' = 0 /\ UNCHANGED requests
     \/ requests' = 0 /\ UNCHANGED attempts
  /\ UNCHANGED <<rows, job>>

\* cleanup_expired_otps deletes what has expired and is not used.
CleanUp ==
  /\ \E i \in Live : rows[i].expired
  /\ rows' = [i \in DOMAIN rows |-> IF i \in Live /\ rows[i].expired
                                    THEN [rows[i] EXCEPT !.state = "deleted"] ELSE rows[i]]
  /\ UNCHANGED <<attempts, requests, job>>

-----------------------------------------------------------------------------

Init ==
  /\ rows = << >>
  /\ attempts = 0
  /\ requests = 0
  /\ job = [w \in Workers |-> FreeJob]

Issue(w) ==
  \/ RequestCode(w) \/ CountRequest(w) \/ StartTask(w)
  \/ IssueBegin(w) \/ IssueCommit(w) \/ IssueReset(w) \/ Send(w)

Consume(w) ==
  \/ Malformed(w) \/ (\E code \in {0} \cup DOMAIN rows : Verify(w, code))
  \/ NothingToCompare(w) \/ Refuse(w) \/ CompareWrong(w) \/ RecordRaises(w) \/ Accept(w)

Next ==
  \/ \E w \in Workers : Issue(w) \/ Consume(w)
  \/ \E i \in DOMAIN rows : Expire(i)
  \/ CountersExpire
  \/ CleanUp

Spec == Init /\ [][Next]_vars

-----------------------------------------------------------------------------
(* Properties *)

TypeOK ==
  /\ rows \in Seq(Row)
  /\ attempts \in 0..MaxVerifyAttempts
  /\ requests \in 0..RequestLimit
  /\ job \in [Workers -> Job]

\* A code is accepted at most once, whatever requests race with it.
\* (consume_otp: the locked row.)
VerifiesOnce == \A i \in DOMAIN rows : rows[i].verified <= 1

\* No more wrong codes than the limit are ever compared with one row, however
\* often the cached counter is reset, expires or fails meanwhile.
\* (consume_otp: failed_attempts.)
GuessesBounded == \A i \in DOMAIN rows : rows[i].guesses <= MaxVerifyAttempts

\* test_resend_invalidates_previous_code (tests/test_otp_security.py:100): once a
\* newer code has been mailed an older one is not accepted, unless the two were
\* issued at the same time. (issue_otp)
ResendInvalidates ==
  [][\A i \in DOMAIN rows : rows'[i].verified > rows[i].verified =>
        \A j \in (i + 1)..Len(rows) : rows[j].mailed => i \in rows[j].beside]_vars

=============================================================================
