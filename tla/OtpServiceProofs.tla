-------------------------- MODULE OtpServiceProofs --------------------------
(***************************************************************************)
(* Theorems on the codes sent by e-mail, for any number of threads, and    *)
(* any limits of attempts and requests.                                    *)
(***************************************************************************)
EXTENDS OtpService, SequenceTheorems, FiniteSetTheorems, WellFoundedInduction, TLAPS

(* A set of rows that is not empty has a newest one.                       *)
LEMMA NewestIsLast ==
  ASSUME NEW n \in Nat, NEW S \in SUBSET (1..n), S # {}
  PROVE  Newest(S) \in S /\ \A j \in S : j <= Newest(S)
<1> DEFINE After(i) == (i + 1)..n
           Afters   == {After(i) : i \in S}
<1>0. \A i \in S : After(i) \in SUBSET Nat /\ IsFiniteSet(After(i))
  BY FS_Interval
<1>1. Afters \subseteq FiniteSubsetsOf(Nat) /\ Afters # {}
  <2> HIDE DEF After
  <2> QED BY <1>0 DEF FiniteSubsetsOf
<1>2. PICK A \in Afters : \A B \in Afters : <<B, A>> \notin StrictSubsetOrdering(Nat)
  <2> HIDE DEF Afters
  <2> QED BY <1>1, FS_StrictSubsetOrderingWellFounded, WFMin
<1>3. PICK i \in S : A = After(i)
  OBVIOUS
<1>4. ASSUME NEW j \in S PROVE j <= i
  <2>1. ~ (After(j) \subseteq After(i) /\ After(j) # After(i))
    <3> HIDE DEF After
    <3>1. <<After(j), After(i)>> \notin StrictSubsetOrdering(Nat)
      BY <1>2, <1>3
    <3> QED BY <3>1, <1>0 DEF StrictSubsetOrdering
  <2>2. j > i => j \in After(i) /\ j \notin After(j) /\ After(j) \subseteq After(i)
    OBVIOUS
  <2> QED BY <2>1, <2>2
<1> QED BY <1>4 DEF Newest

(* A function on the numbers up to n is a sequence.                        *)
LEMMA FunctionIsSequence ==
  ASSUME NEW S, NEW n \in Nat, NEW f \in [1..n -> S]
  PROVE  f \in Seq(S) /\ Len(f) = n /\ DOMAIN f = 1..n
  BY SeqDef

-----------------------------------------------------------------------------
(* The inductive invariant                                                 *)

(* A thread counts a request that was below the limit, and works with a    *)
(* row that there is.                                                      *)
JobsSound ==
  \A w \in Workers :
    /\ job[w].pc = "count" => job[w].seen < RequestLimit
    /\ job[w].pc \in {"reset", "send"} => job[w].seen \in DOMAIN rows

(* What is remembered of a row agrees with its columns.                    *)
RowSound(r) ==
  /\ r.guesses = r.failed
  /\ r.verified <= 1
  /\ r.state = "live" => r.verified = 0

(* Of two codes that are live the older one was not seen when the newer    *)
(* one was issued.                                                         *)
OlderBeside ==
  \A i, j \in DOMAIN rows : i < j /\ rows[i].state = "live" => i \in rows[j].beside

OtpInv ==
  /\ TypeOK
  /\ Len(rows) <= MaxRows
  /\ JobsSound
  /\ \A i \in DOMAIN rows : RowSound(rows[i])
  /\ OlderBeside

(* What a row may become under its number.                                 *)
RowStep(old, new) ==
  /\ new \in Row /\ RowSound(new)
  /\ new.beside = old.beside
  /\ new.state = "live" => old.state = "live"

LEMMA InvFacts ==
  ASSUME OtpInv
  PROVE  /\ Len(rows) \in Nat /\ Len(rows) \in 0..MaxRows /\ DOMAIN rows = 1..Len(rows)
         /\ \A i \in DOMAIN rows : rows[i] \in Row /\ i \in 1..MaxRows
         /\ Live \subseteq 1..Len(rows) /\ Live \subseteq 1..MaxRows
         /\ \A w \in Workers : job[w] \in Job
         /\ FreeJob \in Job
<1>1. rows \in Seq(Row) /\ MaxRows \in Nat /\ Len(rows) <= MaxRows
  BY OtpAssumption DEF OtpInv, TypeOK
<1>2. Len(rows) \in Nat /\ Len(rows) \in 0..MaxRows /\ DOMAIN rows = 1..Len(rows)
  BY <1>1, LenProperties
<1>3. \A i \in DOMAIN rows : rows[i] \in Row /\ i \in 1..MaxRows
  BY <1>1, <1>2, ElementOfSeq
<1>4. \A w \in Workers : job[w] \in Job
  BY DEF OtpInv, TypeOK
<1>5. FreeJob \in Job
  BY DEF FreeJob, Job
<1> QED BY <1>2, <1>3, <1>4, <1>5 DEF Live

(* Steps that leave the rows alone.                                        *)
LEMMA JobStep ==
  ASSUME OtpInv, UNCHANGED rows, attempts' \in 0..MaxVerifyAttempts, requests' \in 0..RequestLimit,
         job' \in [Workers -> Job], JobsSound'
  PROVE  OtpInv'
  BY DEF OtpInv, TypeOK, OlderBeside, RowSound

(* Steps that change some rows and add none.                               *)
LEMMA RowsStep ==
  ASSUME OtpInv, NEW f \in [1..Len(rows) -> Row], rows' = f,
         \A i \in DOMAIN rows : RowStep(rows[i], rows'[i]),
         attempts' \in 0..MaxVerifyAttempts, requests' \in 0..RequestLimit,
         job' \in [Workers -> Job],
         \A w \in Workers : job'[w] = job[w] \/ job'[w] = FreeJob
  PROVE  OtpInv'
<1>1. rows' \in Seq(Row) /\ Len(rows') = Len(rows) /\ DOMAIN rows' = DOMAIN rows
  BY InvFacts, FunctionIsSequence
<1>2. TypeOK' /\ Len(rows') <= MaxRows
  BY <1>1 DEF OtpInv, TypeOK
<1>3. JobsSound'
  BY <1>1 DEF OtpInv, JobsSound, FreeJob
<1>4. (\A i \in DOMAIN rows : RowSound(rows[i]))'
  BY <1>1 DEF RowStep, RowSound
<1>5. OlderBeside'
  BY <1>1 DEF RowStep, OtpInv, OlderBeside
<1> QED BY <1>2, <1>3, <1>4, <1>5 DEF OtpInv

(* ... one row, by a thread that is done then.                             *)
LEMMA OneRowStep ==
  ASSUME OtpInv, NEW i \in DOMAIN rows, NEW r, RowStep(rows[i], r), rows' = [rows EXCEPT ![i] = r],
         attempts' \in 0..MaxVerifyAttempts, UNCHANGED requests,
         job' = job \/ \E w \in Workers : Finish(w)
  PROVE  OtpInv'
<1>1. [rows EXCEPT ![i] = r] \in [1..Len(rows) -> Row]
  BY InvFacts DEF RowStep
<1>2. \A j \in DOMAIN rows : RowStep(rows[j], rows'[j])
  BY InvFacts DEF RowStep, OtpInv
<1>3. job' \in [Workers -> Job] /\ \A w \in Workers : job'[w] = job[w] \/ job'[w] = FreeJob
  BY InvFacts DEF Finish, OtpInv, TypeOK
<1> QED BY <1>1, <1>2, <1>3, RowsStep DEF OtpInv, TypeOK

(* A code that is issued.                                                  *)
LEMMA CommitKeepsInv ==
  ASSUME OtpInv, NEW w \in Workers, IssueCommit(w)
  PROVE  OtpInv'
<1> DEFINE now == [i \in DOMAIN rows |->
                     IF i \in job[w].seen /\ rows[i].state = "live"
                     THEN [rows[i] EXCEPT !.state = "used"] ELSE rows[i]]
           new == NewRow(Live \ job[w].seen)
<1>1. now \in [1..Len(rows) -> Row]
  BY InvFacts DEF Row
<1>2. new \in Row
  BY InvFacts, OtpAssumption DEF NewRow, Row
<1>3. now \in Seq(Row) /\ Len(now) = Len(rows) /\ DOMAIN now = DOMAIN rows
  BY <1>1, InvFacts, FunctionIsSequence
<1>4. rows' = Append(now, new)
  BY DEF IssueCommit
<1>5. /\ rows' \in Seq(Row) /\ Len(rows') = Len(rows) + 1
      /\ \A i \in DOMAIN rows : rows'[i] = now[i]
      /\ rows'[Len(rows) + 1] = new
  <2> HIDE DEF now, new
  <2> QED BY <1>2, <1>3, <1>4, InvFacts
<1>6. DOMAIN rows' = DOMAIN rows \cup {Len(rows) + 1}
  BY <1>5, InvFacts, LenProperties
<1>7. Len(rows') <= MaxRows /\ Len(rows) + 1 \in 1..MaxRows
  BY <1>5, InvFacts, OtpAssumption DEF IssueCommit
<1>8. job' = [job EXCEPT ![w] = [pc |-> "reset", seen |-> Len(rows) + 1]]
  BY DEF IssueCommit, Goto
<1>9. job' \in [Workers -> Job]
  BY <1>7, <1>8 DEF OtpInv, TypeOK, Job
<1>10. TypeOK'
  BY <1>5, <1>9 DEF IssueCommit, OtpInv, TypeOK
<1>11. JobsSound'
  BY <1>6, <1>8, <1>9 DEF OtpInv, JobsSound, TypeOK
<1>12. (\A i \in DOMAIN rows : RowSound(rows[i]))'
  <2>1. \A i \in DOMAIN rows : RowSound(now[i])
    BY InvFacts DEF OtpInv, RowSound, Row
  <2>2. RowSound(new)
    BY DEF NewRow, RowSound
  <2> QED BY <1>5, <1>6, <2>1, <2>2 DEF RowSound
<1>13. OlderBeside'
  <2>1. \A i \in DOMAIN rows : /\ now[i].beside = rows[i].beside
                               /\ now[i].state = "live" => rows[i].state = "live" /\ i \in new.beside
    BY InvFacts DEF Row, NewRow, Live
  <2> SUFFICES ASSUME NEW i \in DOMAIN rows', NEW j \in DOMAIN rows', i < j, rows'[i].state = "live"
               PROVE  i \in rows'[j].beside
    BY DEF OlderBeside
  <2>2. i \in DOMAIN rows
    BY <1>6, InvFacts
  <2>3. CASE j \in DOMAIN rows
    BY <1>5, <2>1, <2>2, <2>3 DEF OtpInv, OlderBeside
  <2>4. CASE j = Len(rows) + 1
    BY <1>5, <2>1, <2>2, <2>4
  <2> QED BY <1>6, <2>3, <2>4
<1> QED BY <1>7, <1>10, <1>11, <1>12, <1>13 DEF OtpInv

(* The other steps that issue a code.                                      *)
LEMMA IssueKeepsInv ==
  ASSUME OtpInv, NEW w \in Workers, Issue(w)
  PROVE  OtpInv'
<1> USE InvFacts
<1>1. ASSUME NEW pc, NEW seen, Goto(w, pc, seen), [pc |-> pc, seen |-> seen] \in Job,
             pc \notin {"count", "reset", "send"}, UNCHANGED <<rows, attempts, requests>>
      PROVE  OtpInv'
  <2>1. job' \in [Workers -> Job] /\ JobsSound'
    BY <1>1 DEF Goto, OtpInv, TypeOK, JobsSound
  <2> QED BY <1>1, <2>1, JobStep DEF OtpInv, TypeOK
<1>2. CASE RequestCode(w)
  <2>1. job' \in [Workers -> Job] /\ JobsSound'
    BY <1>2 DEF RequestCode, Goto, OtpInv, TypeOK, JobsSound, Job
  <2> QED BY <1>2, <2>1, JobStep DEF RequestCode, OtpInv, TypeOK
<1>3. CASE CountRequest(w)
  <2>1. job[w].seen + 1 \in 0..RequestLimit
    BY <1>3, OtpAssumption DEF CountRequest, At, OtpInv, JobsSound, Job
  <2>2. job' \in [Workers -> Job] /\ JobsSound'
    BY <1>3 DEF CountRequest, Goto, OtpInv, TypeOK, JobsSound, Job
  <2> QED BY <1>3, <2>1, <2>2, JobStep DEF CountRequest, OtpInv, TypeOK
<1>4. CASE StartTask(w)
  BY <1>1, <1>4 DEF StartTask, Job
<1>5. CASE IssueBegin(w)
  BY <1>1, <1>5 DEF IssueBegin, Job
<1>6. CASE IssueCommit(w)
  BY <1>6, CommitKeepsInv
<1>7. CASE IssueReset(w)
  <2>1. job[w].seen \in 1..MaxRows /\ job[w].seen \in DOMAIN rows
    BY <1>7 DEF IssueReset, At, OtpInv, JobsSound, Job
  <2>2. job' \in [Workers -> Job] /\ JobsSound'
    BY <1>7, <2>1 DEF IssueReset, Goto, OtpInv, TypeOK, JobsSound, Job
  <2> QED BY <1>7, <2>2, JobStep, OtpAssumption DEF IssueReset, OtpInv, TypeOK
<1>8. CASE Send(w)
  <2> DEFINE i == job[w].seen
  <2>1. i \in DOMAIN rows
    BY <1>8 DEF Send, At, OtpInv, JobsSound
  <2>2. PICK mailed \in BOOLEAN, state \in {rows[i].state, "used"} :
          rows' = [rows EXCEPT ![i].mailed = mailed, ![i].state = state]
    BY <1>8 DEF Send
  <2>3. rows' = [rows EXCEPT ![i] = [rows[i] EXCEPT !.mailed = mailed, !.state = state]]
    BY <2>1, <2>2
  <2>4. RowStep(rows[i], [rows[i] EXCEPT !.mailed = mailed, !.state = state])
    BY <2>1, <2>2 DEF OtpInv, RowStep, RowSound, Row
  <2> QED BY <1>8, <2>1, <2>3, <2>4, OneRowStep DEF Send, OtpInv, TypeOK
<1> QED BY <1>2, <1>3, <1>4, <1>5, <1>6, <1>7, <1>8 DEF Issue

(* The row that is locked is live, and no live row is newer.               *)
LEMMA LockedIsLive ==
  ASSUME OtpInv, Live # {}
  PROVE  Locked \in Live /\ Locked \in DOMAIN rows /\ \A j \in Live : j <= Locked
<1>1. Live \in SUBSET (1..Len(rows)) /\ Len(rows) \in Nat
  BY InvFacts
<1>2. Newest(Live) \in Live /\ \A j \in Live : j <= Newest(Live)
  BY <1>1, NewestIsLast
<1> QED BY <1>2 DEF Locked, Live

LEMMA FailureCounted ==
  ASSUME OtpInv, RecordFailure
  PROVE  attempts' \in 0..MaxVerifyAttempts
  BY OtpAssumption DEF OtpInv, TypeOK, RecordFailure, AtMost

(* The steps that verify a code.                                           *)
LEMMA ConsumeKeepsInv ==
  ASSUME OtpInv, NEW w \in Workers, Consume(w)
  PROVE  OtpInv'
<1> USE InvFacts
<1>0. attempts \in 0..MaxVerifyAttempts /\ 0 \in 0..MaxVerifyAttempts /\ requests \in 0..RequestLimit
  BY OtpAssumption DEF OtpInv, TypeOK
<1>1. ASSUME Finish(w) PROVE job' \in [Workers -> Job] /\ (UNCHANGED rows => JobsSound')
  BY <1>1 DEF Finish, OtpInv, TypeOK, JobsSound, FreeJob
<1>2. ASSUME NEW i \in DOMAIN rows, NEW r, Finish(w), rows' = [rows EXCEPT ![i] = r],
             RowStep(rows[i], r), attempts' \in 0..MaxVerifyAttempts, UNCHANGED requests
      PROVE  OtpInv'
  BY <1>2, OneRowStep
<1>3. CASE Malformed(w)
  <2>1. JobsSound'
    BY <1>3 DEF Malformed, OtpInv, JobsSound
  <2> QED BY <1>0, <1>3, <2>1, FailureCounted, JobStep DEF Malformed, OtpInv, TypeOK
<1>4. ASSUME NEW code \in {0} \cup DOMAIN rows, Verify(w, code) PROVE OtpInv'
  <2>1. code \in 0..MaxRows
    BY OtpAssumption
  <2>2. job' \in [Workers -> Job] /\ JobsSound'
    BY <1>4, <2>1 DEF Verify, Goto, OtpInv, TypeOK, JobsSound, Job
  <2> QED BY <1>0, <1>4, <2>2, JobStep DEF Verify
<1>5. CASE NothingToCompare(w)
  BY <1>0, <1>1, <1>5, FailureCounted, JobStep DEF NothingToCompare
<1>6. CASE Refuse(w)
  <2>1. Locked \in DOMAIN rows /\ Finish(w) /\ rows' = [rows EXCEPT ![Locked] = [rows[Locked] EXCEPT !.state = "used"]]
    BY <1>6, LockedIsLive DEF Refuse, Used
  <2>2. RowStep(rows[Locked], [rows[Locked] EXCEPT !.state = "used"])
    BY <2>1 DEF OtpInv, RowStep, RowSound, Row
  <2> QED BY <1>2, <1>6, <2>1, <2>2, FailureCounted DEF Refuse
<1>7. CASE CompareWrong(w)
  <2> DEFINE old == rows[Locked]
             new == [old EXCEPT !.failed = old.failed + 1, !.guesses = old.guesses + 1,
                                !.state = IF old.failed + 1 >= MaxVerifyAttempts THEN "used" ELSE old.state]
  <2>1. Locked \in DOMAIN rows /\ Finish(w) /\ rows' = [rows EXCEPT ![Locked] = new]
    BY <1>7, LockedIsLive DEF CompareWrong, Comparable
  <2>2. old \in Row /\ RowSound(old) /\ old.failed < MaxVerifyAttempts
    BY <1>7, <2>1 DEF CompareWrong, Comparable, OtpInv
  <2>3. old.failed + 1 \in 0..MaxVerifyAttempts /\ old.guesses + 1 \in Nat
    BY <2>2, OtpAssumption DEF Row
  <2>4. new \in Row
    BY <2>2, <2>3 DEF Row
  <2>5. /\ new.guesses = old.guesses + 1 /\ new.failed = old.failed + 1 /\ new.verified = old.verified
        /\ new.beside = old.beside /\ new.state \in {"used", old.state}
    BY <2>2 DEF Row
  <2>6. RowStep(old, new)
    <3> HIDE DEF old, new
    <3> QED BY <2>2, <2>4, <2>5 DEF RowStep, RowSound
  <2> HIDE DEF old, new
  <2> QED BY <1>2, <1>7, <2>1, <2>6, FailureCounted DEF CompareWrong, old
<1>8. CASE RecordRaises(w)
  BY <1>0, <1>1, <1>8, JobStep DEF RecordRaises
<1>9. CASE Accept(w)
  <2> DEFINE old == rows[Locked]
             new == [old EXCEPT !.state = "used", !.verified = old.verified + 1]
  <2>1. Locked \in DOMAIN rows /\ Finish(w) /\ rows' = [rows EXCEPT ![Locked] = new]
    BY <1>9, LockedIsLive DEF Accept, Comparable
  <2>2. old \in Row /\ RowSound(old) /\ old.state = "live"
    BY <1>9, <2>1, LockedIsLive DEF Accept, Comparable, OtpInv, Live
  <2>3. /\ new \in Row /\ new.beside = old.beside /\ new.state = "used"
        /\ new.guesses = old.guesses /\ new.failed = old.failed /\ new.verified = old.verified + 1
    <3> HIDE DEF old
    <3>1. old \in Row /\ old.verified + 1 \in Nat
      BY <2>2 DEF Row
    <3>2. new \in Row
      BY <3>1 DEF Row
    <3> QED BY <3>1, <3>2 DEF Row
  <2>4. RowStep(old, new)
    <3> HIDE DEF old, new
    <3> QED BY <2>2, <2>3 DEF RowStep, RowSound
  <2> HIDE DEF old, new
  <2> QED BY <1>0, <1>2, <1>9, <2>1, <2>4 DEF Accept, old
<1> QED BY <1>3, <1>4, <1>5, <1>6, <1>7, <1>8, <1>9 DEF Consume

(* The clock and the clean-up.                                             *)
LEMMA ClockKeepsInv ==
  ASSUME OtpInv, (\E i \in DOMAIN rows : Expire(i)) \/ CountersExpire \/ CleanUp
  PROVE  OtpInv'
<1> USE InvFacts
<1>0. attempts \in 0..MaxVerifyAttempts /\ requests \in 0..RequestLimit /\ job \in [Workers -> Job]
  BY DEF OtpInv, TypeOK
<1>1. ASSUME NEW i \in DOMAIN rows, Expire(i) PROVE OtpInv'
  <2>1. RowStep(rows[i], [rows[i] EXCEPT !.expired = TRUE])
    BY DEF OtpInv, RowStep, RowSound, Row
  <2>2. rows' = [rows EXCEPT ![i] = [rows[i] EXCEPT !.expired = TRUE]]
    BY <1>1 DEF Expire
  <2> QED BY <1>0, <1>1, <2>1, <2>2, OneRowStep DEF Expire
<1>2. CASE CountersExpire
  <2>1. JobsSound'
    BY <1>2 DEF CountersExpire, OtpInv, JobsSound
  <2> QED BY <1>0, <1>2, <2>1, JobStep, OtpAssumption DEF CountersExpire
<1>3. CASE CleanUp
  <2> DEFINE f == [i \in DOMAIN rows |-> IF i \in Live /\ rows[i].expired
                                         THEN [rows[i] EXCEPT !.state = "deleted"] ELSE rows[i]]
  <2>1. rows' = f /\ f \in [1..Len(rows) -> Row]
    BY <1>3 DEF CleanUp, Row
  <2>2. \A i \in DOMAIN rows : RowStep(rows[i], f[i])
    BY DEF OtpInv, RowStep, RowSound, Row
  <2> HIDE DEF f
  <2> QED BY <1>0, <1>3, <2>1, <2>2, RowsStep DEF CleanUp
<1> QED BY <1>1, <1>2, <1>3

(* A step of any kind.                                                     *)
LEMMA StepKeepsInv == OtpInv /\ [Next]_vars => OtpInv'
<1> SUFFICES ASSUME OtpInv, [Next]_vars PROVE OtpInv'
  OBVIOUS
<1>1. CASE UNCHANGED vars
  <2>1. JobsSound'
    BY <1>1 DEF vars, OtpInv, JobsSound
  <2> QED BY <1>1, <2>1, JobStep DEF vars, OtpInv, TypeOK
<1> QED BY <1>1, IssueKeepsInv, ConsumeKeepsInv, ClockKeepsInv DEF Next

LEMMA InitInv == Init => OtpInv
<1> SUFFICES ASSUME Init PROVE OtpInv
  OBVIOUS
<1>1. rows = << >> /\ rows \in Seq(Row) /\ Len(rows) = 0 /\ DOMAIN rows = {}
  BY EmptySeq DEF Init
<1>2. FreeJob \in Job /\ FreeJob.pc = "free"
  BY DEF FreeJob, Job
<1>3. TypeOK /\ JobsSound
  BY <1>1, <1>2, OtpAssumption DEF Init, TypeOK, JobsSound
<1> QED BY <1>1, <1>3, OtpAssumption DEF OtpInv, OlderBeside

LEMMA OtpInvariant == Spec => []OtpInv
  BY InitInv, StepKeepsInv, PTL DEF Spec

-----------------------------------------------------------------------------
(* The theorems                                                            *)

(* Every variable keeps its type: the counters stay within their limits,   *)
(* and a row has no more failures than the limit. (otp_service)            *)
THEOREM TypeCorrect == Spec => []TypeOK
<1>1. OtpInv => TypeOK
  BY DEF OtpInv
<1> QED BY <1>1, OtpInvariant, PTL

(* A code is accepted at most once, whatever requests race with it: a row  *)
(* that was accepted is not live any more. (consume_otp)                   *)
THEOREM AcceptedOnce == Spec => []VerifiesOnce
<1>1. OtpInv => VerifiesOnce
  BY DEF OtpInv, RowSound, VerifiesOnce
<1> QED BY <1>1, OtpInvariant, PTL

(* No more wrong codes than the limit are compared with one row, whatever  *)
(* becomes of the cached counter: what the row remembers is what happened. *)
(* (consume_otp: failed_attempts)                                          *)
THEOREM GuessesStayBounded == Spec => []GuessesBounded
<1>1. OtpInv => GuessesBounded
  <2> SUFFICES ASSUME OtpInv, NEW i \in DOMAIN rows PROVE rows[i].guesses <= MaxVerifyAttempts
    BY DEF GuessesBounded
  <2>1. rows[i] \in Row /\ rows[i].guesses = rows[i].failed
    BY InvFacts DEF OtpInv, RowSound
  <2> QED BY <2>1, OtpAssumption DEF Row
<1> QED BY <1>1, OtpInvariant, PTL

(* Only a code that is live is ever accepted.                              *)
LEMMA OnlyAcceptVerifies ==
  ASSUME OtpInv, [Next]_vars, NEW i \in DOMAIN rows, rows'[i].verified > rows[i].verified
  PROVE  i \in Live
<1> USE InvFacts
<1>0. rows[i] \in Row /\ ~ rows[i].verified > rows[i].verified
  BY DEF Row
<1>1. ASSUME NEW k \in DOMAIN rows, NEW r \in Row, rows' = [rows EXCEPT ![k] = r],
             r.verified = rows[k].verified
      PROVE  FALSE
  BY <1>0, <1>1
<1>2. ASSUME NEW w \in Workers, IssueCommit(w) PROVE FALSE
  <2> DEFINE now == [j \in DOMAIN rows |->
                       IF j \in job[w].seen /\ rows[j].state = "live"
                       THEN [rows[j] EXCEPT !.state = "used"] ELSE rows[j]]
             new == NewRow(Live \ job[w].seen)
  <2>0. now \in [1..Len(rows) -> Row]
    BY DEF Row
  <2>1. new \in Row
    BY OtpAssumption DEF Row, NewRow
  <2>2. now \in Seq(Row) /\ Len(now) = Len(rows) /\ rows' = Append(now, new)
    BY <1>2, <2>0, FunctionIsSequence DEF IssueCommit
  <2>3. rows'[i] = now[i]
    <3> HIDE DEF now, new
    <3> QED BY <2>1, <2>2
  <2>4. now[i].verified = rows[i].verified
    BY DEF Row
  <2> QED BY <1>0, <2>3, <2>4
<1>3. ASSUME NEW w \in Workers, Send(w) PROVE FALSE
  <2> DEFINE k == job[w].seen
  <2>1. k \in DOMAIN rows
    BY <1>3 DEF Send, At, OtpInv, JobsSound
  <2>2. PICK mailed \in BOOLEAN, state \in {rows[k].state, "used"} :
          rows' = [rows EXCEPT ![k].mailed = mailed, ![k].state = state]
    BY <1>3 DEF Send
  <2>3. rows'[i].verified = rows[i].verified
    BY <2>1, <2>2 DEF Row
  <2> QED BY <1>0, <2>3
<1>4. ASSUME NEW w \in Workers, Refuse(w) \/ CompareWrong(w) PROVE FALSE
  <2>1. Locked \in DOMAIN rows
    BY <1>4, LockedIsLive DEF Refuse, CompareWrong, Comparable
  <2>2. Refuse(w) => rows'[i].verified = rows[i].verified
    BY <2>1 DEF Refuse, Used, Row
  <2>3. CompareWrong(w) => rows'[i].verified = rows[i].verified
    BY <2>1 DEF CompareWrong, Row
  <2> QED BY <1>0, <1>4, <2>2, <2>3
<1>5. ASSUME NEW k \in DOMAIN rows, Expire(k) PROVE FALSE
  BY <1>0, <1>5 DEF Expire, Row
<1>6. ASSUME CleanUp PROVE FALSE
  BY <1>0, <1>6 DEF CleanUp, Row
<1>7. ASSUME UNCHANGED rows PROVE FALSE
  BY <1>0, <1>7
<1>8. PICK w \in Workers : Accept(w)
  BY <1>2, <1>3, <1>4, <1>5, <1>6, <1>7
     DEF Next, Issue, Consume, RequestCode, CountRequest, StartTask, IssueBegin, IssueReset,
         Malformed, Verify, NothingToCompare, RecordRaises, CountersExpire, vars
<1>9. Locked \in Live /\ Locked \in DOMAIN rows
  BY <1>8, LockedIsLive DEF Accept, Comparable
<1>10. rows' = [rows EXCEPT ![Locked] = [rows[Locked] EXCEPT !.state = "used", !.verified = rows[Locked].verified + 1]]
  BY <1>8, <1>9 DEF Accept
<1>11. i = Locked
  BY <1>0, <1>9, <1>10
<1> QED BY <1>9, <1>11

(* Once a newer code has been mailed an older one is not accepted, unless  *)
(* the two were issued at the same time: what is live is either newer than *)
(* all that was seen when a code was issued, or was not seen. (issue_otp)  *)
THEOREM OlderCodesDie == Spec => ResendInvalidates
<1>1. OtpInv /\ [Next]_vars =>
        [\A i \in DOMAIN rows : rows'[i].verified > rows[i].verified =>
           \A j \in (i + 1)..Len(rows) : rows[j].mailed => i \in rows[j].beside]_vars
  <2> SUFFICES ASSUME OtpInv, [Next]_vars, NEW i \in DOMAIN rows,
                      rows'[i].verified > rows[i].verified, NEW j \in (i + 1)..Len(rows)
               PROVE  i \in rows[j].beside
    OBVIOUS
  <2>1. i \in Live
    BY OnlyAcceptVerifies
  <2>2. j \in DOMAIN rows /\ i < j
    BY InvFacts
  <2> QED BY <2>1, <2>2 DEF OtpInv, OlderBeside, Live
<1> QED BY <1>1, OtpInvariant, PTL DEF Spec, ResendInvalidates
=============================================================================
