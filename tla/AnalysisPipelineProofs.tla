----------------------- MODULE AnalysisPipelineProofs -----------------------
(* Type correctness of the analysis pipeline and the bound on the signals  *)
(* of a trial, for every set of threads and markets and every bound, and   *)
(* below them what one analysis decides, whatever confidences the          *)
(* analyzer's setups have.                                                 *)
EXTENDS AnalysisPipeline, SignalDecision, SequenceTheorems, FiniteSetTheorems, TLAPS

LEMMA SomeSymbolType == SomeSymbol \in Symbols
BY SymbolAssumption DEF SomeSymbol

LEMMA FreeJobType == FreeJob \in Job /\ NewUser \in UserRow
BY SomeSymbolType, BoundAssumption
   DEF FreeJob, Job, NewUser, UserRow, PCs, Granting, Directions, BotStates

(* Rows of the user: a Boolean field is replaced, or the market.           *)
LEMMA UserFieldTypes ==
  ASSUME NEW u \in UserRow
  PROVE  /\ \A f \in Toggles \cup {"trial"}, v \in BOOLEAN : [u EXCEPT ![f] = v] \in UserRow
         /\ [u EXCEPT !.trial = TRUE] \in UserRow
         /\ \A s \in Symbols : [u EXCEPT !.market = s] \in UserRow
<1>1. \A f \in Toggles \cup {"trial"}, v \in BOOLEAN : [u EXCEPT ![f] = v] \in UserRow
  BY Zenon DEF UserRow, Toggles
<1>2. [u EXCEPT !.trial = TRUE] \in UserRow
  BY Zenon DEF UserRow
<1>3. \A s \in Symbols : [u EXCEPT !.market = s] \in UserRow
  BY DEF UserRow
<1> QED
  BY <1>1, <1>2, <1>3

(* A process that is given a well-formed record stays well formed.         *)
LEMMA JobUpdateType ==
  ASSUME TypeOK, NEW p \in Procs, NEW j \in Job, job' = [job EXCEPT ![p] = j]
  PROVE  job' \in [Procs -> Job]
BY DEF TypeOK

LEMMA JobFieldTypes ==
  ASSUME NEW j \in Job, NEW pc \in PCs
  PROVE  /\ [j EXCEPT !.pc = pc] \in Job
         /\ \A d \in Directions : [j EXCEPT !.pc = pc, !.dir = d] \in Job
         /\ \A b \in BotStates : [j EXCEPT !.pc = pc, !.put = b] \in Job
         /\ \A s \in Symbols, u \in UserRow : [j EXCEPT !.pc = pc, !.sym = s, !.snap = u] \in Job
         /\ \A s \in Symbols, r \in 0..MaxRows, u \in UserRow :
              [j EXCEPT !.pc = pc, !.sym = s, !.row = r, !.snap = u] \in Job
         /\ \A s \in Symbols, v \in Granting :
              [j EXCEPT !.pc = pc, !.sym = s, !.via = v] \in Job
<1>1. [j EXCEPT !.pc = pc] \in Job
  BY DEF Job
<1>2. ASSUME NEW d \in Directions PROVE [j EXCEPT !.pc = pc, !.dir = d] \in Job
  BY DEF Job
<1>3. ASSUME NEW b \in BotStates PROVE [j EXCEPT !.pc = pc, !.put = b] \in Job
  BY DEF Job
<1>4. ASSUME NEW s \in Symbols, NEW u \in UserRow
      PROVE  [j EXCEPT !.pc = pc, !.sym = s, !.snap = u] \in Job
  BY DEF Job
<1>5. ASSUME NEW s \in Symbols, NEW r \in 0..MaxRows, NEW u \in UserRow
      PROVE  [j EXCEPT !.pc = pc, !.sym = s, !.row = r, !.snap = u] \in Job
  BY DEF Job
<1>6. ASSUME NEW s \in Symbols, NEW v \in Granting
      PROVE  [j EXCEPT !.pc = pc, !.sym = s, !.via = v] \in Job
  BY DEF Job
<1> QED
  BY <1>1, <1>2, <1>3, <1>4, <1>5, <1>6

(* A process that finishes, and one that only moves on, stays well formed. *)
LEMMA JobTypes ==
  ASSUME TypeOK, NEW p \in Procs
  PROVE  /\ Finish(p) => job' \in [Procs -> Job]
         /\ \A pc \in PCs : Goto(p, pc) => job' \in [Procs -> Job]
<1>1. Finish(p) => job' \in [Procs -> Job]
  BY FreeJobType, JobUpdateType DEF Finish
<1>2. ASSUME NEW pc \in PCs, Goto(p, pc) PROVE job' \in [Procs -> Job]
  <2>1. job[p] \in Job
    BY DEF TypeOK
  <2>2. job' = [job EXCEPT ![p] = [job[p] EXCEPT !.pc = pc]]
    BY <1>2 DEF Goto, TypeOK
  <2> QED
    BY <2>1, <2>2, JobFieldTypes, JobUpdateType
<1> QED
  BY <1>1, <1>2

LEMMA DeleteRowType ==
  ASSUME TypeOK, NEW s \in Symbols, NEW id, DeleteRow(s, id)
  PROVE  cycles' \in [Symbols -> Cycle]
BY BoundAssumption DEF TypeOK, DeleteRow, NoCycle, Cycle

(* Every variable keeps its type: a request always works on a complete     *)
(* copy of the user's row, and an admitted analysis carries a status that  *)
(* grants access.                                                          *)
THEOREM TypeCorrect == Spec => []TypeOK
<1>1. Init => TypeOK
  <2> SUFFICES ASSUME Init PROVE TypeOK
    OBVIOUS
  <2>1. user \in UserRow
    BY FreeJobType, UserFieldTypes DEF Init
  <2>2. env \in Surroundings /\ bot \in BotStates
    BY DEF Init, Surroundings
  <2>3. cycles \in [Symbols -> Cycle] /\ rows \in 0..MaxRows /\ changes \in 0..MaxChanges
    BY BoundAssumption DEF Init, Cycle, NoCycle
  <2>4. job \in [Procs -> Job]
    BY FreeJobType DEF Init
  <2>5. signals \in Seq(Signal) /\ late \in [denial : Nat, stop : Nat]
    BY DEF Init
  <2> QED
    BY <2>1, <2>2, <2>3, <2>4, <2>5 DEF Init, TypeOK
<1>2. TypeOK /\ [Next]_vars => TypeOK'
  <2> SUFFICES ASSUME TypeOK, [Next]_vars PROVE TypeOK'
    OBVIOUS
  <2> USE BoundAssumption
  <2>1. ASSUME NEW w \in Workers, Request(w) PROVE TypeOK'
    <3> w \in Procs
      BY DEF Procs
    <3>1. ASSUME NEW s \in Symbols, AnalyzeRequest(w, s) \/ WaitStatusRequest(w, s) PROVE TypeOK'
      <4>1. PICK pc \in PCs, row \in 0..MaxRows : Begin(w, pc, s, row)
        BY <3>1 DEF AnalyzeRequest, WaitStatusRequest, PCs, TypeOK, Cycle
      <4>2. job' \in [Procs -> Job]
        <5>1. job[w] \in Job /\ user \in UserRow
          BY DEF TypeOK
        <5>2. job' = [job EXCEPT ![w] = [job[w] EXCEPT !.pc = pc, !.sym = s, !.row = row, !.snap = user]]
          BY <4>1 DEF Begin, TypeOK
        <5> QED
          BY <5>1, <5>2, JobFieldTypes, JobUpdateType
      <4> QED
        BY <4>1, <4>2 DEF Begin, TypeOK
    <3>2. ASSUME NEW a \in Actions, NEW s \in Symbols, ControlRead(w, a, s) PROVE TypeOK'
      <4>1. job' \in [Procs -> Job]
        <5>1. job[w] \in Job /\ "control" \in PCs
          BY DEF TypeOK, PCs
        <5>2. PICK put \in BotStates : job' = [job EXCEPT ![w] = [job[w] EXCEPT !.pc = "control", !.put = put]]
          BY <3>2 DEF ControlRead, TypeOK, BotStates, Actions
        <5> QED
          BY <5>1, <5>2, JobFieldTypes, JobUpdateType
      <4>2. user' \in UserRow
        BY <3>2, UserFieldTypes DEF ControlRead, TypeOK
      <4> QED
        BY <3>2, <4>1, <4>2 DEF ControlRead, TypeOK, Change
    <3> QED
      BY <2>1, <3>1, <3>2 DEF Request
  <2>2. ASSUME NEW w \in Workers, Serve(w) PROVE TypeOK'
    <3> w \in Procs
      BY DEF Procs
    <3>1. CASE WaitStatusDecide(w)
      <4>1. job' \in [Procs -> Job]
        BY <3>1, JobTypes DEF WaitStatusDecide, PCs
      <4>2. cycles' \in [Symbols -> Cycle]
        BY <3>1, DeleteRowType DEF WaitStatusDecide, TypeOK, Job
      <4> QED
        BY <3>1, <4>1, <4>2 DEF WaitStatusDecide, TypeOK
    <3>2. CASE ControlWrite(w)
      <4>1. job' \in [Procs -> Job]
        BY <3>2, JobTypes DEF ControlWrite
      <4>2. bot' \in BotStates /\ late' \in [denial : Nat, stop : Nat]
        BY <3>2 DEF ControlWrite, SetBot, TypeOK, Job
      <4> QED
        BY <3>2, <4>1, <4>2 DEF ControlWrite, TypeOK
    <3> QED
      BY <2>2, <3>1, <3>2 DEF Serve
  <2>3. ASSUME NEW p \in Procs, Analysis(p) PROVE TypeOK'
    <3>1. CASE Gate(p)
      <4> DEFINE status == AccessOf(job[p].snap)
      <4>1. job' \in [Procs -> Job]
        <5>1. CASE HasAccess(status) /\ bot = "running"
          <6>1. [FreeJob EXCEPT !.pc = "collect", !.sym = job[p].sym, !.via = status] \in Job
            <7>1. job[p].sym \in Symbols /\ "collect" \in PCs /\ status \in Granting
              BY <5>1 DEF HasAccess, PCs, TypeOK, Job
            <7> HIDE DEF status
            <7> QED
              BY <7>1, FreeJobType, JobFieldTypes
          <6> QED
            BY <3>1, <5>1, <6>1, JobUpdateType DEF Gate
        <5>2. CASE ~(HasAccess(status) /\ bot = "running")
          BY <3>1, <5>2, JobTypes DEF Gate
        <5> QED
          BY <5>1, <5>2
      <4>2. user' \in UserRow
        <5>1. job[p].sym \in Symbols /\ user \in UserRow
          BY DEF TypeOK, Job
        <5>2. user' = user \/ user' = [user EXCEPT !.market = job[p].sym]
          BY <3>1 DEF Gate
        <5> QED
          BY <5>1, <5>2, UserFieldTypes
      <4> QED
        BY <3>1, <4>1, <4>2 DEF Gate, TypeOK
    <3>2. CASE Judge(p)
      <4>1. job' \in [Procs -> Job]
        <5>1. job[p] \in Job /\ {"wait", "create"} \subseteq PCs
          BY DEF TypeOK, PCs
        <5>2. CASE Goto(p, "wait") \/ Finish(p)
          BY <5>1, <5>2, JobTypes
        <5>3. ASSUME NEW d \in Directions, job' = [job EXCEPT ![p].pc = "create", ![p].dir = d]
              PROVE  job' \in [Procs -> Job]
          <6>1. job' = [job EXCEPT ![p] = [job[p] EXCEPT !.pc = "create", !.dir = d]]
            BY <5>3 DEF TypeOK
          <6> QED
            BY <5>1, <6>1, JobFieldTypes, JobUpdateType
        <5> QED
          BY <3>2, <5>2, <5>3 DEF Judge, Undecided, Directed
      <4> QED
        BY <3>2, <4>1 DEF Judge, Undecided, Directed, TypeOK
    <3>3. CASE CreateSignal(p)
      <4>1. job' \in [Procs -> Job]
        BY <3>3, JobTypes DEF CreateSignal
      <4>2. cycles' \in [Symbols -> Cycle]
        <5>1. NoCycle \in Cycle
          BY DEF NoCycle, Cycle
        <5> QED
          BY <3>3, <5>1 DEF CreateSignal, TypeOK
      <4>3. signals' \in Seq(Signal)
        BY <3>3 DEF CreateSignal, TypeOK, Signal, Job, UserRow
      <4>4. late' \in [denial : Nat, stop : Nat]
        BY <3>3 DEF CreateSignal, LateAfterSignal, TypeOK
      <4> QED
        BY <3>3, <4>1, <4>2, <4>3, <4>4 DEF CreateSignal, TypeOK
    <3>4. CASE Deadline(p)
      BY <3>4, JobTypes DEF Deadline, TypeOK, PCs
    <3>5. CASE WaitRead(p)
      <4>1. job' \in [Procs -> Job]
        BY <3>5, JobTypes DEF WaitRead, PCs
      <4>2. cycles' \in [Symbols -> Cycle]
        BY <3>5 DEF WaitRead, TypeOK, Cycle
      <4> QED
        BY <3>5, <4>1, <4>2 DEF WaitRead, TypeOK
    <3>6. CASE WaitInsert(p)
      <4>1. job' \in [Procs -> Job]
        BY <3>6, JobTypes DEF WaitInsert
      <4>2. cycles' \in [Symbols -> Cycle] /\ rows' \in 0..MaxRows
        <5>1. rows < MaxRows => [id |-> rows + 1, due |-> FALSE] \in Cycle
          BY DEF Cycle, TypeOK
        <5> QED
          BY <3>6, <5>1 DEF WaitInsert, TypeOK
      <4> QED
        BY <3>6, <4>1, <4>2 DEF WaitInsert, TypeOK
    <3>7. CASE Fail(p)
      BY <3>7, JobTypes DEF Fail, TypeOK
    <3> QED
      BY <2>3, <3>1, <3>2, <3>3, <3>4, <3>5, <3>6, <3>7 DEF Analysis
  <2>4. CASE FetchDueCycles
    BY <2>4 DEF FetchDueCycles, TypeOK, Cycle
  <2>5. CASE HandleDueCycle
    <3>1. PICK b \in batch :
            /\ batch' = batch \ {b}
            /\ \/ /\ job' = [job EXCEPT ![Scheduler].pc = "gate", ![Scheduler].sym = b.sym,
                                        ![Scheduler].snap = b.snap]
                  /\ UNCHANGED cycles
               \/ DeleteRow(b.sym, b.row) /\ UNCHANGED job
      BY <2>5 DEF HandleDueCycle
    <3>2. b \in [sym : Symbols, row : 0..MaxRows, snap : UserRow]
      BY DEF TypeOK
    <3>3. cycles' \in [Symbols -> Cycle]
      BY <3>1, <3>2, DeleteRowType DEF TypeOK
    <3>4. job' \in [Procs -> Job]
      <4>1. Scheduler \in Procs /\ job[Scheduler] \in Job /\ "gate" \in PCs
        BY DEF TypeOK, Procs, PCs
      <4>2. CASE job' = [job EXCEPT ![Scheduler].pc = "gate", ![Scheduler].sym = b.sym,
                                    ![Scheduler].snap = b.snap]
        <5>1. job' = [job EXCEPT ![Scheduler] = [job[Scheduler] EXCEPT
                        !.pc = "gate", !.sym = b.sym, !.snap = b.snap]]
          BY <4>1, <4>2 DEF TypeOK
        <5> QED
          BY <3>2, <4>1, <5>1, JobFieldTypes, JobUpdateType
      <4> QED
        BY <3>1, <4>2 DEF TypeOK
    <3> QED
      BY <2>5, <3>1, <3>3, <3>4 DEF HandleDueCycle, TypeOK
  <2>6. CASE Environment
    <3>1. ASSUME NEW s \in Symbols, CycleExpires(s) PROVE TypeOK'
      BY <3>1 DEF CycleExpires, TypeOK, Cycle
    <3>2. ASSUME NEW s \in Symbols, SelectMarket(s) PROVE TypeOK'
      <4>1. user' \in UserRow
        BY <3>2, UserFieldTypes DEF SelectMarket, TypeOK
      <4> QED
        BY <3>2, <4>1 DEF SelectMarket, TypeOK, Change
    <3>3. ASSUME NEW i \in DOMAIN signals, SignalCloses(i) PROVE TypeOK'
      <4>1. signals' \in Seq(Signal)
        <5>1. signals[i] \in Signal
          BY DEF TypeOK
        <5>2. [signals[i] EXCEPT !.open = FALSE] \in Signal
          BY <5>1, Zenon DEF Signal
        <5> QED
          BY <3>3, <5>2 DEF SignalCloses, TypeOK
      <4> QED
        BY <3>3, <4>1 DEF SignalCloses, TypeOK
    <3>4. ASSUME NEW f \in Toggles, NEW v \in BOOLEAN, AdminUpdate(f, v) PROVE TypeOK'
      <4>1. user' \in UserRow
        BY <3>4, UserFieldTypes DEF AdminUpdate, TypeOK
      <4> QED
        BY <3>4, <4>1 DEF AdminUpdate, TypeOK, Change
    <3>5. CASE BotStatusExpires
      BY <3>5 DEF BotStatusExpires, SetBot, TypeOK, BotStates, Change
    <3>6. CASE ActivateTrial
      BY <3>6, UserFieldTypes DEF ActivateTrial, TypeOK, Change
    <3>7. CASE EntitlementChanges
      <4>1. [env EXCEPT !.paid = ~env.paid] \in Surroundings
        BY Zenon DEF TypeOK, Surroundings
      <4>2. [env EXCEPT !.trialOver = TRUE] \in Surroundings
        BY Zenon DEF TypeOK, Surroundings
      <4>3. env' \in Surroundings
        BY <3>7, <4>1, <4>2 DEF EntitlementChanges
      <4> QED
        BY <3>7, <4>3 DEF EntitlementChanges, TypeOK, Change
    <3> QED
      BY <2>6, <3>1, <3>2, <3>3, <3>4, <3>5, <3>6, <3>7 DEF Environment
  <2>7. CASE UNCHANGED vars
    BY <2>7 DEF vars, TypeOK
  <2> QED
    BY <2>1, <2>2, <2>3, <2>4, <2>5, <2>6, <2>7 DEF Next
<1> QED
  BY <1>1, <1>2, PTL DEF Spec

-----------------------------------------------------------------------------
(* The trial.                                                              *)

(* A trial once started stays started, so whatever copy of the row admits  *)
(* an analysis on the trial, the signal it issues is counted.              *)
TrialCounted ==
  /\ \A p \in Procs : job[p].snap.trial => user.trial
  /\ \A b \in batch : b.snap.trial => user.trial
  /\ TrialAdmitted # {} => user.trial
  /\ \A i \in TrialSignals : signals[i].counted

(* The steps that neither issue a signal nor admit an analysis.            *)
LEMMA SignalSets ==
  ASSUME TypeOK
  PROVE  /\ IsFiniteSet(TrialSignals) /\ Cardinality(TrialSignals) \in Nat
         /\ (\A i \in TrialSignals : signals[i].counted) => Cardinality(TrialSignals) <= SignalsUsed
<1> DEFINE C == {i \in DOMAIN signals : signals[i].counted}
<1>1. DOMAIN signals = 1..Len(signals) /\ Len(signals) \in Nat
  BY DEF TypeOK
<1>2. IsFiniteSet(DOMAIN signals)
  BY <1>1, FS_Interval
<1>3. TrialSignals \in SUBSET DOMAIN signals /\ C \in SUBSET DOMAIN signals
  BY DEF TrialSignals
<1>4. IsFiniteSet(TrialSignals) /\ IsFiniteSet(C)
  BY <1>2, <1>3, FS_Subset
<1>5. (\A i \in TrialSignals : signals[i].counted) => TrialSignals \in SUBSET C
  BY <1>3
<1> QED
  BY <1>4, <1>5, FS_Subset, FS_CardinalityType DEF SignalsUsed

(* Only a trial below its limit yields the status "trial".                 *)
LEMMA TrialStatus ==
  ASSUME NEW row, AccessOf(row) = "trial"
  PROVE  row.trial /\ SignalsUsed < TrialLimit
BY DEF AccessOf, BotAccessStatus, SubscriptionStatus, Granting

(* One process gets a new record, and nothing else matters to the trial.   *)
LEMMA TrialCountedJob ==
  ASSUME TypeOK, TrialCounted, NEW p \in Procs, NEW j, job' = [job EXCEPT ![p] = j],
         j.snap.trial => user.trial,
         j.pc \in Analysing /\ j.via = "trial" => user.trial,
         user'.trial = user.trial, batch' \subseteq batch, UNCHANGED signals
  PROVE  TrialCounted'
<1>1. \A q \in Procs : job'[q] = IF q = p THEN j ELSE job[q]
  BY DEF TypeOK
<1>2. TrialAdmitted' # {} => user.trial
  BY <1>1 DEF TrialAdmitted, TrialCounted
<1>3. TrialSignals' = TrialSignals
  BY DEF TrialSignals
<1> QED
  BY <1>1, <1>2, <1>3 DEF TrialCounted

LEMMA TrialCountedMove ==
  ASSUME TypeOK, TrialCounted, NEW p \in Procs, NEW pc,
         Finish(p) \/ (Goto(p, pc) /\ (pc \in Analysing => job[p].pc \in Analysing)),
         user'.trial = user.trial, batch' \subseteq batch, UNCHANGED signals
  PROVE  TrialCounted'
<1>1. CASE Finish(p)
  <2>1. ~FreeJob.snap.trial /\ FreeJob.pc \notin Analysing
    BY DEF FreeJob, NewUser, Analysing
  <2> QED
    BY <1>1, <2>1, TrialCountedJob DEF Finish
<1>2. CASE Goto(p, pc) /\ (pc \in Analysing => job[p].pc \in Analysing)
  <2> DEFINE j == [job[p] EXCEPT !.pc = pc]
  <2>1. job' = [job EXCEPT ![p] = j]
    BY <1>2 DEF Goto, TypeOK
  <2>2. j.snap = job[p].snap /\ j.via = job[p].via /\ j.pc = pc
    BY DEF TypeOK, Job
  <2>3. j.snap.trial => user.trial
    BY <2>2 DEF TrialCounted
  <2>4. j.pc \in Analysing /\ j.via = "trial" => user.trial
    BY <1>2, <2>2 DEF TrialCounted, TrialAdmitted
  <2> HIDE DEF j
  <2> QED
    BY <2>1, <2>3, <2>4, TrialCountedJob
<1> QED
  BY <1>1, <1>2

(* Every step preserves TrialCounted: the only action that admits reads    *)
(* the trial from its copy of the row, and no action ends a trial's start. *)
LEMMA TrialCountedStep ==
  ASSUME TypeOK, TrialCounted, [Next]_vars
  PROVE  TrialCounted'
<1> USE DEF TrialCounted, TrialAdmitted, TrialSignals
<1>0. NewUser.trial = FALSE /\ FreeJob.snap.trial = FALSE /\ FreeJob.pc \notin Analysing
  BY DEF NewUser, FreeJob, Analysing
<1>1. ASSUME NEW w \in Workers, Request(w) PROVE TrialCounted'
  <2> w \in Procs
    BY DEF Procs
  <2>1. ASSUME NEW pc \in {"gate", "poll"}, NEW s, NEW row, Begin(w, pc, s, row) PROVE TrialCounted'
    BY <2>1 DEF Begin, TypeOK, Analysing, Job
  <2>2. ASSUME NEW a \in Actions, NEW s \in Symbols, ControlRead(w, a, s) PROVE TrialCounted'
    BY <2>2 DEF ControlRead, TypeOK, Analysing, Job, UserRow
  <2> QED
    BY <1>1, <2>1, <2>2 DEF Request, AnalyzeRequest, WaitStatusRequest
<1>2. ASSUME NEW w \in Workers, Serve(w) PROVE TrialCounted'
  <2> w \in Procs
    BY DEF Procs
  <2> QED
    BY <1>2, TrialCountedMove DEF Serve, WaitStatusDecide, ControlWrite, Analysing
<1>3. ASSUME NEW p \in Procs, Analysis(p) PROVE TrialCounted'
  <2>1. CASE Gate(p)
    <3>1. user'.trial = user.trial
      BY <2>1 DEF Gate, TypeOK, UserRow
    <3>2. AccessOf(job[p].snap) = "trial" => user.trial
      BY TrialStatus
    <3> QED
      <4> DEFINE j == [FreeJob EXCEPT !.pc = "collect", !.sym = job[p].sym,
                                      !.via = AccessOf(job[p].snap)]
      <4>1. CASE Finish(p)
        BY <2>1, <3>1, <4>1, TrialCountedMove DEF Gate
      <4>2. CASE job' = [job EXCEPT ![p] = j]
        <5>1. ~j.snap.trial /\ j.via = AccessOf(job[p].snap)
          BY DEF FreeJob, NewUser
        <5> HIDE DEF j
        <5> QED
          BY <2>1, <3>1, <3>2, <4>2, <5>1, TrialCountedJob DEF Gate
      <4> QED
        BY <2>1, <4>1, <4>2 DEF Gate
  <2>2. CASE CreateSignal(p)
    <3>1. job[p].via = "trial" => user.trial
      BY <2>2 DEF CreateSignal, At, Analysing
    <3>2. \A i \in TrialSignals' : signals'[i].counted
      BY <2>2, <3>1 DEF CreateSignal, TypeOK
    <3> QED
      BY <1>0, <2>2, <3>2 DEF CreateSignal, Finish, TypeOK
  <2>3. CASE Judge(p) \/ Deadline(p) \/ WaitRead(p) \/ WaitInsert(p) \/ Fail(p)
    <3>1. At(p, "collect") \/ At(p, "create") \/ At(p, "wait") => job[p].pc \in Analysing
      BY DEF At, Analysing
    <3>2. CASE Deadline(p) \/ WaitRead(p) \/ WaitInsert(p) \/ Fail(p)
      BY <3>1, <3>2, TrialCountedMove DEF Deadline, WaitRead, WaitInsert, Fail
    <3>3. CASE Judge(p)
      <4>1. CASE Goto(p, "wait") \/ Finish(p)
        BY <3>1, <3>3, <4>1, TrialCountedMove DEF Judge, Undecided, Directed
      <4>2. ASSUME NEW d \in Directions, job' = [job EXCEPT ![p].pc = "create", ![p].dir = d]
            PROVE  TrialCounted'
        <5> DEFINE j == [job[p] EXCEPT !.pc = "create", !.dir = d]
        <5>1. job' = [job EXCEPT ![p] = j]
          BY <4>2 DEF TypeOK
        <5>2. j.snap = job[p].snap /\ j.via = job[p].via
          BY DEF TypeOK, Job
        <5>3. j.via = "trial" => user.trial
          BY <3>1, <3>3, <5>2 DEF Judge, Undecided, Directed
        <5>4. j.snap.trial => user.trial
          BY <5>2
        <5> HIDE DEF j
        <5> QED
          BY <3>3, <5>1, <5>3, <5>4, TrialCountedJob DEF Judge, Undecided, Directed
      <4> QED
        BY <3>3, <4>1, <4>2 DEF Judge, Undecided, Directed
    <3> QED
      BY <2>3, <3>2, <3>3
  <2> QED
    BY <1>3, <2>1, <2>2, <2>3 DEF Analysis
<1>4. CASE FetchDueCycles
  BY <1>4 DEF FetchDueCycles
<1>5. CASE HandleDueCycle
  <2>1. PICK b \in batch :
          /\ batch' = batch \ {b}
          /\ \/ job' = [job EXCEPT ![Scheduler].pc = "gate", ![Scheduler].sym = b.sym,
                                   ![Scheduler].snap = b.snap]
             \/ UNCHANGED job
    BY <1>5 DEF HandleDueCycle
  <2>2. CASE UNCHANGED job
    BY <1>5, <2>1, <2>2 DEF HandleDueCycle
  <2>3. CASE job' = [job EXCEPT ![Scheduler].pc = "gate", ![Scheduler].sym = b.sym,
                                ![Scheduler].snap = b.snap]
    <3> DEFINE j == [job[Scheduler] EXCEPT !.pc = "gate", !.sym = b.sym, !.snap = b.snap]
    <3>1. Scheduler \in Procs
      BY DEF Procs
    <3>2. job' = [job EXCEPT ![Scheduler] = j] /\ j.snap = b.snap /\ j.pc = "gate"
      BY <2>3, <3>1 DEF TypeOK, Job
    <3>3. j.pc \notin Analysing /\ (j.snap.trial => user.trial)
      BY <3>2 DEF Analysing
    <3> HIDE DEF j
    <3> QED
      BY <1>5, <2>1, <3>1, <3>2, <3>3, TrialCountedJob DEF HandleDueCycle
  <2> QED
    BY <2>1, <2>2, <2>3
<1>6. CASE Environment
  <2>1. user'.trial = user.trial \/ user'.trial
    BY <1>6 DEF Environment, CycleExpires, SelectMarket, SignalCloses, AdminUpdate, Toggles,
                BotStatusExpires, ActivateTrial, EntitlementChanges, TypeOK, UserRow
  <2>2. UNCHANGED <<job, batch>>
    BY <1>6 DEF Environment, CycleExpires, SelectMarket, SignalCloses, AdminUpdate,
                BotStatusExpires, ActivateTrial, EntitlementChanges
  <2>3. \A i \in TrialSignals' : signals'[i].counted
    <3>1. CASE UNCHANGED signals
      BY <3>1
    <3>2. ASSUME NEW i \in DOMAIN signals, SignalCloses(i) PROVE \A k \in TrialSignals' : signals'[k].counted
      BY <3>2 DEF SignalCloses, TypeOK, Signal
    <3> QED
      BY <1>6, <3>1, <3>2 DEF Environment, CycleExpires, SelectMarket, AdminUpdate,
                BotStatusExpires, ActivateTrial, EntitlementChanges
  <2> QED
    BY <2>1, <2>2, <2>3
<1>7. CASE UNCHANGED vars
  BY <1>7 DEF vars
<1> QED
  BY <1>1, <1>2, <1>3, <1>4, <1>5, <1>6, <1>7 DEF Next

LEMMA ProcsFinite == IsFiniteSet(Procs) /\ Cardinality(Procs) \in Nat \ {0}
<1>1. IsFiniteSet(Procs) /\ Procs # {}
  BY FS_AddElement, ProcessAssumption DEF Procs
<1> QED
  BY <1>1, FS_CardinalityType, FS_EmptySet

LEMMA AdmittedSize ==
  ASSUME NEW S \in SUBSET Procs
  PROVE  IsFiniteSet(S) /\ Cardinality(S) \in Nat /\ Cardinality(S) <= Cardinality(Procs)
BY ProcsFinite, FS_Subset, FS_CardinalityType

LEMMA TrialCountedInit == Init => TrialCounted
BY DEF Init, TrialCounted, TrialAdmitted, TrialSignals, FreeJob, NewUser, Analysing

(* A process that leaves the pipeline, or stays in it, without a signal.   *)
LEMMA QuotaMove ==
  ASSUME TypeOK, NEW p \in Procs, NEW j, job' = [job EXCEPT ![p] = j], UNCHANGED signals,
         j.pc \in Analysing /\ j.via = "trial" => p \in TrialAdmitted
  PROVE  [Quota!QuotaNext]_(Quota!quotaVars)
<1>1. \A q \in Procs : job'[q] = IF q = p THEN j ELSE job[q]
  BY DEF TypeOK
<1>2. TrialSignals' = TrialSignals
  BY DEF TrialSignals
<1>3. TrialAdmitted' = TrialAdmitted \/ (p \in TrialAdmitted /\ TrialAdmitted' = TrialAdmitted \ {p})
  BY <1>1 DEF TrialAdmitted
<1> QED
  BY <1>2, <1>3 DEF Quota!QuotaNext, Quota!Withdraw, Quota!quotaVars

LEMMA QuotaFinishOrGoto ==
  ASSUME TypeOK, NEW p \in Procs, NEW pc, UNCHANGED signals,
         Finish(p) \/ (Goto(p, pc) /\ (pc \in Analysing => job[p].pc \in Analysing))
  PROVE  [Quota!QuotaNext]_(Quota!quotaVars)
<1>1. CASE Finish(p)
  BY <1>1, QuotaMove DEF Finish, FreeJob, Analysing
<1>2. CASE Goto(p, pc) /\ (pc \in Analysing => job[p].pc \in Analysing)
  <2> DEFINE j == [job[p] EXCEPT !.pc = pc]
  <2>1. job' = [job EXCEPT ![p] = j] /\ j.pc = pc /\ j.via = job[p].via
    BY <1>2 DEF Goto, TypeOK, Job
  <2>2. j.pc \in Analysing /\ j.via = "trial" => p \in TrialAdmitted
    BY <1>2, <2>1 DEF TrialAdmitted
  <2> HIDE DEF j
  <2> QED
    BY <2>1, <2>2, QuotaMove
<1> QED
  BY <1>1, <1>2

(* Every step of the pipeline is a step of the quota or leaves it alone.   *)
LEMMA QuotaStep ==
  ASSUME TypeOK, TrialCounted, [Next]_vars
  PROVE  [Quota!QuotaNext]_(Quota!quotaVars)
<1>1. ASSUME NEW w \in Workers, Request(w) PROVE [Quota!QuotaNext]_(Quota!quotaVars)
  <2> w \in Procs
    BY DEF Procs
  <2>1. ASSUME NEW pc \in {"gate", "poll"}, NEW s, NEW row, Begin(w, pc, s, row)
        PROVE  [Quota!QuotaNext]_(Quota!quotaVars)
    <3> DEFINE j == [job[w] EXCEPT !.pc = pc, !.sym = s, !.row = row, !.snap = user]
    <3>1. job' = [job EXCEPT ![w] = j] /\ j.pc = pc
      BY <2>1 DEF Begin, TypeOK, Job
    <3> HIDE DEF j
    <3> QED
      BY <2>1, <3>1, QuotaMove DEF Begin, Analysing
  <2>2. ASSUME NEW a \in Actions, NEW s \in Symbols, ControlRead(w, a, s)
        PROVE  [Quota!QuotaNext]_(Quota!quotaVars)
    <3>1. PICK put : job' = [job EXCEPT ![w].pc = "control", ![w].put = put]
      BY <2>2 DEF ControlRead
    <3> DEFINE j == [job[w] EXCEPT !.pc = "control", !.put = put]
    <3>2. job' = [job EXCEPT ![w] = j] /\ j.pc = "control"
      BY <3>1 DEF TypeOK, Job
    <3> HIDE DEF j
    <3> QED
      BY <2>2, <3>2, QuotaMove DEF ControlRead, Analysing
  <2> QED
    BY <1>1, <2>1, <2>2 DEF Request, AnalyzeRequest, WaitStatusRequest
<1>2. ASSUME NEW w \in Workers, Serve(w) PROVE [Quota!QuotaNext]_(Quota!quotaVars)
  <2> w \in Procs
    BY DEF Procs
  <2> QED
    BY <1>2, QuotaFinishOrGoto DEF Serve, WaitStatusDecide, ControlWrite, Analysing
<1>3. ASSUME NEW p \in Procs, Analysis(p) PROVE [Quota!QuotaNext]_(Quota!quotaVars)
  <2>0. At(p, "collect") \/ At(p, "create") \/ At(p, "wait") => job[p].pc \in Analysing
    BY DEF At, Analysing
  <2>1. CASE Gate(p)
    <3> DEFINE j == [FreeJob EXCEPT !.pc = "collect", !.sym = job[p].sym,
                                    !.via = AccessOf(job[p].snap)]
    <3>1. CASE Finish(p)
      BY <2>1, <3>1, QuotaFinishOrGoto DEF Gate
    <3>2. CASE job' = [job EXCEPT ![p] = j]
      <4>1. \A q \in Procs : job'[q] = IF q = p THEN j ELSE job[q]
        BY <3>2 DEF TypeOK
      <4>2. j.pc = "collect" /\ j.via = AccessOf(job[p].snap) /\ p \notin TrialAdmitted
        BY <2>1 DEF FreeJob, Gate, At, TrialAdmitted, Analysing
      <4>3. UNCHANGED TrialSignals
        BY <2>1 DEF Gate, TrialSignals
      <4>4. CASE j.via = "trial"
        <5>1. TrialAdmitted' = TrialAdmitted \cup {p}
          BY <4>1, <4>2, <4>4 DEF TrialAdmitted, Analysing
        <5>2. SignalsUsed < TrialLimit
          BY <4>2, <4>4, TrialStatus
        <5>3. Cardinality(TrialSignals) < TrialLimit
          <6>1. SignalsUsed \in Nat
            <7>1. IsFiniteSet(DOMAIN signals)
              BY FS_Interval DEF TypeOK
            <7> QED
              BY <7>1, FS_Subset, FS_CardinalityType DEF SignalsUsed
          <6> QED
            BY <5>2, <6>1, SignalSets, TrialLimitAssumption DEF TrialCounted
        <5> QED
          BY <4>3, <5>1, <5>3 DEF Quota!QuotaNext, Quota!Admit, TrialSignals
      <4>5. CASE j.via # "trial"
        <5>1. TrialAdmitted' = TrialAdmitted
          BY <4>1, <4>2, <4>5 DEF TrialAdmitted
        <5> QED
          BY <4>3, <5>1 DEF Quota!quotaVars
      <4> QED
        BY <4>4, <4>5
    <3> QED
      BY <2>1, <3>1, <3>2 DEF Gate
  <2>2. CASE CreateSignal(p)
    <3> DEFINE n == Len(signals) + 1
    <3>1. /\ DOMAIN signals = 1..Len(signals) /\ Len(signals) \in Nat
          /\ DOMAIN signals' = 1..n
          /\ \A i \in DOMAIN signals : signals'[i] = signals[i]
          /\ signals'[n].via = job[p].via
      BY <2>2 DEF CreateSignal, TypeOK
    <3>2. \A q \in Procs : job'[q] = IF q = p THEN FreeJob ELSE job[q]
      BY <2>2 DEF CreateSignal, Finish, TypeOK
    <3>3. FreeJob.pc \notin Analysing
      BY DEF FreeJob, Analysing
    <3>4. CASE job[p].via = "trial"
      <4>1. TrialSignals' = TrialSignals \cup {n} /\ n \notin TrialSignals
        BY <3>1, <3>4 DEF TrialSignals
      <4>2. Cardinality(TrialSignals') = Cardinality(TrialSignals) + 1
        BY <4>1, SignalSets, FS_AddElement
      <4>3. p \in TrialAdmitted /\ TrialAdmitted' = TrialAdmitted \ {p}
        BY <2>0, <2>2, <3>2, <3>3, <3>4 DEF CreateSignal, TrialAdmitted
      <4> QED
        BY <4>2, <4>3 DEF Quota!QuotaNext, Quota!Issue
    <3>5. CASE job[p].via # "trial"
      <4>1. TrialSignals' = TrialSignals
        BY <3>1, <3>5 DEF TrialSignals
      <4>2. TrialAdmitted' = TrialAdmitted
        BY <3>2, <3>3, <3>5 DEF TrialAdmitted
      <4> QED
        BY <4>1, <4>2 DEF Quota!quotaVars
    <3> QED
      BY <3>4, <3>5
  <2>3. CASE Deadline(p) \/ WaitRead(p) \/ WaitInsert(p) \/ Fail(p)
    BY <2>0, <2>3, QuotaFinishOrGoto DEF Deadline, WaitRead, WaitInsert, Fail
  <2>4. CASE Judge(p)
    <3>1. CASE Goto(p, "wait") \/ Finish(p)
      BY <2>0, <2>4, <3>1, QuotaFinishOrGoto DEF Judge, Undecided, Directed
    <3>2. ASSUME NEW d \in Directions, job' = [job EXCEPT ![p].pc = "create", ![p].dir = d]
          PROVE  [Quota!QuotaNext]_(Quota!quotaVars)
      <4> DEFINE j == [job[p] EXCEPT !.pc = "create", !.dir = d]
      <4>1. job' = [job EXCEPT ![p] = j] /\ j.via = job[p].via
        BY <3>2 DEF TypeOK, Job
      <4>2. j.via = "trial" => p \in TrialAdmitted
        BY <2>0, <2>4, <4>1 DEF Judge, Undecided, Directed, TrialAdmitted
      <4> HIDE DEF j
      <4> QED
        BY <2>4, <4>1, <4>2, QuotaMove DEF Judge, Undecided, Directed
    <3> QED
      BY <2>4, <3>1, <3>2 DEF Judge, Undecided, Directed
  <2> QED
    BY <1>3, <2>1, <2>2, <2>3, <2>4 DEF Analysis
<1>4. CASE FetchDueCycles
  BY <1>4 DEF FetchDueCycles, Quota!quotaVars, TrialAdmitted, TrialSignals
<1>5. CASE HandleDueCycle
  <2>1. PICK b \in batch :
          \/ job' = [job EXCEPT ![Scheduler].pc = "gate", ![Scheduler].sym = b.sym,
                                ![Scheduler].snap = b.snap]
          \/ UNCHANGED job
    BY <1>5 DEF HandleDueCycle
  <2>2. CASE UNCHANGED job
    BY <1>5, <2>2 DEF HandleDueCycle, Quota!quotaVars, TrialAdmitted, TrialSignals
  <2>3. CASE job' = [job EXCEPT ![Scheduler].pc = "gate", ![Scheduler].sym = b.sym,
                                ![Scheduler].snap = b.snap]
    <3> DEFINE j == [job[Scheduler] EXCEPT !.pc = "gate", !.sym = b.sym, !.snap = b.snap]
    <3>1. Scheduler \in Procs
      BY DEF Procs
    <3>2. job' = [job EXCEPT ![Scheduler] = j] /\ j.pc = "gate"
      BY <2>3, <3>1 DEF TypeOK, Job
    <3> HIDE DEF j
    <3> QED
      BY <1>5, <3>1, <3>2, QuotaMove DEF HandleDueCycle, Analysing
  <2> QED
    BY <2>1, <2>2, <2>3
<1>6. CASE Environment
  <2>1. UNCHANGED job
    BY <1>6 DEF Environment, CycleExpires, SelectMarket, SignalCloses, AdminUpdate,
                BotStatusExpires, ActivateTrial, EntitlementChanges
  <2>2. TrialSignals' = TrialSignals
    <3>1. CASE UNCHANGED signals
      BY <3>1 DEF TrialSignals
    <3>2. ASSUME NEW i \in DOMAIN signals, SignalCloses(i) PROVE TrialSignals' = TrialSignals
      BY <3>2 DEF SignalCloses, TrialSignals, TypeOK, Signal
    <3> QED
      BY <1>6, <3>1, <3>2 DEF Environment, CycleExpires, SelectMarket, AdminUpdate,
                BotStatusExpires, ActivateTrial, EntitlementChanges
  <2> QED
    BY <2>1, <2>2 DEF Quota!quotaVars, TrialAdmitted
<1>7. CASE UNCHANGED vars
  BY <1>7 DEF vars, Quota!quotaVars, TrialAdmitted, TrialSignals
<1> QED
  BY <1>1, <1>2, <1>3, <1>4, <1>5, <1>6, <1>7 DEF Next

(* A signal is only ever issued on the trial by an analysis that was       *)
(* admitted on it while the limit was not reached: the pipeline implements *)
(* TrialQuota, whatever stale copies of the user's row its processes use.  *)
THEOREM PipelineImplementsQuota == Spec => TrialQuotaSpec
<1>1. Init => Quota!QuotaInit
  <2> SUFFICES ASSUME Init PROVE Quota!QuotaInit
    OBVIOUS
  <2>1. TrialAdmitted = {}
    BY DEF Init, TrialAdmitted, FreeJob, Analysing
  <2>2. TrialSignals = {}
    BY DEF Init, TrialSignals
  <2> QED
    BY <2>1, <2>2, FS_EmptySet DEF Quota!QuotaInit
<1>2. TypeOK /\ TrialCounted /\ [Next]_vars => TrialCounted'
  BY TrialCountedStep
<1>3. TypeOK /\ TrialCounted /\ [Next]_vars => [Quota!QuotaNext]_(Quota!quotaVars)
  BY QuotaStep
<1> QED
  BY <1>1, <1>2, <1>3, TypeCorrect, TrialCountedInit, PTL DEF Spec, TrialQuotaSpec, Quota!QuotaSpec

(* The signals of a sequence that were issued on the trial can be counted. *)
LEMMA TrialSignalsCount ==
  ASSUME NEW issued \in Seq(Signal)
  PROVE  Cardinality({i \in DOMAIN issued : issued[i].via = "trial"}) \in Nat
<1>1. IsFiniteSet(1..Len(issued)) /\ DOMAIN issued = 1..Len(issued)
  BY FS_Interval
<1> QED
  BY <1>1, FS_Subset, FS_CardinalityType

(* What bounds the signals of the trial: the analyses admitted on it will  *)
(* each issue one more at most.                                            *)
TrialReserve ==
  Cardinality(TrialSignals) + Cardinality(TrialAdmitted) <= (TrialLimit - 1) + Cardinality(Procs)

LEMMA TrialReserveStep ==
  ASSUME TypeOK, TypeOK', TrialReserve, [Quota!QuotaNext]_(Quota!quotaVars)
  PROVE  TrialReserve'
<1> DEFINE N == Cardinality(Procs)
           S == TrialSignals
           A == TrialAdmitted
<1>0. /\ A \in SUBSET Procs /\ A' \in SUBSET Procs /\ N \in Nat /\ TrialLimit \in Nat
      /\ Cardinality(S) \in Nat /\ Cardinality(S') \in Nat
  <2>1. A \in SUBSET Procs /\ A' \in SUBSET Procs
    BY DEF TrialAdmitted
  <2>2. Cardinality(S) \in Nat
    BY SignalSets
  <2>3. signals' \in Seq(Signal)
    BY DEF TypeOK
  <2>4. Cardinality(S') \in Nat
    BY <2>3, TrialSignalsCount DEF TrialSignals
  <2> QED
    BY <2>1, <2>2, <2>4, ProcsFinite, TrialLimitAssumption
<1>1. ASSUME NEW p \in Procs, Quota!Admit(p) PROVE TrialReserve'
  <2>1. Cardinality(A') \in Nat /\ Cardinality(A') <= N
    BY <1>0, AdmittedSize
  <2> QED
    BY <1>0, <1>1, <2>1 DEF Quota!Admit, TrialReserve
<1>2. ASSUME NEW p \in Procs, Quota!Issue(p) \/ Quota!Withdraw(p) PROVE TrialReserve'
  <2>1. p \in A /\ A' = A \ {p} /\ Cardinality(S') <= Cardinality(S) + 1
    BY <1>0, <1>2 DEF Quota!Issue, Quota!Withdraw
  <2>2. Cardinality(A) \in Nat /\ Cardinality(A') = Cardinality(A) - 1
    BY <1>0, <2>1, AdmittedSize, FS_RemoveElement
  <2> QED
    BY <1>0, <2>1, <2>2 DEF TrialReserve
<1>3. CASE UNCHANGED Quota!quotaVars
  BY <1>3 DEF Quota!quotaVars, TrialReserve
<1> QED
  BY <1>1, <1>2, <1>3 DEF Quota!QuotaNext

(* The trial limit is overshot by fewer signals than there are processes,  *)
(* for every limit and every number of threads: subscription_status is     *)
(* read at the gate of the pipeline and not again before the insertion.    *)
THEOREM TrialOvershootBound == Spec => []TrialOvershoot
<1> DEFINE Inv == TypeOK /\ TrialCounted /\ TrialReserve
<1>1. Init /\ TypeOK => TrialReserve
  <2> SUFFICES ASSUME Init, TypeOK PROVE TrialReserve
    OBVIOUS
  <2>1. TrialAdmitted = {} /\ TrialSignals = {}
    BY DEF Init, TrialAdmitted, TrialSignals, FreeJob, Analysing
  <2> QED
    BY <2>1, FS_EmptySet, ProcsFinite, TrialLimitAssumption DEF TrialReserve
<1>2. TypeOK /\ TypeOK' /\ TrialCounted /\ TrialReserve /\ [Next]_vars => TrialReserve'
  BY QuotaStep, TrialReserveStep
<1>3. TypeOK /\ TrialCounted /\ [Next]_vars => TrialCounted'
  BY TrialCountedStep
<1>4. TypeOK /\ TrialReserve => TrialOvershoot
  <2> SUFFICES ASSUME TypeOK, TrialReserve PROVE TrialOvershoot
    OBVIOUS
  <2>1. Cardinality(TrialAdmitted) \in Nat
    BY AdmittedSize DEF TrialAdmitted
  <2> QED
    BY <2>1, SignalSets, ProcsFinite, TrialLimitAssumption DEF TrialReserve, TrialOvershoot
<1> QED
  BY <1>1, <1>2, <1>3, <1>4, TypeCorrect, TrialCountedInit, PTL DEF Spec

-----------------------------------------------------------------------------
(* The kinds of steps, as far as the bounds that follow tell them apart    *)

\* Nothing happens to the job of another process than p.
Only(p) == \A q \in Procs \ {p} : job'[q] = job[q]

\* A request begins, with the user's row as it is.
Arrives(w) ==
  /\ Only(w) /\ At(w, "free")
  /\ \/ job'[w].pc \in {"gate", "poll"} /\ job'[w].snap = user
     \/ job'[w].pc = "control"
  /\ user'.denied = user.denied
  /\ UNCHANGED <<bot, signals, batch, late>>

\* A process gets on, or ends, and neither admits nor issues.
MovesOn(p) ==
  /\ Only(p) /\ ~ At(p, "free")
  /\ \/ job'[p].pc \in {"free", "wait", "insert"}
     \/ At(p, "poll") /\ job'[p].pc = "gate" /\ job'[p].snap = job[p].snap
  /\ UNCHANGED <<user, bot, signals, batch, late>>

\* The bot's status is written.
Controls(w) ==
  /\ Only(w) /\ At(w, "control") /\ job'[w].pc = "free"
  /\ SetBot(job[w].put)
  /\ UNCHANGED <<user, signals, batch>>

\* The gate lets an analysis pass.
Admits(p) ==
  /\ Only(p) /\ At(p, "gate") /\ ~ job[p].snap.denied /\ bot = "running"
  /\ job'[p].pc = "collect"
  /\ user'.denied = user.denied
  /\ UNCHANGED <<bot, signals, batch, late>>

\* An analysis finds a direction, and no signal that answers it.
Decides(p) ==
  /\ Only(p) /\ At(p, "collect") /\ job'[p].pc = "create"
  /\ OpenSignals(job'[p].sym, job'[p].dir) = {}
  /\ UNCHANGED <<user, bot, signals, batch, late>>

\* An analysis issues signal n.
Issues(p, n) ==
  /\ Only(p) /\ At(p, "create") /\ job'[p].pc = "free"
  /\ n \notin DOMAIN signals /\ DOMAIN signals' = DOMAIN signals \cup {n}
  /\ \A i \in DOMAIN signals : signals'[i] = signals[i]
  /\ signals'[n].sym = job[p].sym /\ signals'[n].dir = job[p].dir /\ signals'[n].open
  /\ late' = LateAfterSignal
  /\ UNCHANGED <<user, bot, batch>>

\* The scheduler fetches a batch, with the user's row as it is ...
Fetches ==
  /\ At(Scheduler, "free") /\ batch = {}
  /\ IsFiniteSet(batch') /\ Cardinality(batch') <= Cardinality(Symbols)
  /\ \A b \in batch' : b.snap = user
  /\ UNCHANGED <<user, bot, signals, job, late>>

\* ... and handles a row of it.
Takes(b) ==
  /\ At(Scheduler, "free") /\ batch' = batch \ {b}
  /\ Only(Scheduler)
  /\ \/ job'[Scheduler] = job[Scheduler]
     \/ job'[Scheduler].pc = "gate" /\ job'[Scheduler].snap = b.snap /\ ~ b.snap.denied
  /\ UNCHANGED <<user, bot, signals, late>>

\* What happens around the processes.
Surrounds ==
  /\ UNCHANGED <<job, batch>>
  /\ \A s \in Symbols, d \in Directions : OpenSignals(s, d)' \subseteq OpenSignals(s, d)
  /\ \/ UNCHANGED <<bot, late>> /\ user'.denied = user.denied
     \/ SetBot("idle") /\ UNCHANGED user
     \/ UNCHANGED bot /\ late' = [late EXCEPT !.denial = 0]

(* The job of one process is replaced.                                     *)
LEMMA JobReplaced ==
  ASSUME TypeOK, NEW p \in Procs, NEW j, job' = [job EXCEPT ![p] = j]
  PROVE  Only(p) /\ job'[p] = j
BY DEF TypeOK, Only

LEMMA JobMoved ==
  ASSUME TypeOK, NEW p \in Procs
  PROVE  /\ Finish(p) => Only(p) /\ job'[p].pc = "free"
         /\ \A pc : Goto(p, pc) => /\ Only(p)
                                   /\ job'[p].pc = pc /\ job'[p].snap = job[p].snap
<1>1. Finish(p) => Only(p) /\ job'[p].pc = "free"
  <2>1. FreeJob.pc = "free"
    BY DEF FreeJob
  <2> QED
    BY <2>1, JobReplaced DEF Finish
<1>2. ASSUME NEW pc, Goto(p, pc)
      PROVE  Only(p) /\ job'[p].pc = pc /\ job'[p].snap = job[p].snap
  <2> DEFINE j == [job[p] EXCEPT !.pc = pc]
  <2>1. job' = [job EXCEPT ![p] = j] /\ j.pc = pc /\ j.snap = job[p].snap
    BY <1>2 DEF Goto, TypeOK, Job
  <2> HIDE DEF j
  <2> QED
    BY <2>1, JobReplaced
<1> QED
  BY <1>1, <1>2

(* A denied row does not grant access.                                     *)
LEMMA DeniedHasNoAccess ==
  ASSUME NEW row, HasAccess(AccessOf(row))
  PROVE  ~ row.denied
BY DEF AccessOf, BotAccessStatus, SubscriptionStatus, HasAccess, Granting

LEMMA RequestKind ==
  ASSUME TypeOK, NEW w \in Workers, Request(w) \/ Serve(w)
  PROVE  Arrives(w) \/ MovesOn(w) \/ Controls(w)
<1> w \in Procs /\ job[w] \in Job /\ user \in UserRow
  BY DEF Procs, TypeOK
<1>1. ASSUME NEW pc \in {"gate", "poll"}, NEW s, NEW row, Begin(w, pc, s, row) PROVE Arrives(w)
  <2> DEFINE j == [job[w] EXCEPT !.pc = pc, !.sym = s, !.row = row, !.snap = user]
  <2>1. job' = [job EXCEPT ![w] = j] /\ j.pc = pc /\ j.snap = user
    BY <1>1 DEF Begin, TypeOK, Job
  <2> HIDE DEF j
  <2> QED
    BY <1>1, <2>1, JobReplaced DEF Begin, Arrives
<1>2. ASSUME NEW a \in Actions, NEW s \in Symbols, ControlRead(w, a, s) PROVE Arrives(w)
  <2>1. PICK put : job' = [job EXCEPT ![w].pc = "control", ![w].put = put]
    BY <1>2 DEF ControlRead
  <2> DEFINE j == [job[w] EXCEPT !.pc = "control", !.put = put]
  <2>2. job' = [job EXCEPT ![w] = j] /\ j.pc = "control"
    BY <2>1 DEF TypeOK, Job
  <2> HIDE DEF j
  <2>3. user'.denied = user.denied
    BY <1>2 DEF ControlRead, UserRow
  <2> QED
    BY <1>2, <2>2, <2>3, JobReplaced DEF ControlRead, Arrives
<1>3. CASE WaitStatusDecide(w)
  BY <1>3, JobMoved DEF WaitStatusDecide, MovesOn, At
<1>4. CASE ControlWrite(w)
  BY <1>4, JobMoved DEF ControlWrite, Controls
<1> QED
  BY <1>1, <1>2, <1>3, <1>4 DEF Request, AnalyzeRequest, WaitStatusRequest, Serve

LEMMA AnalysisKind ==
  ASSUME TypeOK, NEW p \in Procs, Analysis(p)
  PROVE  MovesOn(p) \/ Admits(p) \/ Decides(p) \/ \E n : Issues(p, n)
<1> job[p] \in Job /\ user \in UserRow
  BY DEF TypeOK
<1>1. CASE Gate(p)
  <2> DEFINE status == AccessOf(job[p].snap)
             j      == [FreeJob EXCEPT !.pc = "collect", !.sym = job[p].sym, !.via = status]
  <2>1. CASE HasAccess(status) /\ bot = "running"
    <3>1. job' = [job EXCEPT ![p] = j] /\ j.pc = "collect"
      BY <1>1, <2>1 DEF Gate, FreeJob
    <3>2. ~ job[p].snap.denied
      BY <2>1, DeniedHasNoAccess
    <3>3. user'.denied = user.denied
      BY <1>1, <2>1 DEF Gate, UserRow
    <3> HIDE DEF j
    <3>4. Only(p) /\ job'[p] = j
      BY <3>1, JobReplaced
    <3> QED
      BY <1>1, <2>1, <3>1, <3>2, <3>3, <3>4 DEF Gate, Admits
  <2>2. CASE ~ (HasAccess(status) /\ bot = "running")
    <3>1. Finish(p) /\ UNCHANGED user
      BY <1>1, <2>2 DEF Gate
    <3> QED
      BY <1>1, <3>1, JobMoved DEF Gate, MovesOn, At
  <2> QED
    BY <2>1, <2>2
<1>2. CASE Judge(p)
  <2>1. CASE Goto(p, "wait") \/ Finish(p)
    BY <1>2, <2>1, JobMoved DEF Judge, MovesOn, At
  <2>2. ASSUME NEW d \in Directions, OpenSignals(job[p].sym, d) = {},
               job' = [job EXCEPT ![p].pc = "create", ![p].dir = d]
        PROVE  Decides(p)
    <3> DEFINE j == [job[p] EXCEPT !.pc = "create", !.dir = d]
    <3>1. job' = [job EXCEPT ![p] = j] /\ j.pc = "create" /\ j.sym = job[p].sym /\ j.dir = d
      BY <2>2 DEF TypeOK, Job
    <3> HIDE DEF j
    <3>2. Only(p) /\ job'[p] = j
      BY <3>1, JobReplaced
    <3> QED
      BY <1>2, <2>2, <3>1, <3>2 DEF Judge, Decides
  <2>3. Undecided(p) \/ \E d \in Directions : Directed(p, d)
    BY <1>2 DEF Judge
  <2> QED
    BY <2>1, <2>2, <2>3 DEF Undecided, Directed
<1>3. CASE CreateSignal(p)
  <2> DEFINE n   == Len(signals) + 1
             new == [sym |-> job[p].sym, dir |-> job[p].dir, via |-> job[p].via,
                     counted |-> user.trial, open |-> TRUE]
  <2>1. new \in Signal /\ signals' = Append(signals, new) /\ signals \in Seq(Signal)
    BY <1>3 DEF CreateSignal, TypeOK, Signal, Job, UserRow
  <2>2. new.sym = job[p].sym /\ new.dir = job[p].dir /\ new.open
    OBVIOUS
  <2> HIDE DEF new
  <2>3. /\ n \notin DOMAIN signals /\ DOMAIN signals' = DOMAIN signals \cup {n}
        /\ \A i \in DOMAIN signals : signals'[i] = signals[i]
        /\ signals'[n] = new
    BY <2>1
  <2>4. Only(p) /\ job'[p].pc = "free"
    BY <1>3, JobMoved DEF CreateSignal
  <2> HIDE DEF n
  <2> QED
    BY <1>3, <2>2, <2>3, <2>4 DEF CreateSignal, Issues
<1>4. CASE Deadline(p) \/ WaitRead(p) \/ WaitInsert(p) \/ Fail(p)
  BY <1>4, JobMoved DEF Deadline, WaitRead, WaitInsert, Fail, MovesOn, At
<1> QED
  BY <1>1, <1>2, <1>3, <1>4 DEF Analysis

LEMMA SchedulerKind ==
  ASSUME TypeOK
  PROVE  /\ FetchDueCycles => Fetches
         /\ HandleDueCycle => \E b \in batch : Takes(b)
<1> Scheduler \in Procs
  BY DEF Procs
<1>1. ASSUME FetchDueCycles PROVE Fetches
  <2>1. PICK fetched \in SUBSET {s \in Symbols : cycles[s].due} :
           batch' = {[sym |-> s, row |-> cycles[s].id, snap |-> user] : s \in fetched}
    BY <1>1 DEF FetchDueCycles
  <2>2. IsFiniteSet(fetched) /\ Cardinality(fetched) <= Cardinality(Symbols)
        /\ Cardinality(fetched) \in Nat /\ Cardinality(Symbols) \in Nat
    BY SymbolAssumption, FS_Subset, FS_CardinalityType
  <2>3. [s \in fetched |-> [sym |-> s, row |-> cycles[s].id, snap |-> user]]
            \in Surjection(fetched, batch')
    BY <2>1 DEF Surjection
  <2>4. IsFiniteSet(batch') /\ Cardinality(batch') <= Cardinality(fetched)
    BY <2>2, <2>3, FS_Surjection
  <2>5. Cardinality(batch') <= Cardinality(Symbols)
    BY <2>2, <2>4, FS_CardinalityType
  <2>6. \A b \in batch' : b.snap = user
    BY <2>1
  <2> QED
    BY <1>1, <2>4, <2>5, <2>6 DEF FetchDueCycles, Fetches
<1>2. ASSUME HandleDueCycle PROVE \E b \in batch : Takes(b)
  <2>1. PICK b \in batch :
          /\ batch' = batch \ {b}
          /\ \/ /\ HasAccess(AccessOf(b.snap))
                /\ job' = [job EXCEPT ![Scheduler].pc = "gate", ![Scheduler].sym = b.sym,
                                      ![Scheduler].snap = b.snap]
             \/ UNCHANGED job
    BY <1>2 DEF HandleDueCycle
  <2>2. CASE UNCHANGED job
    BY <1>2, <2>1, <2>2 DEF HandleDueCycle, Takes, Only
  <2>3. CASE /\ HasAccess(AccessOf(b.snap))
             /\ job' = [job EXCEPT ![Scheduler].pc = "gate", ![Scheduler].sym = b.sym,
                                   ![Scheduler].snap = b.snap]
    <3> DEFINE j == [job[Scheduler] EXCEPT !.pc = "gate", !.sym = b.sym, !.snap = b.snap]
    <3>1. job' = [job EXCEPT ![Scheduler] = j] /\ j.pc = "gate" /\ j.snap = b.snap
      BY <2>3 DEF TypeOK, Job
    <3> HIDE DEF j
    <3>2. Only(Scheduler) /\ job'[Scheduler] = j
      BY <3>1, JobReplaced
    <3>3. ~ b.snap.denied
      BY <2>3, DeniedHasNoAccess
    <3> QED
      BY <1>2, <2>1, <3>1, <3>2, <3>3 DEF HandleDueCycle, Takes
  <2> QED
    BY <2>1, <2>2, <2>3
<1> QED
  BY <1>1, <1>2

LEMMA EnvironmentKind ==
  ASSUME TypeOK, Environment \/ UNCHANGED vars
  PROVE  Surrounds
<1>1. ASSUME UNCHANGED signals
      PROVE  \A s \in Symbols, d \in Directions : OpenSignals(s, d)' \subseteq OpenSignals(s, d)
  BY <1>1 DEF OpenSignals
<1>2. ASSUME NEW s \in Symbols, CycleExpires(s) \/ SelectMarket(s) PROVE Surrounds
  <2>1. user'.denied = user.denied
    BY <1>2 DEF CycleExpires, SelectMarket, TypeOK, UserRow
  <2> QED
    BY <1>1, <1>2, <2>1 DEF CycleExpires, SelectMarket, Surrounds
<1>3. ASSUME NEW i \in DOMAIN signals, SignalCloses(i) PROVE Surrounds
  <2>1. \A s \in Symbols, d \in Directions : OpenSignals(s, d)' \subseteq OpenSignals(s, d)
    BY <1>3 DEF SignalCloses, OpenSignals, TypeOK, Signal
  <2> QED
    BY <1>3, <2>1 DEF SignalCloses, Surrounds
<1>4. ASSUME NEW f \in Toggles, NEW v \in BOOLEAN, AdminUpdate(f, v) PROVE Surrounds
  <2>1. CASE f = "denied"
    BY <1>1, <1>4, <2>1 DEF AdminUpdate, Surrounds
  <2>2. CASE f # "denied"
    <3>1. user'.denied = user.denied
      BY <1>4, <2>2 DEF AdminUpdate, TypeOK, UserRow
    <3> QED
      BY <1>1, <1>4, <2>2, <3>1 DEF AdminUpdate, Surrounds
  <2> QED
    BY <2>1, <2>2
<1>5. CASE BotStatusExpires
  BY <1>1, <1>5 DEF BotStatusExpires, Surrounds
<1>6. CASE ActivateTrial \/ EntitlementChanges
  <2>1. user'.denied = user.denied
    BY <1>6 DEF ActivateTrial, EntitlementChanges, TypeOK, UserRow
  <2> QED
    BY <1>1, <1>6, <2>1 DEF ActivateTrial, EntitlementChanges, Surrounds
<1>7. CASE UNCHANGED vars
  BY <1>1, <1>7 DEF vars, Surrounds
<1> QED
  BY <1>2, <1>3, <1>4, <1>5, <1>6, <1>7 DEF Environment

LEMMA StepKind ==
  ASSUME TypeOK, [Next]_vars
  PROVE  \/ \E w \in Workers : Arrives(w) \/ Controls(w)
         \/ \E p \in Procs : MovesOn(p) \/ Admits(p) \/ Decides(p) \/ \E n : Issues(p, n)
         \/ Fetches
         \/ \E b \in batch : Takes(b)
         \/ Surrounds
<1>1. ASSUME NEW w \in Workers, Request(w) \/ Serve(w)
      PROVE  Arrives(w) \/ Controls(w) \/ \E p \in Procs : MovesOn(p)
  BY <1>1, RequestKind DEF Procs
<1> QED
  BY <1>1, AnalysisKind, SchedulerKind, EnvironmentKind DEF Next

(* When one process may enter or leave a set of processes, its size is     *)
(* known.                                                                  *)
LEMMA SetMove ==
  ASSUME NEW S \in SUBSET Procs, NEW T \in SUBSET Procs, NEW p \in Procs, T \ {p} = S \ {p}
  PROVE  /\ Cardinality(S) \in Nat /\ Cardinality(T) \in Nat
         /\ Cardinality(T) <= Cardinality(Procs) /\ Cardinality(Procs) \in Nat
         /\ Cardinality(T) + (IF p \in S THEN 1 ELSE 0) = Cardinality(S) + (IF p \in T THEN 1 ELSE 0)
<1>1. IsFiniteSet(S) /\ IsFiniteSet(T) /\ Cardinality(S) \in Nat /\ Cardinality(T) \in Nat
  BY AdmittedSize
<1>2. /\ Cardinality(S \ {p}) = IF p \in S THEN Cardinality(S) - 1 ELSE Cardinality(S)
      /\ Cardinality(T \ {p}) = IF p \in T THEN Cardinality(T) - 1 ELSE Cardinality(T)
  BY <1>1, FS_RemoveElement
<1> QED
  BY <1>1, <1>2, AdmittedSize, ProcsFinite

-----------------------------------------------------------------------------
(* Signals that are open together                                          *)

Creating(s, d) == {p \in Procs : At(p, "create") /\ job[p].sym = s /\ job[p].dir = d}

\* An analysis looks for an open signal before it creates one, so those that are
\* about to create one count as if they had.
OpenReserve(s, d) ==
  Cardinality(OpenSignals(s, d)) + Cardinality(Creating(s, d)) <= Cardinality(Procs)

LEMMA OpenSignalsSize ==
  ASSUME TypeOK, NEW s, NEW d
  PROVE  IsFiniteSet(OpenSignals(s, d)) /\ Cardinality(OpenSignals(s, d)) \in Nat
<1>1. IsFiniteSet(DOMAIN signals) /\ OpenSignals(s, d) \subseteq DOMAIN signals
  BY FS_Interval DEF TypeOK, OpenSignals
<1> QED
  BY <1>1, FS_Subset, FS_CardinalityType

LEMMA OpenReserveStep ==
  ASSUME TypeOK, [Next]_vars, NEW s \in Symbols, NEW d \in Directions, OpenReserve(s, d)
  PROVE  OpenReserve(s, d)'
<1> DEFINE S == Creating(s, d)
           T == Creating(s, d)'
<1> S \in SUBSET Procs /\ T \in SUBSET Procs /\ IsFiniteSet(OpenSignals(s, d))
    /\ Cardinality(OpenSignals(s, d)) \in Nat
  BY OpenSignalsSize DEF Creating
<1>1. ASSUME NEW p \in Procs, Only(p)
      PROVE  /\ T \ {p} = S \ {p}
             /\ p \in S <=> At(p, "create") /\ job[p].sym = s /\ job[p].dir = d
             /\ p \in T <=> job'[p].pc = "create" /\ job'[p].sym = s /\ job'[p].dir = d
  BY <1>1 DEF Only, Creating, At
<1>2. ASSUME UNCHANGED signals PROVE OpenSignals(s, d)' = OpenSignals(s, d)
  BY <1>2 DEF OpenSignals
<1>3. ASSUME OpenSignals(s, d)' \subseteq OpenSignals(s, d), NEW p \in Procs, Only(p), p \notin T
      PROVE  OpenReserve(s, d)'
  <2>1. /\ Cardinality(OpenSignals(s, d)') \in Nat
        /\ Cardinality(OpenSignals(s, d)') <= Cardinality(OpenSignals(s, d))
    BY <1>3, FS_Subset, FS_CardinalityType
  <2> HIDE DEF S, T
  <2>2. /\ Cardinality(S) \in Nat /\ Cardinality(T) \in Nat /\ Cardinality(Procs) \in Nat
        /\ Cardinality(T) <= Cardinality(S)
    BY <1>1, <1>3, SetMove
  <2> USE DEF S, T
  <2> QED
    BY <2>1, <2>2 DEF OpenReserve
<1>4. ASSUME NEW p \in Procs, Arrives(p) \/ MovesOn(p) \/ Controls(p) \/ Admits(p)
      PROVE  OpenReserve(s, d)'
  <2>1. Only(p) /\ job'[p].pc # "create" /\ UNCHANGED signals
    BY <1>4 DEF Arrives, MovesOn, Controls, Admits
  <2> QED
    BY <1>1, <1>2, <1>3, <2>1
<1>5. ASSUME NEW p \in Procs, Decides(p) PROVE OpenReserve(s, d)'
  <2>1. CASE job'[p].sym = s /\ job'[p].dir = d
    <3>1. Cardinality(OpenSignals(s, d)') = 0
      BY <1>2, <1>5, <2>1, FS_EmptySet DEF Decides
    <3>2. Cardinality(T) \in Nat /\ Cardinality(T) <= Cardinality(Procs) /\ Cardinality(Procs) \in Nat
      BY AdmittedSize, ProcsFinite
    <3> QED
      BY <3>1, <3>2 DEF OpenReserve
  <2>2. CASE ~ (job'[p].sym = s /\ job'[p].dir = d)
    BY <1>1, <1>2, <1>3, <1>5, <2>2 DEF Decides
  <2> QED
    BY <2>1, <2>2
<1>6. ASSUME NEW p \in Procs, NEW n, Issues(p, n) PROVE OpenReserve(s, d)'
  <2>1. Only(p) /\ p \notin T
    BY <1>1, <1>6 DEF Issues
  <2>2. CASE job[p].sym = s /\ job[p].dir = d
    <3>1. OpenSignals(s, d)' = OpenSignals(s, d) \cup {n} /\ n \notin OpenSignals(s, d)
      BY <1>6, <2>2 DEF Issues, OpenSignals
    <3>2. Cardinality(OpenSignals(s, d)') = Cardinality(OpenSignals(s, d)) + 1
      BY <3>1, FS_AddElement
    <3>3. p \in S
      BY <1>1, <1>6, <2>1, <2>2 DEF Issues
    <3> HIDE DEF S, T
    <3>4. /\ Cardinality(S) \in Nat /\ Cardinality(T) \in Nat /\ Cardinality(Procs) \in Nat
          /\ Cardinality(T) + 1 = Cardinality(S)
      BY <1>1, <2>1, <3>3, SetMove
    <3> USE DEF S, T
    <3> QED
      BY <3>2, <3>4 DEF OpenReserve
  <2>3. CASE ~ (job[p].sym = s /\ job[p].dir = d)
    <3>1. OpenSignals(s, d)' = OpenSignals(s, d)
      BY <1>6, <2>3 DEF Issues, OpenSignals
    <3> QED
      BY <1>3, <2>1, <3>1
  <2> QED
    BY <2>2, <2>3
<1>7. ASSUME UNCHANGED job, OpenSignals(s, d)' \subseteq OpenSignals(s, d) PROVE OpenReserve(s, d)'
  <2>1. /\ Cardinality(OpenSignals(s, d)') \in Nat
        /\ Cardinality(OpenSignals(s, d)') <= Cardinality(OpenSignals(s, d))
    BY <1>7, FS_Subset, FS_CardinalityType
  <2>2. T = S
    BY <1>7 DEF Creating, At
  <2>3. Cardinality(S) \in Nat /\ Cardinality(Procs) \in Nat
    BY AdmittedSize, ProcsFinite
  <2> QED
    BY <2>1, <2>2, <2>3 DEF OpenReserve
<1>8. CASE Fetches
  BY <1>2, <1>7, <1>8 DEF Fetches
<1>9. ASSUME NEW b \in batch, Takes(b) PROVE OpenReserve(s, d)'
  <2> Scheduler \in Procs
    BY DEF Procs
  <2>1. Only(Scheduler) /\ job'[Scheduler].pc # "create" /\ UNCHANGED signals
    BY <1>9 DEF Takes, At
  <2> QED
    BY <1>1, <1>2, <1>3, <2>1
<1>10. CASE Surrounds
  BY <1>7, <1>10 DEF Surrounds
<1>11. \A w \in Workers : w \in Procs
  BY DEF Procs
<1> QED
  BY <1>4, <1>5, <1>6, <1>8, <1>9, <1>10, <1>11, StepKind

\* Signals of one market and direction are open together only as far as analyses
\* looked for an open signal at the same time: never more than there are
\* processes, for any number of them and of signals. (_run_analysis_pipeline)
THEOREM OpenSignalsBound == Spec => []OpenSignalsBounded
<1> DEFINE Inv == \A s \in Symbols, d \in Directions : OpenReserve(s, d)
<1>1. Init => Inv
  <2> SUFFICES ASSUME Init, NEW s \in Symbols, NEW d \in Directions PROVE OpenReserve(s, d)
    OBVIOUS
  <2>1. OpenSignals(s, d) = {} /\ Creating(s, d) = {}
    BY DEF Init, OpenSignals, Creating, At, FreeJob
  <2> QED
    BY <2>1, FS_EmptySet, ProcsFinite DEF OpenReserve
<1>2. TypeOK /\ Inv /\ [Next]_vars => Inv'
  BY OpenReserveStep
<1>3. TypeOK /\ Inv => OpenSignalsBounded
  <2> SUFFICES ASSUME TypeOK, NEW s \in Symbols, NEW d \in Directions, OpenReserve(s, d)
               PROVE  Cardinality(OpenSignals(s, d)) <= Cardinality(Procs)
    BY DEF OpenSignalsBounded
  <2>1. Cardinality(Creating(s, d)) \in Nat
    BY AdmittedSize DEF Creating
  <2> QED
    BY <2>1, OpenSignalsSize, ProcsFinite DEF OpenReserve
<1> HIDE DEF Inv
<1> QED
  BY <1>1, <1>2, <1>3, TypeCorrect, PTL DEF Spec

-----------------------------------------------------------------------------
(* Signals after the bot has been stopped                                  *)

PastGate == {p \in Procs : job[p].pc \in {"collect", "create"}}

\* While the bot does not run the gate is shut: each analysis past it may still
\* issue one signal.
StopReserve ==
  /\ late.stop <= Cardinality(Procs)
  /\ bot # "running" => late.stop + Cardinality(PastGate) <= Cardinality(Procs)

LEMMA StopReserveStep ==
  ASSUME TypeOK, [Next]_vars, StopReserve
  PROVE  StopReserve'
<1> DEFINE S == PastGate
           T == PastGate'
<1> S \in SUBSET Procs /\ T \in SUBSET Procs
  BY DEF PastGate
<1> /\ late.stop \in Nat /\ late \in [denial : Nat, stop : Nat]
    /\ Cardinality(Procs) \in Nat /\ Cardinality(S) \in Nat
    /\ Cardinality(T) \in Nat /\ Cardinality(T) <= Cardinality(Procs)
  BY ProcsFinite, AdmittedSize DEF TypeOK
<1>1. ASSUME NEW p \in Procs, Only(p)
      PROVE  /\ T \ {p} = S \ {p}
             /\ p \in S <=> job[p].pc \in {"collect", "create"}
             /\ p \in T <=> job'[p].pc \in {"collect", "create"}
  BY <1>1 DEF Only, PastGate
<1>2. ASSUME NEW p \in Procs, Only(p), p \notin T \/ p \in S
      PROVE  Cardinality(T) <= Cardinality(S)
  <2> HIDE DEF S, T
  <2> QED
    BY <1>1, <1>2, SetMove
<1>3. ASSUME UNCHANGED <<bot, late>>, Cardinality(T) <= Cardinality(S) PROVE StopReserve'
  BY <1>3 DEF StopReserve
<1>4. ASSUME NEW status, SetBot(status), Cardinality(T) <= Cardinality(S) PROVE StopReserve'
  <2>1. CASE bot = "running" /\ status # "running"
    <3>1. late'.stop = 0
      BY <1>4, <2>1 DEF SetBot
    <3> QED
      BY <3>1 DEF StopReserve
  <2>2. CASE ~ (bot = "running" /\ status # "running")
    <3>1. late' = late /\ (bot' # "running" => bot # "running")
      BY <1>4, <2>2 DEF SetBot
    <3> QED
      BY <1>4, <3>1 DEF StopReserve
  <2> QED
    BY <2>1, <2>2
<1>5. ASSUME NEW p \in Procs, Arrives(p) \/ MovesOn(p) PROVE StopReserve'
  <2>1. Only(p) /\ p \notin T /\ UNCHANGED <<bot, late>>
    BY <1>1, <1>5 DEF Arrives, MovesOn
  <2> QED
    BY <1>2, <1>3, <2>1
<1>6. ASSUME NEW p \in Procs, Controls(p) PROVE StopReserve'
  <2>1. Only(p) /\ p \notin T /\ SetBot(job[p].put)
    BY <1>1, <1>6 DEF Controls
  <2> QED
    BY <1>2, <1>4, <2>1
<1>7. ASSUME NEW p \in Procs, Admits(p) PROVE StopReserve'
  BY <1>7 DEF Admits, StopReserve
<1>8. ASSUME NEW p \in Procs, Decides(p) PROVE StopReserve'
  <2>1. Only(p) /\ p \in S /\ UNCHANGED <<bot, late>>
    BY <1>1, <1>8 DEF Decides, At
  <2> QED
    BY <1>2, <1>3, <2>1
<1>9. ASSUME NEW p \in Procs, NEW n, Issues(p, n) PROVE StopReserve'
  <2>1. Only(p) /\ p \in S /\ p \notin T
    BY <1>1, <1>9 DEF Issues, At
  <2>2. Cardinality(T) + 1 = Cardinality(S)
    <3> HIDE DEF S, T
    <3> QED
      BY <1>1, <2>1, SetMove
  <2>3. bot' = bot /\ late'.stop = IF bot # "running" THEN late.stop + 1 ELSE 0
    BY <1>9 DEF Issues, LateAfterSignal
  <2> QED
    BY <2>2, <2>3 DEF StopReserve
<1>10. CASE Fetches
  BY <1>3, <1>10 DEF Fetches, PastGate
<1>11. ASSUME NEW b \in batch, Takes(b) PROVE StopReserve'
  <2> Scheduler \in Procs
    BY DEF Procs
  <2>1. Only(Scheduler) /\ Scheduler \notin T /\ UNCHANGED <<bot, late>>
    BY <1>1, <1>11 DEF Takes, At
  <2> QED
    BY <1>2, <1>3, <2>1
<1>12. CASE Surrounds
  <2>1. T = S
    BY <1>12 DEF Surrounds, PastGate
  <2>2. CASE late' = [late EXCEPT !.denial = 0] /\ UNCHANGED bot
    BY <2>1, <2>2 DEF StopReserve
  <2> QED
    BY <1>3, <1>4, <1>12, <2>1, <2>2 DEF Surrounds
<1>13. \A w \in Workers : w \in Procs
  BY DEF Procs
<1> QED
  BY <1>5, <1>6, <1>7, <1>8, <1>9, <1>10, <1>11, <1>12, <1>13, StepKind

\* Once the bot has left "running", no more signals are issued than there are
\* processes, for any number of them and however long the run: only analyses
\* that were past the gate by then go on. (_run_analysis_pipeline, bot_control_view)
THEOREM StopBound == Spec => []StopTakesEffect
<1>1. Init => StopReserve
  <2> SUFFICES ASSUME Init PROVE StopReserve
    OBVIOUS
  <2>1. PastGate = {} /\ late.stop = 0
    BY DEF Init, PastGate, FreeJob
  <2> QED
    BY <2>1, FS_EmptySet, ProcsFinite DEF StopReserve
<1>2. TypeOK /\ StopReserve /\ [Next]_vars => StopReserve'
  BY StopReserveStep
<1>3. StopReserve => StopTakesEffect
  BY DEF StopReserve, StopTakesEffect
<1> QED
  BY <1>1, <1>2, <1>3, TypeCorrect, PTL DEF Spec

-----------------------------------------------------------------------------
(* Signals after the user has been denied                                  *)

\* Processes that may still issue a signal by what they have read: past the gate,
\* or with a copy of the row from before the denial.
Undenied == {p \in Procs : \/ job[p].pc \in {"collect", "create"}
                           \/ job[p].pc \in {"poll", "gate"} /\ ~ job[p].snap.denied}

UndeniedRows == {b \in batch : ~ b.snap.denied}

\* The scheduler's batch has a row for each market at most, and the scheduler is
\* at work on one of them while it is not free.
BatchFits ==
  /\ IsFiniteSet(batch)
  /\ Cardinality(batch) + (IF At(Scheduler, "free") THEN 0 ELSE 1) <= Cardinality(Symbols)

MostAfterDenial == Cardinality(Workers) + Cardinality(Symbols)

DenialReserve ==
  /\ late.denial <= MostAfterDenial
  /\ user.denied => late.denial + Cardinality(Undenied) + Cardinality(UndeniedRows) <= MostAfterDenial

LEMMA MostType ==
  /\ MostAfterDenial \in Nat /\ Cardinality(Symbols) \in Nat
  /\ Cardinality(Procs) = Cardinality(Workers) + 1 /\ Cardinality(Workers) \in Nat
<1>1. Cardinality(Workers) \in Nat /\ Cardinality(Symbols) \in Nat
  BY ProcessAssumption, SymbolAssumption, FS_CardinalityType
<1>2. Cardinality(Procs) = Cardinality(Workers) + 1
  BY ProcessAssumption, FS_AddElement DEF Procs
<1> QED
  BY <1>1, <1>2 DEF MostAfterDenial

LEMMA BatchFitsStep ==
  ASSUME TypeOK, [Next]_vars, BatchFits
  PROVE  BatchFits'
<1> Cardinality(batch) \in Nat /\ Cardinality(Symbols) \in Nat /\ Scheduler \in Procs
  BY MostType, FS_CardinalityType DEF BatchFits, Procs
<1>1. ASSUME UNCHANGED batch, At(Scheduler, "free") => job'[Scheduler].pc = "free"
      PROVE  BatchFits'
  BY <1>1 DEF BatchFits, At
<1>2. ASSUME NEW w \in Workers, Arrives(w) \/ Controls(w) PROVE BatchFits'
  <2>1. Scheduler # w
    BY ProcessAssumption
  <2>2. job'[Scheduler] = job[Scheduler] /\ UNCHANGED batch
    BY <1>2, <2>1 DEF Arrives, Controls, Only
  <2> QED
    BY <1>1, <2>2 DEF At
<1>3. ASSUME NEW p \in Procs, MovesOn(p) \/ Admits(p) \/ Decides(p) \/ \E n : Issues(p, n)
      PROVE  BatchFits'
  <2>1. UNCHANGED batch /\ Only(p) /\ ~ At(p, "free")
    BY <1>3 DEF MovesOn, Admits, Decides, Issues, At
  <2> QED
    BY <1>1, <2>1 DEF Only, At
<1>4. CASE Fetches
  <2>1. job'[Scheduler].pc = "free" /\ IsFiniteSet(batch') /\ Cardinality(batch') \in Nat
        /\ Cardinality(batch') <= Cardinality(Symbols)
    BY <1>4, FS_CardinalityType DEF Fetches, At
  <2> QED
    BY <2>1 DEF BatchFits, At
<1>5. ASSUME NEW b \in batch, Takes(b) PROVE BatchFits'
  <2>1. IsFiniteSet(batch') /\ Cardinality(batch') = Cardinality(batch) - 1
    BY <1>5, FS_RemoveElement DEF Takes, BatchFits
  <2> QED
    BY <1>5, <2>1 DEF Takes, BatchFits, At
<1>6. CASE Surrounds
  BY <1>1, <1>6 DEF Surrounds, At
<1> QED
  BY <1>2, <1>3, <1>4, <1>5, <1>6, StepKind

LEMMA DenialReserveStep ==
  ASSUME TypeOK, [Next]_vars, BatchFits, DenialReserve
  PROVE  DenialReserve'
<1> DEFINE S == Undenied
           T == Undenied'
           B == UndeniedRows
           C == UndeniedRows'
<1> S \in SUBSET Procs /\ T \in SUBSET Procs /\ IsFiniteSet(B) /\ Cardinality(B) \in Nat
  <2>1. B \subseteq batch
    BY DEF UndeniedRows
  <2> QED
    BY <2>1, FS_Subset, FS_CardinalityType DEF Undenied, BatchFits
<1> /\ late.denial \in Nat /\ late \in [denial : Nat, stop : Nat]
    /\ MostAfterDenial \in Nat /\ Cardinality(S) \in Nat /\ Cardinality(T) \in Nat
  BY MostType, AdmittedSize DEF TypeOK
<1>1. ASSUME NEW p \in Procs, Only(p)
      PROVE  /\ T \ {p} = S \ {p}
             /\ p \in S <=> \/ job[p].pc \in {"collect", "create"}
                            \/ job[p].pc \in {"poll", "gate"} /\ ~ job[p].snap.denied
             /\ p \in T <=> \/ job'[p].pc \in {"collect", "create"}
                            \/ job'[p].pc \in {"poll", "gate"} /\ ~ job'[p].snap.denied
  BY <1>1 DEF Only, Undenied
<1>2. ASSUME NEW p \in Procs, Only(p), p \in T => p \in S
      PROVE  Cardinality(T) <= Cardinality(S)
  <2> HIDE DEF S, T
  <2> QED
    BY <1>1, <1>2, SetMove
<1>3. ASSUME UNCHANGED batch PROVE C = B
  BY <1>3 DEF UndeniedRows
<1>4. ASSUME user'.denied = user.denied, late'.denial = late.denial,
             UNCHANGED batch, user.denied => Cardinality(T) <= Cardinality(S)
      PROVE  DenialReserve'
  BY <1>3, <1>4 DEF DenialReserve
<1>5. ASSUME NEW p \in Procs, Arrives(p) PROVE DenialReserve'
  <2>1. Only(p) /\ UNCHANGED <<batch, late>> /\ user'.denied = user.denied
    BY <1>5 DEF Arrives
  <2>2. user.denied => p \notin T
    BY <1>1, <1>5, <2>1 DEF Arrives
  <2> QED
    BY <1>2, <1>4, <2>1, <2>2
<1>6. ASSUME NEW p \in Procs, MovesOn(p) \/ Controls(p) \/ Admits(p) \/ Decides(p)
      PROVE  DenialReserve'
  <2>1. Only(p) /\ UNCHANGED batch /\ user'.denied = user.denied /\ late'.denial = late.denial
    BY <1>6 DEF MovesOn, Controls, Admits, Decides, SetBot
  <2>2. p \in T => p \in S
    BY <1>1, <1>6, <2>1 DEF MovesOn, Controls, Admits, Decides, At
  <2> QED
    BY <1>2, <1>4, <2>1, <2>2
<1>7. ASSUME NEW p \in Procs, NEW n, Issues(p, n) PROVE DenialReserve'
  <2>1. Only(p) /\ p \in S /\ p \notin T
    BY <1>1, <1>7 DEF Issues, At
  <2>2. Cardinality(T) + 1 = Cardinality(S)
    <3> HIDE DEF S, T
    <3> QED
      BY <1>1, <2>1, SetMove
  <2>3. /\ user' = user /\ UNCHANGED batch
        /\ late'.denial = IF user.denied THEN late.denial + 1 ELSE 0
    BY <1>7 DEF Issues, LateAfterSignal
  <2> QED
    BY <1>3, <2>2, <2>3 DEF DenialReserve
<1>8. CASE Fetches
  <2>1. user.denied => C = {}
    BY <1>8 DEF Fetches, UndeniedRows
  <2>2. T = S /\ user' = user /\ late' = late
    BY <1>8 DEF Fetches, Undenied
  <2> QED
    BY <2>1, <2>2, FS_EmptySet DEF DenialReserve
<1>9. ASSUME NEW b \in batch, Takes(b) PROVE DenialReserve'
  <2> Scheduler \in Procs
    BY DEF Procs
  <2>1. C = B \ {b} /\ (b \in B <=> ~ b.snap.denied) /\ Only(Scheduler) /\ user' = user /\ late' = late
    BY <1>9 DEF Takes, UndeniedRows
  <2>2. Cardinality(C) = IF b \in B THEN Cardinality(B) - 1 ELSE Cardinality(B)
    BY <2>1, FS_RemoveElement
  <2>3. Scheduler \in T => b \in B /\ Scheduler \notin S
    BY <1>1, <1>9, <2>1 DEF Takes, At
  <2>4. Cardinality(T) <= Cardinality(S) + (IF b \in B THEN 1 ELSE 0)
    <3> HIDE DEF S, T, B
    <3> QED
      BY <1>1, <2>1, <2>3, SetMove
  <2> QED
    BY <2>1, <2>2, <2>4 DEF DenialReserve
<1>10. CASE Surrounds
  <2>1. T = S /\ C = B
    BY <1>10 DEF Surrounds, Undenied, UndeniedRows
  <2>2. CASE UNCHANGED bot /\ late' = [late EXCEPT !.denial = 0]
    <3>1. late'.denial = 0
      BY <2>2
    <3>2. Cardinality(S) + Cardinality(B) <= MostAfterDenial
      <4>1. Cardinality(B) <= Cardinality(batch) /\ Cardinality(batch) \in Nat
        BY FS_Subset, FS_CardinalityType DEF UndeniedRows, BatchFits
      <4>2. CASE At(Scheduler, "free")
        <5>1. S \subseteq Workers
          BY <4>2 DEF Undenied, Procs, At
        <5>2. Cardinality(S) <= Cardinality(Workers)
          BY <5>1, ProcessAssumption, FS_Subset
        <5> QED
          BY <4>1, <4>2, <5>2, MostType DEF BatchFits, MostAfterDenial
      <4>3. CASE ~ At(Scheduler, "free")
        BY <4>1, <4>3, MostType, AdmittedSize DEF BatchFits, MostAfterDenial
      <4> QED
        BY <4>2, <4>3
    <3> QED
      BY <2>1, <3>1, <3>2 DEF DenialReserve
  <2>3. CASE ~ (UNCHANGED bot /\ late' = [late EXCEPT !.denial = 0])
    <3>1. user'.denied = user.denied /\ late'.denial = late.denial
      BY <1>10, <2>3 DEF Surrounds, SetBot
    <3> QED
      BY <2>1, <3>1 DEF DenialReserve
  <2> QED
    BY <2>2, <2>3
<1>11. \A w \in Workers : w \in Procs
  BY DEF Procs
<1> QED
  BY <1>5, <1>6, <1>7, <1>8, <1>9, <1>10, <1>11, StepKind

\* After a denial each thread issues one more signal at most, and the scheduler
\* one for each market it had fetched a row of, for any number of threads and
\* markets: whatever copy of the user's row a process holds, it is used once.
\* (check_expired_wait_cycles, _run_analysis_pipeline, admin_user_access_view)
THEOREM DenialBound == Spec => []DenialTakesEffect
<1>1. Init => BatchFits /\ DenialReserve
  <2> SUFFICES ASSUME Init PROVE BatchFits /\ DenialReserve
    OBVIOUS
  <2>1. Undenied = {} /\ UndeniedRows = {} /\ late.denial = 0 /\ batch = {} /\ At(Scheduler, "free")
    BY DEF Init, Undenied, UndeniedRows, FreeJob, At, Procs
  <2> QED
    BY <2>1, FS_EmptySet, MostType DEF BatchFits, DenialReserve
<1>2. TypeOK /\ BatchFits /\ DenialReserve /\ [Next]_vars => (BatchFits /\ DenialReserve)'
  BY BatchFitsStep, DenialReserveStep
<1>3. DenialReserve => DenialTakesEffect
  BY DEF DenialReserve, DenialTakesEffect, MostAfterDenial
<1> QED
  BY <1>1, <1>2, <1>3, TypeCorrect, PTL DEF Spec

-----------------------------------------------------------------------------
(* WAIT cycles                                                             *)

LEMMA DeletedRow ==
  ASSUME TypeOK, NEW s \in Symbols, NEW t, NEW id, DeleteRow(t, id),
         cycles[s] # NoCycle, cycles'[s] = NoCycle
  PROVE  s = t /\ cycles[s].id = id
BY DEF TypeOK, DeleteRow

\* A WAIT cycle that still runs is only ever replaced by a signal of its market or
\* deleted by a process that had read the same row, for any number of threads and
\* markets: no delete names the market alone. (analysis_wait_status_view,
\* check_expired_wait_cycles, _run_analysis_pipeline, _wait_response)
THEOREM RunningWaitStays == Spec => RunningWaitKept
<1> DEFINE Excused(s) == \/ Len(signals') > Len(signals)
                         \/ \E w \in Workers : At(w, "poll") /\ job[w].row = cycles[s].id
                         \/ \E b \in batch : b.row = cycles[s].id
           Kept       == \A s \in Symbols :
                            cycles[s] # NoCycle /\ ~ cycles[s].due /\ cycles'[s] = NoCycle
                               => Excused(s)
<1>1. ASSUME TypeOK, [Next]_vars, NEW s \in Symbols,
             cycles[s] # NoCycle, ~ cycles[s].due, cycles'[s] = NoCycle
      PROVE  Excused(s)
  <2>1. ASSUME NEW w \in Workers, WaitStatusDecide(w) PROVE Excused(s)
    <3>1. At(w, "poll") /\ DeleteRow(job[w].sym, job[w].row)
      BY <1>1, <2>1 DEF WaitStatusDecide
    <3> QED
      BY <1>1, <3>1, DeletedRow
  <2>2. CASE HandleDueCycle
    <3>1. PICK b \in batch : DeleteRow(b.sym, b.row)
      BY <1>1, <2>2 DEF HandleDueCycle
    <3> QED
      BY <1>1, <3>1, DeletedRow
  <2>3. ASSUME NEW p \in Procs, CreateSignal(p) PROVE Excused(s)
    BY <1>1, <2>3 DEF CreateSignal, TypeOK, Signal, Job, UserRow
  <2>4. ASSUME NEW p \in Procs, WaitRead(p) \/ WaitInsert(p) PROVE FALSE
    <3> DEFINE t   == job[p].sym
               new == [id |-> rows + 1, due |-> FALSE]
    <3>1. t \in Symbols /\ rows \in Nat /\ cycles \in [Symbols -> Cycle]
      <4>1. job[p] \in Job /\ rows \in 0..MaxRows /\ cycles \in [Symbols -> Cycle]
        BY <1>1 DEF TypeOK
      <4>2. t \in Symbols
        BY <4>1 DEF Job
      <4> QED
        BY <4>1, <4>2, BoundAssumption
    <3>2. CASE WaitRead(p)
      <4>1. cycles' = [cycles EXCEPT ![t].due = FALSE]
        BY <1>1, <3>2 DEF WaitRead
      <4>2. [cycles[s] EXCEPT !.due = FALSE] = cycles[s]
        BY <1>1, <3>1 DEF Cycle
      <4>3. cycles'[s] = cycles[s]
        BY <3>1, <4>1, <4>2
      <4> QED
        BY <1>1, <4>3
    <3>3. CASE WaitInsert(p)
      <4>1. new # NoCycle
        BY <3>1 DEF NoCycle
      <4>2. cycles' = [cycles EXCEPT ![t] = new]
        BY <1>1, <3>3 DEF WaitInsert
      <4> HIDE DEF new
      <4> QED
        BY <1>1, <3>1, <4>1, <4>2
    <3> QED
      BY <2>4, <3>2, <3>3
  <2>5. ASSUME NEW t \in Symbols, CycleExpires(t) PROVE FALSE
    BY <1>1, <2>5 DEF CycleExpires, TypeOK, Cycle, NoCycle
  <2>6. cycles' # cycles
    BY <1>1
  <2>7. ASSUME NEW w \in Workers, Request(w) \/ ControlWrite(w) PROVE FALSE
    BY <2>6, <2>7 DEF Request, AnalyzeRequest, WaitStatusRequest, Begin, ControlRead, ControlWrite
  <2>8. ASSUME NEW p \in Procs, Gate(p) \/ Judge(p) \/ Deadline(p) \/ Fail(p) PROVE FALSE
    BY <2>6, <2>8 DEF Gate, Judge, Deadline, Fail
  <2>9. CASE FetchDueCycles \/ UNCHANGED vars
    BY <2>6, <2>9 DEF FetchDueCycles, vars
  <2>10. CASE Environment
    BY <2>5, <2>6, <2>10 DEF Environment, SelectMarket, SignalCloses, AdminUpdate,
                 BotStatusExpires, ActivateTrial, EntitlementChanges
  <2> HIDE DEF Excused
  <2> QED
    BY <1>1, <2>1, <2>2, <2>3, <2>4, <2>7, <2>8, <2>9, <2>10 DEF Next, Serve, Analysis
<1>2. TypeOK /\ [Next]_vars => [Kept]_vars
  BY <1>1
<1>3. RunningWaitKept <=> [][Kept]_vars
  BY DEF RunningWaitKept
<1> HIDE DEF Kept
<1> QED
  BY <1>2, <1>3, TypeCorrect, PTL DEF Spec

-----------------------------------------------------------------------------
(* The votes for a decision                                                *)

(* A set with one more element.                                            *)
LEMMA OneMore ==
  ASSUME NEW S, NEW n \in Nat, IsFiniteSet(S), Cardinality(S) = n, NEW x, x \notin S
  PROVE  IsFiniteSet(S \cup {x}) /\ Cardinality(S \cup {x}) = n + 1
BY FS_AddElement

(* There are five groups.                                                  *)
LEMMA FiveGroups == IsFiniteSet(Groups) /\ Cardinality(Groups) = 5
<1>1. PICK m : m = {"Momentum"}
  OBVIOUS
<1>2. PICK z : z = m \cup {"SupportResistance"}
  OBVIOUS
<1>3. PICK f : f = z \cup {"Fibonacci"}
  OBVIOUS
<1>4. PICK i : i = f \cup {"ICTWithCHoCH"}
  OBVIOUS
<1>5. /\ "SupportResistance" \notin m /\ "Fibonacci" \notin z
      /\ "ICTWithCHoCH" \notin f /\ "TechnicalSMC" \notin i
  BY <1>1, <1>2, <1>3, <1>4
<1>6. IsFiniteSet(m) /\ Cardinality(m) = 1
  BY <1>1, FS_Singleton
<1>7. IsFiniteSet(z) /\ Cardinality(z) = 2
  BY <1>2, <1>5, <1>6, OneMore
<1>8. IsFiniteSet(f) /\ Cardinality(f) = 3
  BY <1>3, <1>5, <1>7, OneMore
<1>9. IsFiniteSet(i) /\ Cardinality(i) = 4
  BY <1>4, <1>5, <1>8, OneMore
<1>10. Groups = i \cup {"TechnicalSMC"}
  BY <1>1, <1>2, <1>3, <1>4 DEF Groups
<1>. QED
  BY <1>5, <1>9, <1>10, OneMore

(* Four votes leave one group out, and a side with four votes is the only  *)
(* one.                                                                    *)
LEMMA FourVotes ==
  ASSUME NEW V \in SUBSET Groups
  PROVE  /\ Cardinality(V) \in 0..5
         /\ Cardinality(V) >= 4 <=> \A g, h \in Groups \ V : g = h
         /\ \A W \in SUBSET (Groups \ V) : Cardinality(V) >= 4 => Cardinality(W) <= 1
<1>1. IsFiniteSet(V) /\ Cardinality(V) \in Nat /\ Cardinality(V) <= 5
  BY FiveGroups, FS_Subset, FS_CardinalityType
<1>. DEFINE U == Groups \ V
<1>2. IsFiniteSet(U) /\ Cardinality(U) \in Nat /\ Cardinality(V) + Cardinality(U) = 5
  <2>1. IsFiniteSet(U) /\ Cardinality(U) \in Nat
    BY FiveGroups, FS_Subset, FS_CardinalityType
  <2>2. U \cup V = Groups /\ U \cap V = {}
    OBVIOUS
  <2>3. Cardinality(U \cup V) = Cardinality(U) + Cardinality(V) - Cardinality(U \cap V)
    BY <1>1, <2>1, FS_Union
  <2>. QED
    BY <1>1, <2>1, <2>2, <2>3, FiveGroups, FS_EmptySet
<1>3. Cardinality(U) <= 1 <=> \A g, h \in U : g = h
  <2>1. ASSUME NEW g \in U, NEW h \in U, g # h PROVE Cardinality(U) > 1
    <3>1. IsFiniteSet({g}) /\ Cardinality({g}) = 1
      BY FS_Singleton
    <3>2. h \notin {g}
      BY <2>1
    <3>3. IsFiniteSet({g} \cup {h}) /\ Cardinality({g} \cup {h}) = 2
      <4>1. PICK m : m = {g}
        OBVIOUS
      <4>2. IsFiniteSet(m) /\ Cardinality(m) = 1 /\ h \notin m
        BY <3>1, <3>2, <4>1
      <4>3. IsFiniteSet(m \cup {h}) /\ Cardinality(m \cup {h}) = 1 + 1
        BY <4>2, OneMore
      <4>. QED
        BY <4>1, <4>3
    <3>4. {g} \cup {h} \subseteq U
      BY <2>1
    <3>5. Cardinality({g} \cup {h}) <= Cardinality(U)
      BY <1>2, <3>4, FS_Subset
    <3>. QED
      BY <1>2, <3>3, <3>5
  <2>2. ASSUME \A g, h \in U : g = h PROVE Cardinality(U) <= 1
    <3>1. CASE U = {}
      BY <3>1, FS_EmptySet
    <3>2. CASE U # {}
      <4>1. PICK g \in U : TRUE
        BY <3>2
      <4>2. U = {g}
        BY <2>2, <4>1
      <4>. QED
        BY <4>2, FS_Singleton
    <3>. QED
      BY <3>1, <3>2
  <2>. QED
    BY <1>2, <2>1, <2>2
<1>4. ASSUME NEW W \in SUBSET U PROVE Cardinality(W) \in Nat /\ Cardinality(W) <= Cardinality(U)
  BY <1>2, FS_Subset, FS_CardinalityType
<1>. HIDE DEF U
<1>5. Cardinality(V) >= 4 <=> Cardinality(U) <= 1
  BY <1>1, <1>2
<1>6. \A W \in SUBSET U : Cardinality(V) >= 4 => Cardinality(W) <= 1
  BY <1>2, <1>4, <1>5
<1>. QED
  BY <1>1, <1>3, <1>5, <1>6 DEF U

-----------------------------------------------------------------------------
(* The consensus                                                           *)

StrongFor(groups, side) == \E g \in Voters(groups, side) : groups[g].conf >= Strong

\* What the consensus asks of one side: no group is missing, none contradicts it
\* strongly, and four vote for it.
Clear(groups, side) ==
  /\ \A g \in Groups : groups[g] # Error
  /\ ~ (StrongFor(groups, "bullish") /\ StrongFor(groups, "bearish"))
  /\ ~ StrongFor(groups, "neutral")
  /\ Cardinality(Voters(groups, side)) >= MinimumVotes

(* The votes of the two sides are different groups.                        *)
LEMMA VotersFacts ==
  ASSUME NEW groups
  PROVE  /\ \A side : Voters(groups, side) \in SUBSET Groups
         /\ Voters(groups, "bearish") \in SUBSET (Groups \ Voters(groups, "bullish"))
         /\ Voters(groups, "bullish") \in SUBSET (Groups \ Voters(groups, "bearish"))
BY DEF Voters

(* The consensus is for a side exactly when all this is so.                *)
LEMMA ConsensusOfSide ==
  ASSUME NEW groups, NEW side \in Sides
  PROVE  /\ Combine(groups).bias = side <=> Clear(groups, side)
         /\ Clear(groups, side) =>
              Combine(groups) = [bias |-> side, votes |-> Cardinality(Voters(groups, side)),
                                 total |-> Support(groups, side)]
<1>. DEFINE buy  == Cardinality(Voters(groups, "bullish"))
            sell == Cardinality(Voters(groups, "bearish"))
            winner == IF buy >= sell THEN "bullish" ELSE "bearish"
            votes  == Cardinality(Voters(groups, winner))
            none == \/ \E g \in Groups : groups[g] = Error
                    \/ \A s \in Sides : StrongFor(groups, s)
                    \/ StrongFor(groups, "neutral")
                    \/ votes < MinimumVotes
                    \/ votes * 100 < Threshold * Cardinality(Groups)
                    \/ buy = sell
<1>1. Combine(groups) = IF none THEN [bias |-> "neutral", votes |-> 0, total |-> 0]
                                ELSE [bias |-> winner, votes |-> votes, total |-> Support(groups, winner)]
  BY DEF Combine, StrongFor
<1>2. buy \in 0..5 /\ sell \in 0..5 /\ (buy >= 4 => sell <= 1) /\ (sell >= 4 => buy <= 1)
  BY VotersFacts, FourVotes
<1>3. (\A s \in Sides : StrongFor(groups, s)) <=> StrongFor(groups, "bullish") /\ StrongFor(groups, "bearish")
  BY DEF Sides
<1>4. side \in {"bullish", "bearish"}
  BY DEF Sides
<1>5. ASSUME Clear(groups, side) PROVE ~ none /\ winner = side
  <2>1. side = "bullish" => buy >= 4
    BY <1>5 DEF Clear, MinimumVotes
  <2>2. side = "bearish" => sell >= 4
    BY <1>5 DEF Clear, MinimumVotes
  <2>3. winner = side /\ votes >= 4 /\ votes \in Nat /\ buy # sell
    <3>. HIDE DEF buy, sell
    <3>1. CASE side = "bullish"
      <4>1. buy >= 4 /\ sell <= 1
        BY <1>2, <2>1, <3>1
      <4>2. winner = "bullish"
        BY <1>2, <4>1
      <4>3. votes = buy
        BY <4>2 DEF buy
      <4>. QED
        BY <1>2, <3>1, <4>1, <4>2, <4>3
    <3>2. CASE side = "bearish"
      <4>1. sell >= 4 /\ buy <= 1
        BY <1>2, <2>2, <3>2
      <4>2. winner = "bearish"
        BY <1>2, <4>1
      <4>3. votes = sell
        BY <4>2 DEF sell
      <4>. QED
        BY <1>2, <3>2, <4>1, <4>2, <4>3
    <3>. QED
      BY <1>4, <3>1, <3>2
  <2>. HIDE DEF votes, winner, buy, sell
  <2>4. ~ (votes < MinimumVotes) /\ ~ (votes * 100 < Threshold * Cardinality(Groups))
    BY <2>3, FiveGroups DEF MinimumVotes, Threshold
  <2>. QED
    BY <1>3, <1>5, <2>3, <2>4 DEF Clear
<1>6. ASSUME Combine(groups).bias = side PROVE Clear(groups, side)
  <2>1. ~ none
    BY <1>1, <1>4, <1>6
  <2>2. winner = side
    <3>. HIDE DEF none, winner, votes
    <3>. QED
      BY <1>1, <1>6, <2>1
  <2>3. ~ (votes < MinimumVotes) /\ votes = Cardinality(Voters(groups, side))
    BY <2>1, <2>2
  <2>4. votes >= MinimumVotes
    <3>1. votes \in Nat
      BY <2>3, VotersFacts, FourVotes
    <3>. HIDE DEF votes
    <3>. QED
      BY <2>3, <3>1 DEF MinimumVotes
  <2>. QED
    BY <1>3, <2>1, <2>3, <2>4 DEF Clear
<1>. HIDE DEF none, winner
<1>. QED
  BY <1>1, <1>5, <1>6

-----------------------------------------------------------------------------
(* The decision                                                            *)

\* When the confluence decides for a side, the candles being fresh.
Ready(groups, bias, pred, side) ==
  /\ Clear(groups, side)
  /\ Support(groups, side) >= Threshold * Cardinality(Voters(groups, side))
  /\ bias = side
  /\ pred \in Sides => pred = side

(* The confluence decides for a side exactly when it is ready for it.      *)
LEMMA DecisionOfSide ==
  ASSUME NEW res, NEW tech, NEW pred, NEW fresh \in BOOLEAN
  PROVE  LET groups == GroupResults(res, tech)
             made   == ConfluenceDecision(res, tech, pred, fresh)
         IN  /\ made = "BUY" <=> fresh /\ Ready(groups, tech.bias, pred, "bullish")
             /\ made = "SELL" <=> fresh /\ Ready(groups, tech.bias, pred, "bearish")
             /\ made \in {"BUY", "SELL", "WAIT"}
<1>1. PICK groups : groups = GroupResults(res, tech)
  OBVIOUS
<1>2. PICK c : c = Combine(groups)
  OBVIOUS
<1>3. /\ c.bias = "bullish" <=> Clear(groups, "bullish")
      /\ c.bias = "bearish" <=> Clear(groups, "bearish")
      /\ Clear(groups, "bullish") => /\ c.total = Support(groups, "bullish")
                                     /\ c.votes = Cardinality(Voters(groups, "bullish"))
      /\ Clear(groups, "bearish") => /\ c.total = Support(groups, "bearish")
                                     /\ c.votes = Cardinality(Voters(groups, "bearish"))
  BY <1>2, ConsensusOfSide DEF Sides
<1>. DEFINE ready == /\ c.bias \in Sides
                     /\ c.total >= Threshold * c.votes
                     /\ tech.bias = c.bias
                     /\ fresh
                     /\ pred \in Sides => pred = c.bias
<1>4. ConfluenceDecision(res, tech, pred, fresh) =
        IF ~ ready THEN "WAIT" ELSE IF c.bias = "bullish" THEN "BUY" ELSE "SELL"
  BY <1>1, <1>2 DEF ConfluenceDecision
<1>5. ready /\ c.bias = "bullish" <=> fresh /\ Ready(groups, tech.bias, pred, "bullish")
  BY <1>3 DEF Ready, Sides
<1>6. ready /\ c.bias = "bearish" <=> fresh /\ Ready(groups, tech.bias, pred, "bearish")
  BY <1>3 DEF Ready, Sides
<1>7. ready => c.bias \in {"bullish", "bearish"}
  BY DEF Sides
<1>. HIDE DEF ready
<1>. QED
  BY <1>1, <1>4, <1>5, <1>6, <1>7

\* What an evaluator may return, and what a group may say.
Result == [bias : Sides \cup {"neutral", "error"}, conf : 0..100]

(* What the groups say.                                                    *)
LEMMA GroupFacts ==
  ASSUME NEW res \in [Evaluators -> Result], NEW tech \in Result
  PROVE  LET groups == GroupResults(res, tech) IN
         /\ groups["Momentum"] = res["Momentum"]
         /\ groups["SupportResistance"] = res["SupportResistance"]
         /\ groups["Fibonacci"] = res["Fibonacci"]
         /\ groups["ICTWithCHoCH"] = CombineIctChoch(res["ICT"], res["CHoCH"])
         /\ groups["TechnicalSMC"] = tech
         /\ groups \in [Groups -> Result]
<1>1. {"Momentum", "SupportResistance", "Fibonacci", "ICT", "CHoCH"} = Evaluators
  BY DEF Evaluators
<1>2. {"Momentum", "SupportResistance", "Fibonacci", "ICTWithCHoCH", "TechnicalSMC"} = Groups
  BY DEF Groups
<1>3. \A e \in Evaluators : res[e] \in Result
  OBVIOUS
<1>4. CombineIctChoch(res["ICT"], res["CHoCH"]) \in Result
  <2>1. PICK i \in Result, c \in Result : i = res["ICT"] /\ c = res["CHoCH"]
    BY <1>1, <1>3
  <2>2. Error \in Result /\ Neutral \in Result /\ [bias |-> "neutral", conf |-> 100] \in Result
    BY DEF Error, Neutral, Result
  <2>3. i.bias \in Sides => [bias |-> i.bias, conf |-> IF i.conf < c.conf THEN i.conf ELSE c.conf] \in Result
    BY <2>1 DEF Result
  <2>4. CombineIctChoch(i, c) \in Result
    BY <2>2, <2>3 DEF CombineIctChoch
  <2>. QED
    BY <2>1, <2>4
<1>5. PICK groups : groups = GroupResults(res, tech)
  OBVIOUS
<1>6. /\ groups["Momentum"] = res["Momentum"]
      /\ groups["SupportResistance"] = res["SupportResistance"]
      /\ groups["Fibonacci"] = res["Fibonacci"]
      /\ groups["ICTWithCHoCH"] = CombineIctChoch(res["ICT"], res["CHoCH"])
      /\ groups["TechnicalSMC"] = tech
      /\ groups = [g \in Groups |-> groups[g]]
  BY <1>2, <1>5 DEF GroupResults
<1>7. groups \in [Groups -> Result]
  <2>1. \A g \in Groups : groups[g] \in Result
    BY <1>1, <1>2, <1>3, <1>4, <1>6
  <2>. QED
    BY <1>6, <2>1
<1>. QED
  BY <1>5, <1>6, <1>7

-----------------------------------------------------------------------------
(* No preferred side                                                       *)

(* A mirror exchanges the sides.                                           *)
LEMMA MirrorFacts ==
  ASSUME NEW r \in Result
  PROVE  /\ Mirror(r) \in Result
         /\ Mirror(r).bias = MirrorBias(r.bias) /\ Mirror(r).conf = r.conf
         /\ Mirror(r) = Error <=> r = Error
         /\ \A side \in Sides : Mirror(r).bias = MirrorBias(side) <=> r.bias = side
         /\ Mirror(r).bias \in Sides <=> r.bias \in Sides
         /\ Mirror(r).bias = "neutral" <=> r.bias = "neutral"
<1>1. PICK b \in Sides \cup {"neutral", "error"}, c \in 0..100 : r = [bias |-> b, conf |-> c]
  BY DEF Result
<1>2. MirrorBias(b) \in Sides \cup {"neutral", "error"}
  BY DEF MirrorBias, Sides
<1>3. Mirror(r) = [bias |-> MirrorBias(b), conf |-> c]
  BY <1>1 DEF Mirror
<1>4. /\ \A side \in Sides : MirrorBias(b) = MirrorBias(side) <=> b = side
      /\ MirrorBias(b) \in Sides <=> b \in Sides
      /\ MirrorBias(b) = "neutral" <=> b = "neutral"
      /\ MirrorBias(b) = "error" <=> b = "error"
  BY DEF MirrorBias, Sides
<1>. QED
  BY <1>1, <1>2, <1>3, <1>4 DEF Result, Error

(* The groups of mirrored evidence are mirrored.                           *)
LEMMA GroupsMirrored ==
  ASSUME NEW res \in [Evaluators -> Result], NEW tech \in Result
  PROVE  LET groups   == GroupResults(res, tech)
             mirrored == GroupResults([e \in Evaluators |-> Mirror(res[e])], Mirror(tech))
         IN  /\ groups \in [Groups -> Result]
             /\ \A g \in Groups : mirrored[g] = Mirror(groups[g])
<1>1. PICK mir : mir = [e \in Evaluators |-> Mirror(res[e])]
  OBVIOUS
<1>2. \A e \in Evaluators : res[e] \in Result /\ mir[e] = Mirror(res[e])
  BY <1>1
<1>3. mir \in [Evaluators -> Result]
  BY <1>1, <1>2, MirrorFacts
<1>4. Mirror(tech) \in Result
  BY MirrorFacts
<1>5. CombineIctChoch(Mirror(res["ICT"]), Mirror(res["CHoCH"])) = Mirror(CombineIctChoch(res["ICT"], res["CHoCH"]))
  <2>1. PICK i \in Result, c \in Result : i = res["ICT"] /\ c = res["CHoCH"]
    BY <1>2 DEF Evaluators
  <2>2. PICK k : k = CombineIctChoch(i, c)
    OBVIOUS
  <2>3. PICK m, n : m = Mirror(i) /\ n = Mirror(c)
    OBVIOUS
  <2>4. /\ m \in Result /\ n \in Result
        /\ m.bias = MirrorBias(i.bias) /\ m.conf = i.conf /\ n.bias = MirrorBias(c.bias) /\ n.conf = c.conf
        /\ (m = Error <=> i = Error) /\ (n = Error <=> c = Error)
        /\ (m.bias \in Sides <=> i.bias \in Sides) /\ (n.bias \in Sides <=> c.bias \in Sides)
    BY <2>3, MirrorFacts
  <2>5. /\ i.bias \in Sides => (n.bias = m.bias <=> c.bias = i.bias)
        /\ {m.bias, n.bias} = Sides <=> {i.bias, c.bias} = Sides
    BY <2>1, <2>4 DEF MirrorBias, Sides, Result
  <2>6. CASE Error \in {i, c}
    <3>1. k = Error /\ CombineIctChoch(m, n) = Error
      BY <2>2, <2>4, <2>6 DEF CombineIctChoch
    <3>2. Mirror(Error) = Error
      BY DEF Mirror, Error, MirrorBias
    <3>. QED
      BY <2>1, <2>2, <2>3, <3>1, <3>2
  <2>7. CASE Error \notin {i, c} /\ i.bias \in Sides /\ c.bias = i.bias
    <3>1. k = [bias |-> i.bias, conf |-> IF i.conf < c.conf THEN i.conf ELSE c.conf]
      BY <2>2, <2>7 DEF CombineIctChoch
    <3>2. CombineIctChoch(m, n) = [bias |-> m.bias, conf |-> IF i.conf < c.conf THEN i.conf ELSE c.conf]
      BY <2>4, <2>5, <2>7 DEF CombineIctChoch
    <3>3. Mirror(k) = [bias |-> MirrorBias(i.bias), conf |-> IF i.conf < c.conf THEN i.conf ELSE c.conf]
      BY <3>1 DEF Mirror
    <3>. QED
      BY <2>1, <2>2, <2>3, <2>4, <3>2, <3>3
  <2>8. CASE /\ Error \notin {i, c} /\ ~ (i.bias \in Sides /\ c.bias = i.bias)
    <3>1. k = IF {i.bias, c.bias} = Sides THEN [bias |-> "neutral", conf |-> 100] ELSE Neutral
      BY <2>2, <2>8 DEF CombineIctChoch
    <3>2. CombineIctChoch(m, n) = IF {m.bias, n.bias} = Sides THEN [bias |-> "neutral", conf |-> 100] ELSE Neutral
      BY <2>4, <2>5, <2>8 DEF CombineIctChoch
    <3>3. /\ Mirror(Neutral) = Neutral
          /\ Mirror([bias |-> "neutral", conf |-> 100]) = [bias |-> "neutral", conf |-> 100]
      BY DEF Mirror, Neutral, MirrorBias
    <3>. QED
      BY <2>1, <2>2, <2>3, <2>5, <3>1, <3>2, <3>3
  <2>. QED
    BY <2>6, <2>7, <2>8
<1>6. PICK groups, mirrored : groups = GroupResults(res, tech) /\ mirrored = GroupResults(mir, Mirror(tech))
  OBVIOUS
<1>7. /\ groups["Momentum"] = res["Momentum"] /\ mirrored["Momentum"] = mir["Momentum"]
      /\ groups["SupportResistance"] = res["SupportResistance"] /\ mirrored["SupportResistance"] = mir["SupportResistance"]
      /\ groups["Fibonacci"] = res["Fibonacci"] /\ mirrored["Fibonacci"] = mir["Fibonacci"]
      /\ groups["TechnicalSMC"] = tech /\ mirrored["TechnicalSMC"] = Mirror(tech)
      /\ groups["ICTWithCHoCH"] = CombineIctChoch(res["ICT"], res["CHoCH"])
      /\ mirrored["ICTWithCHoCH"] = CombineIctChoch(mir["ICT"], mir["CHoCH"])
      /\ groups \in [Groups -> Result]
  BY <1>3, <1>4, <1>6, GroupFacts
<1>8. {"Momentum", "SupportResistance", "Fibonacci", "ICT", "CHoCH"} = Evaluators
  BY DEF Evaluators
<1>9. \A g \in Groups : mirrored[g] = Mirror(groups[g])
  BY <1>2, <1>5, <1>7, <1>8 DEF Groups
<1>. QED
  BY <1>1, <1>6, <1>7, <1>9

(* Mirrored groups vote for the other side, as strongly.                   *)
LEMMA ReadyMirrored ==
  ASSUME NEW groups \in [Groups -> Result], NEW mirrored,
         \A g \in Groups : mirrored[g] = Mirror(groups[g]),
         NEW bias \in Sides \cup {"neutral", "error"}, NEW pred \in Predictions, NEW side \in Sides
  PROVE  Ready(mirrored, MirrorBias(bias), MirrorBias(pred), MirrorBias(side))
           <=> Ready(groups, bias, pred, side)
<1>1. \A g \in Groups : /\ mirrored[g].conf = groups[g].conf
                        /\ mirrored[g] = Error <=> groups[g] = Error
                        /\ mirrored[g].bias = "neutral" <=> groups[g].bias = "neutral"
                        /\ \A s \in Sides : mirrored[g].bias = MirrorBias(s) <=> groups[g].bias = s
  BY MirrorFacts
<1>2. \A s \in Sides : Voters(mirrored, MirrorBias(s)) = Voters(groups, s)
  BY <1>1 DEF Voters
<1>3. Voters(mirrored, "neutral") = Voters(groups, "neutral")
  BY <1>1 DEF Voters
<1>4. MirrorBias("bullish") = "bearish" /\ MirrorBias("bearish") = "bullish"
  BY DEF MirrorBias
<1>5. /\ \A s \in Sides : StrongFor(mirrored, MirrorBias(s)) <=> StrongFor(groups, s)
      /\ StrongFor(mirrored, "neutral") <=> StrongFor(groups, "neutral")
  BY <1>1, <1>2, <1>3 DEF StrongFor, Voters
<1>6. Clear(mirrored, MirrorBias(side)) <=> Clear(groups, side)
  <2>1. (\A g \in Groups : mirrored[g] # Error) <=> (\A g \in Groups : groups[g] # Error)
    BY <1>1
  <2>2. Voters(mirrored, MirrorBias(side)) = Voters(groups, side)
    BY <1>2
  <2>3. (StrongFor(mirrored, "bullish") /\ StrongFor(mirrored, "bearish"))
          <=> (StrongFor(groups, "bullish") /\ StrongFor(groups, "bearish"))
    BY <1>4, <1>5 DEF Sides
  <2>. QED
    BY <1>5, <2>1, <2>2, <2>3 DEF Clear
<1>7. Support(mirrored, MirrorBias(side)) = Support(groups, side)
  <2>1. \A g \in Groups : (IF mirrored[g].bias = MirrorBias(side) THEN mirrored[g].conf ELSE 0)
                          = (IF groups[g].bias = side THEN groups[g].conf ELSE 0)
    BY <1>1
  <2>. QED
    BY <2>1 DEF Support, Groups
<1>8. /\ MirrorBias(bias) = MirrorBias(side) <=> bias = side
      /\ MirrorBias(pred) \in Sides <=> pred \in Sides
      /\ MirrorBias(pred) = MirrorBias(side) <=> pred = side
  BY DEF MirrorBias, Sides, Predictions
<1>. QED
  BY <1>2, <1>6, <1>7, <1>8 DEF Ready

(* Opposite evidence gives the opposite decision.                          *)
LEMMA DecisionMirrored ==
  ASSUME NEW res \in [Evaluators -> Result], NEW tech \in Result, NEW pred \in Predictions
  PROVE  ConfluenceDecision([e \in Evaluators |-> Mirror(res[e])], Mirror(tech), MirrorBias(pred), TRUE) = "BUY"
           <=> ConfluenceDecision(res, tech, pred, TRUE) = "SELL"
<1>1. PICK mir, mtech, mpred :
        mir = [e \in Evaluators |-> Mirror(res[e])] /\ mtech = Mirror(tech) /\ mpred = MirrorBias(pred)
  OBVIOUS
<1>2. PICK groups, mirrored : groups = GroupResults(res, tech) /\ mirrored = GroupResults(mir, mtech)
  OBVIOUS
<1>3. groups \in [Groups -> Result] /\ \A g \in Groups : mirrored[g] = Mirror(groups[g])
  BY <1>1, <1>2, GroupsMirrored
<1>4. ConfluenceDecision(res, tech, pred, TRUE) = "SELL" <=> Ready(groups, tech.bias, pred, "bearish")
  BY <1>2, DecisionOfSide
<1>5. ConfluenceDecision(mir, mtech, mpred, TRUE) = "BUY" <=> Ready(mirrored, mtech.bias, mpred, "bullish")
  BY <1>2, DecisionOfSide
<1>6. tech.bias \in Sides \cup {"neutral", "error"} /\ mtech.bias = MirrorBias(tech.bias)
  BY <1>1, MirrorFacts DEF Result
<1>7. "bearish" \in Sides /\ MirrorBias("bearish") = "bullish"
  BY DEF Sides, MirrorBias
<1>8. Ready(mirrored, MirrorBias(tech.bias), MirrorBias(pred), MirrorBias("bearish"))
        <=> Ready(groups, tech.bias, pred, "bearish")
  BY <1>3, <1>6, <1>7, ReadyMirrored
<1>9. ConfluenceDecision(mir, mtech, mpred, TRUE) = "BUY" <=> ConfluenceDecision(res, tech, pred, TRUE) = "SELL"
  BY <1>1, <1>4, <1>5, <1>6, <1>7, <1>8
<1>. QED
  BY <1>1, <1>9

-----------------------------------------------------------------------------
(* Support never hurts                                                     *)

(* When one group does not vote for a side that the confluence is ready    *)
(* for, all others do, so that its vote makes five and takes the only      *)
(* contradiction away.                                                     *)
LEMMA ReadyWithSupport ==
  ASSUME NEW groups \in [Groups -> Result], NEW more \in [Groups -> Result],
         NEW g \in Groups, NEW side \in Sides, NEW c \in Threshold..100,
         groups[g].bias # side, more[g] = [bias |-> side, conf |-> c],
         \A h \in Groups \ {g} : more[h] = groups[h],
         NEW bias, NEW pred, Ready(groups, bias, pred, side)
  PROVE  Ready(more, bias, pred, side)
<1>1. /\ \A h \in Groups : groups[h] # Error
      /\ Cardinality(Voters(groups, side)) >= 4
      /\ Support(groups, side) >= 70 * Cardinality(Voters(groups, side))
  BY DEF Ready, Clear, MinimumVotes, Threshold
<1>2. \A h \in Groups \ {g} : groups[h].bias = side
  <2>1. g \in Groups \ Voters(groups, side) /\ Voters(groups, side) \in SUBSET Groups
    BY DEF Voters
  <2>2. \A h \in Groups \ Voters(groups, side) : h = g
    BY <1>1, <2>1, FourVotes
  <2>. QED
    BY <2>2 DEF Voters
<1>3. \A h \in Groups : more[h].bias = side /\ more[h] # Error
  BY <1>1, <1>2 DEF Error, Sides
<1>4. Voters(more, side) = Groups /\ Cardinality(Voters(more, side)) = 5
  BY <1>3, FiveGroups DEF Voters
<1>5. \A s : s # side => Voters(more, s) = {}
  BY <1>3 DEF Voters
<1>6. Clear(more, side)
  <2>1. ~ StrongFor(more, "neutral") /\ ~ (StrongFor(more, "bullish") /\ StrongFor(more, "bearish"))
    BY <1>5 DEF StrongFor, Sides
  <2>. QED
    BY <1>3, <1>4, <2>1 DEF Clear, MinimumVotes
<1>7. Support(more, side) >= 70 * 5
  <2>1. Cardinality(Voters(groups, side)) = 4
    <3>1. Voters(groups, side) = Groups \ {g}
      BY <1>2 DEF Voters
    <3>2. IsFiniteSet(Voters(groups, side)) /\ Cardinality(Voters(groups, side)) = 5 - 1
      BY <3>1, FiveGroups, FS_RemoveElement
    <3>. QED
      BY <3>2
  <2>2. Support(groups, side) >= 280
    BY <1>1, <2>1
  <2>3. \A h \in Groups : groups[h].conf \in 0..100 /\ more[h].conf \in 0..100
    BY DEF Result
  <2>4. \A h \in Groups \ {g} : more[h].conf = groups[h].conf
    OBVIOUS
  <2>5. more[g].conf >= 70
    BY DEF Threshold
  <2>6. Support(more, side) = more["Momentum"].conf + more["SupportResistance"].conf + more["Fibonacci"].conf
                                + more["ICTWithCHoCH"].conf + more["TechnicalSMC"].conf
    BY <1>3 DEF Support, Groups
  <2>7. \A h \in Groups : (IF groups[h].bias = side THEN groups[h].conf ELSE 0)
                            = (IF h = g THEN 0 ELSE groups[h].conf)
    BY <1>2
  <2>8. Support(groups, side) =
          (IF "Momentum" = g THEN 0 ELSE groups["Momentum"].conf)
          + (IF "SupportResistance" = g THEN 0 ELSE groups["SupportResistance"].conf)
          + (IF "Fibonacci" = g THEN 0 ELSE groups["Fibonacci"].conf)
          + (IF "ICTWithCHoCH" = g THEN 0 ELSE groups["ICTWithCHoCH"].conf)
          + (IF "TechnicalSMC" = g THEN 0 ELSE groups["TechnicalSMC"].conf)
    BY <2>7 DEF Support, Groups
  <2>9. PICK m1, m2, m3, m4, m5, n1, n2, n3, n4, n5 \in 0..100 :
          /\ m1 = more["Momentum"].conf /\ m2 = more["SupportResistance"].conf /\ m3 = more["Fibonacci"].conf
          /\ m4 = more["ICTWithCHoCH"].conf /\ m5 = more["TechnicalSMC"].conf
          /\ n1 = groups["Momentum"].conf /\ n2 = groups["SupportResistance"].conf /\ n3 = groups["Fibonacci"].conf
          /\ n4 = groups["ICTWithCHoCH"].conf /\ n5 = groups["TechnicalSMC"].conf
    BY <2>3 DEF Groups
  <2>10. /\ IF "Momentum" = g THEN m1 >= 70 ELSE m1 = n1
         /\ IF "SupportResistance" = g THEN m2 >= 70 ELSE m2 = n2
         /\ IF "Fibonacci" = g THEN m3 >= 70 ELSE m3 = n3
         /\ IF "ICTWithCHoCH" = g THEN m4 >= 70 ELSE m4 = n4
         /\ IF "TechnicalSMC" = g THEN m5 >= 70 ELSE m5 = n5
    BY <2>4, <2>5, <2>9 DEF Groups
  <2>11. g \in {"Momentum", "SupportResistance", "Fibonacci", "ICTWithCHoCH", "TechnicalSMC"}
    BY DEF Groups
  <2>. QED
    BY <2>2, <2>6, <2>8, <2>9, <2>10, <2>11
<1>. QED
  BY <1>4, <1>6, <1>7 DEF Ready, Threshold

(* Whoever joins a side that the confluence is ready for leaves it so.     *)
LEMMA SupportStands ==
  ASSUME NEW res \in [Evaluators -> Result], NEW tech \in Result, NEW bias, NEW pred, NEW side \in Sides,
         NEW e \in Evaluators \ {"ICT", "CHoCH"}, res[e].bias # side, NEW c \in Threshold..100,
         NEW more \in [Evaluators -> Result], more[e] = [bias |-> side, conf |-> c],
         \A d \in Evaluators \ {e} : more[d] = res[d],
         Ready(GroupResults(res, tech), bias, pred, side)
  PROVE  Ready(GroupResults(more, tech), bias, pred, side)
<1>1. e \in {"Momentum", "SupportResistance", "Fibonacci"} /\ e \in Groups
  BY DEF Evaluators, Groups
<1>2. PICK groups, with : groups = GroupResults(res, tech) /\ with = GroupResults(more, tech)
  OBVIOUS
<1>3. /\ groups["Momentum"] = res["Momentum"] /\ with["Momentum"] = more["Momentum"]
      /\ groups["SupportResistance"] = res["SupportResistance"] /\ with["SupportResistance"] = more["SupportResistance"]
      /\ groups["Fibonacci"] = res["Fibonacci"] /\ with["Fibonacci"] = more["Fibonacci"]
      /\ groups["TechnicalSMC"] = tech /\ with["TechnicalSMC"] = tech
      /\ groups["ICTWithCHoCH"] = CombineIctChoch(res["ICT"], res["CHoCH"])
      /\ with["ICTWithCHoCH"] = CombineIctChoch(more["ICT"], more["CHoCH"])
      /\ groups \in [Groups -> Result] /\ with \in [Groups -> Result]
  BY <1>2, GroupFacts
<1>4. groups[e] = res[e] /\ with[e] = [bias |-> side, conf |-> c] /\ groups[e].bias # side
  BY <1>1, <1>3
<1>5. \A g \in Groups \ {e} : with[g] = groups[g]
  BY <1>1, <1>3 DEF Groups, Evaluators
<1>6. Ready(groups, bias, pred, side) /\ groups \in [Groups -> Result] /\ with \in [Groups -> Result]
  BY <1>2, <1>3
<1>7. Ready(with, bias, pred, side)
  BY <1>1, <1>4, <1>5, <1>6, ReadyWithSupport
<1>. QED
  BY <1>2, <1>7

-----------------------------------------------------------------------------
(* What the confluence requires                                            *)

\* What the five evaluators return.
EvaluatorsReturn(res) ==
  /\ res \in [Evaluators -> Result]
  /\ res["Momentum"] \in Safely(MomentumResults)
  /\ res["SupportResistance"] \in Safely(ZoneResults)
  /\ res["Fibonacci"] \in Safely(FibonacciResults)
  /\ res["ICT"] \in Safely(ICTResults)
  /\ res["CHoCH"] \in Safely(CHoCHResults)

(* Three elements are at least three.                                      *)
LEMMA ThreeOf ==
  ASSUME NEW S, IsFiniteSet(S), NEW a \in S, NEW b \in S, NEW c \in S, a # b, a # c, b # c
  PROVE  Cardinality(S) >= 3
<1>1. IsFiniteSet({a}) /\ Cardinality({a}) = 1
  BY FS_Singleton
<1>2. IsFiniteSet({a} \cup {b}) /\ Cardinality({a} \cup {b}) = 2
  BY <1>1, OneMore
<1>3. IsFiniteSet({a} \cup {b} \cup {c}) /\ Cardinality({a} \cup {b} \cup {c}) = 3
  BY <1>2, OneMore
<1>4. {a} \cup {b} \cup {c} \subseteq S
  OBVIOUS
<1>5. Cardinality({a} \cup {b} \cup {c}) <= Cardinality(S) /\ Cardinality(S) \in Nat
  BY <1>4, FS_Subset, FS_CardinalityType
<1>. QED
  BY <1>3, <1>5

(* There are finitely many evaluators.                                     *)
LEMMA EvaluatorsFinite == IsFiniteSet(Evaluators)
<1>1. IsFiniteSet({}) /\ IsFiniteSet({"Momentum"})
  BY FS_EmptySet, FS_Singleton
<1>2. Evaluators = {"Momentum"} \cup {"SupportResistance"} \cup {"Fibonacci"} \cup {"ICT"} \cup {"CHoCH"}
  BY DEF Evaluators
<1>. QED
  BY <1>1, <1>2, FS_AddElement

(* ICT and CHoCH together.                                                 *)
LEMMA TogetherFacts ==
  ASSUME NEW i \in Safely(ICTResults), NEW c \in Safely(CHoCHResults), NEW side \in Sides
  PROVE  /\ CombineIctChoch(i, c).bias = side => i.bias = side /\ c.bias = side
         /\ i.bias = side /\ c.bias = side => CombineIctChoch(i, c) = [bias |-> side, conf |-> 78]
         /\ {i.bias, c.bias} = Sides => CombineIctChoch(i, c) = [bias |-> "neutral", conf |-> 100]
         /\ Error \in {i, c} => CombineIctChoch(i, c) = Error
<1>1. /\ i.bias \in Sides => i = [bias |-> i.bias, conf |-> 78]
      /\ c.bias \in Sides => c = [bias |-> c.bias, conf |-> 78]
  BY DEF Safely, ICTResults, CHoCHResults, Neutral, Error, Directional, Sides
<1>2. i.bias \in Sides => i # Error
  BY DEF Error, Sides
<1>3. c.bias \in Sides => c # Error
  BY DEF Error, Sides
<1>4. {i.bias, c.bias} = Sides => i.bias \in Sides /\ c.bias \in Sides /\ i.bias # c.bias
  BY DEF Sides
<1>5. CombineIctChoch(i, c).bias = side => i.bias = side /\ c.bias = side
  BY DEF CombineIctChoch, Error, Neutral, Sides
<1>6. i.bias = side /\ c.bias = side => CombineIctChoch(i, c) = [bias |-> side, conf |-> 78]
  <2>. SUFFICES ASSUME i.bias = side, c.bias = side PROVE CombineIctChoch(i, c) = [bias |-> side, conf |-> 78]
    OBVIOUS
  <2>1. i.conf = 78 /\ c.conf = 78
    BY <1>1
  <2>. QED
    BY <1>2, <1>3, <2>1 DEF CombineIctChoch
<1>7. {i.bias, c.bias} = Sides => CombineIctChoch(i, c) = [bias |-> "neutral", conf |-> 100]
  BY <1>2, <1>3, <1>4 DEF CombineIctChoch
<1>8. Error \in {i, c} => CombineIctChoch(i, c) = Error
  BY DEF CombineIctChoch
<1>. QED
  BY <1>5, <1>6, <1>7, <1>8

(* Where the confluence is ready, most evaluators agree, none contradicts  *)
(* them strongly, and all have answered.                                   *)
LEMMA ReadyRequires ==
  ASSUME NEW res, EvaluatorsReturn(res), NEW tech \in Result, NEW bias, NEW pred,
         NEW side \in Sides, NEW other \in Sides, side # other,
         Ready(GroupResults(res, tech), bias, pred, side)
  PROVE  /\ Cardinality({e \in Evaluators : res[e].bias = side}) >= 3
         /\ \A e \in Evaluators \ {"ICT", "CHoCH"} : res[e].bias = other => res[e].conf < Strong
         /\ {res["ICT"].bias, res["CHoCH"].bias} # Sides
         /\ {res["ICT"].bias, res["CHoCH"].bias} # {other}
         /\ \A e \in Evaluators : res[e] # Error
<1>1. PICK groups : groups = GroupResults(res, tech)
  OBVIOUS
<1>2. /\ groups["Momentum"] = res["Momentum"]
      /\ groups["SupportResistance"] = res["SupportResistance"]
      /\ groups["Fibonacci"] = res["Fibonacci"]
      /\ groups["ICTWithCHoCH"] = CombineIctChoch(res["ICT"], res["CHoCH"])
      /\ groups["TechnicalSMC"] = tech
      /\ groups \in [Groups -> Result]
  BY <1>1, GroupFacts DEF EvaluatorsReturn
<1>3. PICK i \in Safely(ICTResults), c \in Safely(CHoCHResults) :
        /\ i = res["ICT"] /\ c = res["CHoCH"]
        /\ groups["ICTWithCHoCH"] = CombineIctChoch(i, c)
  BY <1>2 DEF EvaluatorsReturn
<1>4. Clear(groups, side)
  BY <1>1 DEF Ready
<1>5. \A g, h \in Groups : groups[g].bias # side /\ groups[h].bias # side => g = h
  <2>1. Cardinality(Voters(groups, side)) >= 4
    BY <1>4 DEF Clear, MinimumVotes
  <2>2. Voters(groups, side) \in SUBSET Groups
    BY DEF Voters
  <2>3. \A g, h \in Groups \ Voters(groups, side) : g = h
    BY <2>1, <2>2, FourVotes
  <2>. QED
    BY <2>3 DEF Voters
<1>6. {"Momentum", "SupportResistance", "Fibonacci", "ICTWithCHoCH", "TechnicalSMC"} = Groups
  BY DEF Groups
<1>7. \A g \in Groups : groups[g].bias = side /\ groups[g].conf >= Strong => StrongFor(groups, side)
  BY DEF StrongFor, Voters
<1>8. StrongFor(groups, side)
  <2>1. CASE groups["SupportResistance"].bias = side
    <3>1. res["SupportResistance"].conf = 76
      BY <1>2, <2>1 DEF EvaluatorsReturn, Safely, ZoneResults, Neutral, Error, Directional, Sides
    <3>. QED
      BY <1>2, <1>6, <1>7, <2>1, <3>1 DEF Strong
  <2>2. CASE groups["SupportResistance"].bias # side
    <3>1. groups["ICTWithCHoCH"].bias = side
      BY <1>5, <1>6, <2>2
    <3>2. groups["ICTWithCHoCH"] = [bias |-> side, conf |-> 78]
      BY <1>3, <3>1, TogetherFacts
    <3>. QED
      BY <1>2, <1>3, <1>6, <1>7, <3>1, <3>2 DEF Strong
  <2>. QED
    BY <2>1, <2>2
<1>9. ~ StrongFor(groups, other) /\ ~ StrongFor(groups, "neutral")
  BY <1>4, <1>8 DEF Clear, Sides
<1>10. \A g \in Groups : groups[g].bias = other => ~ (groups[g].conf >= Strong)
  BY <1>9 DEF StrongFor, Voters
<1>11. ASSUME NEW e \in Evaluators \ {"ICT", "CHoCH"}, res[e].bias = other PROVE res[e].conf < Strong
  <2>1. e \in {"Momentum", "SupportResistance", "Fibonacci"}
    BY DEF Evaluators
  <2>2. e \in Groups /\ groups[e] = res[e]
    BY <1>2, <1>6, <2>1
  <2>3. res[e].conf \in 0..100
    BY DEF EvaluatorsReturn, Result
  <2>. QED
    BY <1>10, <1>11, <2>2, <2>3 DEF Strong
<1>12. {i.bias, c.bias} # Sides
  <2>1. ASSUME {i.bias, c.bias} = Sides PROVE FALSE
    <3>1. groups["ICTWithCHoCH"] = [bias |-> "neutral", conf |-> 100]
      BY <1>2, <1>3, <2>1, TogetherFacts
    <3>. QED
      BY <1>6, <1>9, <3>1 DEF StrongFor, Voters, Strong
  <2>. QED
    BY <2>1
<1>13. {i.bias, c.bias} # {other}
  <2>1. ASSUME {i.bias, c.bias} = {other} PROVE FALSE
    <3>1. i.bias = other /\ c.bias = other
      BY <2>1
    <3>2. groups["ICTWithCHoCH"] = [bias |-> other, conf |-> 78]
      BY <1>2, <1>3, <3>1, TogetherFacts
    <3>. QED
      BY <1>6, <1>10, <3>2 DEF Strong
  <2>. QED
    BY <2>1
<1>14. \A e \in Evaluators : res[e] # Error
  <2>1. \A g \in Groups : groups[g] # Error
    BY <1>4 DEF Clear
  <2>2. i # Error /\ c # Error
    BY <1>2, <1>3, <1>6, <2>1, TogetherFacts
  <2>. QED
    BY <1>2, <1>3, <1>6, <2>1, <2>2 DEF Evaluators
<1>15. Cardinality({e \in Evaluators : res[e].bias = side}) >= 3
  <2>1. PICK S : S = {e \in Evaluators : res[e].bias = side}
    OBVIOUS
  <2>2. IsFiniteSet(S)
    BY <2>1, EvaluatorsFinite, FS_Subset
  <2>3. CASE groups["ICTWithCHoCH"].bias # side
    <3>1. /\ groups["Momentum"].bias = side /\ groups["SupportResistance"].bias = side
          /\ groups["Fibonacci"].bias = side
      BY <1>5, <1>6, <2>3
    <3>2. "Momentum" \in S /\ "SupportResistance" \in S /\ "Fibonacci" \in S
      BY <1>2, <2>1, <3>1 DEF Evaluators
    <3>3. Cardinality(S) >= 3
      BY <2>2, <3>2, ThreeOf
    <3>. QED
      BY <2>1, <3>3
  <2>4. CASE groups["ICTWithCHoCH"].bias = side
    <3>1. i.bias = side /\ c.bias = side
      BY <1>2, <1>3, <2>4, TogetherFacts
    <3>2. "ICT" \in S /\ "CHoCH" \in S
      BY <1>3, <2>1, <3>1 DEF Evaluators
    <3>3. groups["Momentum"].bias = side \/ groups["Fibonacci"].bias = side
      BY <1>5, <1>6
    <3>4. "Momentum" \in S \/ "Fibonacci" \in S
      BY <1>2, <2>1, <3>3 DEF Evaluators
    <3>5. Cardinality(S) >= 3
      BY <2>2, <3>2, <3>4, ThreeOf
    <3>. QED
      BY <2>1, <3>5
  <2>. QED
    BY <2>3, <2>4
<1>. QED
  BY <1>3, <1>11, <1>12, <1>13, <1>14, <1>15

-----------------------------------------------------------------------------
(* The analysis                                                            *)

\* What the analysis answers once its stages have completed.
Judgement == IF testing THEN ConfluenceDecision(results, technical, ml, feed.fresh)
                        ELSE FallbackDecision(results, technical, rsiHigh)

\* A test never judges but live candles, and a signal is what the evidence says:
\* nothing changes it once it is issued.
DecisionInv ==
  /\ testing \in Modes
  /\ feed \in [fresh : BOOLEAN, complete : BOOLEAN, asked : BOOLEAN]
  /\ EvaluatorsReturn(results)
  /\ technical \in TechnicalResults /\ rsiHigh \in BOOLEAN /\ ml \in Predictions
  /\ done \subseteq Stages /\ decision \in Decisions
  /\ testing /\ feed.asked => feed = LiveFeed
  /\ Issued => feed.asked /\ ~ ReasonsClash /\ decision = Judgement

(* The evidence is of its kinds.                                           *)
LEMMA ResultKinds ==
  /\ Neutral \in Result /\ Error \in Result
  /\ Safely(MomentumResults) \subseteq Result /\ Safely(ZoneResults) \subseteq Result
  /\ Safely(FibonacciResults) \subseteq Result /\ Safely(ICTResults) \subseteq Result
  /\ Safely(CHoCHResults) \subseteq Result
  /\ TechnicalResults \subseteq Result
<1>1. Neutral \in Result /\ Error \in Result
  BY DEF Neutral, Error, Result
<1>2. \A sides \in SUBSET Sides, confs \in SUBSET (1..100) : Directional(sides, confs) \subseteq Result
  <2>. SUFFICES ASSUME NEW sides \in SUBSET Sides, NEW confs \in SUBSET (1..100), NEW r \in Directional(sides, confs)
                PROVE  r \in Result
    OBVIOUS
  <2>1. PICK b \in sides, c \in confs : r = [bias |-> b, conf |-> c]
    BY DEF Directional
  <2>2. b \in Sides \cup {"neutral", "error"} /\ c \in 0..100
    OBVIOUS
  <2>. QED
    BY <2>1, <2>2 DEF Result
<1>3. {"bullish"} \in SUBSET Sides /\ {"bearish"} \in SUBSET Sides /\ Sides \in SUBSET Sides
  BY DEF Sides
<1>4. /\ {70, 76, 78, 80, 82} \in SUBSET (1..100) /\ {75, 82} \in SUBSET (1..100)
      /\ {76} \in SUBSET (1..100) /\ {66, 74} \in SUBSET (1..100) /\ {78} \in SUBSET (1..100)
  OBVIOUS
<1>5. SetupConfidences \in SUBSET (1..100)
  BY DecisionAssumption
<1>. QED
  BY <1>1, <1>2, <1>3, <1>4, <1>5
     DEF Safely, MomentumResults, ZoneResults, FibonacciResults, ICTResults, CHoCHResults, TechnicalResults

(* The fallback gives a side only where all have answered and there is a   *)
(* setup.                                                                  *)
LEMMA FallbackOfSide ==
  ASSUME NEW res, NEW tech, NEW high, FallbackDecision(res, tech, high) \in {"BUY", "SELL"}
  PROVE  (\A e \in Evaluators : res[e] # Error) /\ tech.bias \in Sides
BY DEF FallbackDecision

(* Five results, one of each evaluator.                                    *)
LEMMA FiveResults ==
  ASSUME NEW m \in Safely(MomentumResults), NEW z \in Safely(ZoneResults),
         NEW f \in Safely(FibonacciResults), NEW i \in Safely(ICTResults), NEW c \in Safely(CHoCHResults),
         NEW res, res = [e \in Evaluators |-> CASE e = "Momentum"          -> m
                                                [] e = "SupportResistance" -> z
                                                [] e = "Fibonacci"         -> f
                                                [] e = "ICT"               -> i
                                                [] e = "CHoCH"             -> c]
  PROVE  EvaluatorsReturn(res)
<1>1. m \in Result /\ z \in Result /\ f \in Result /\ i \in Result /\ c \in Result
  BY ResultKinds
<1>2. /\ res["Momentum"] = m /\ res["SupportResistance"] = z /\ res["Fibonacci"] = f
      /\ res["ICT"] = i /\ res["CHoCH"] = c
  BY DEF Evaluators
<1>3. \A e \in Evaluators : (CASE e = "Momentum"          -> m
                              [] e = "SupportResistance" -> z
                              [] e = "Fibonacci"         -> f
                              [] e = "ICT"               -> i
                              [] e = "CHoCH"             -> c) \in Result
  BY <1>1 DEF Evaluators
<1>4. res \in [Evaluators -> Result]
  BY <1>3
<1>. QED
  BY <1>2, <1>4 DEF EvaluatorsReturn

(* It holds at first.                                                      *)
LEMMA DecisionStarts == DecisionInit => DecisionInv
<1>. SUFFICES ASSUME DecisionInit PROVE DecisionInv
  OBVIOUS
<1>1. EvaluatorsReturn(results)
  <2>1. results = [e \in Evaluators |-> Neutral]
    BY DEF DecisionInit
  <2>2. \A e \in Evaluators : results[e] = Neutral
    BY <2>1
  <2>3. results \in [Evaluators -> Result]
    BY <2>1, ResultKinds
  <2>. QED
    BY <2>2, <2>3 DEF EvaluatorsReturn, Evaluators, Safely, MomentumResults, ZoneResults, FibonacciResults,
                      ICTResults, CHoCHResults
<1>2. feed \in [fresh : BOOLEAN, complete : BOOLEAN, asked : BOOLEAN] /\ ~ feed.asked
  BY DEF DecisionInit, NoFeed
<1>3. testing \in Modes /\ technical \in TechnicalResults /\ rsiHigh \in BOOLEAN /\ ml \in Predictions
  BY DEF DecisionInit, TechnicalResults, Predictions
<1>4. done \subseteq Stages /\ decision \in Decisions /\ ~ Issued
  BY DEF DecisionInit, Decisions, Issued
<1>. QED
  BY <1>1, <1>2, <1>3, <1>4 DEF DecisionInv

(* Steps that leave the evidence alone.                                    *)
LEMMA AnswerKeeps ==
  ASSUME DecisionInv, NEW d \in Decisions, Answer(d),
         d \in {"BUY", "SELL"} => feed.asked /\ ~ ReasonsClash /\ d = Judgement
  PROVE  DecisionInv'
<1>1. /\ decision' = d /\ testing' = testing /\ feed' = feed /\ results' = results
      /\ technical' = technical /\ rsiHigh' = rsiHigh /\ ml' = ml /\ done' = done
  BY DEF Answer
<1>2. ReasonsClash' = ReasonsClash /\ Judgement' = Judgement
  BY <1>1 DEF ReasonsClash, Judgement
<1>3. Issued' => feed'.asked /\ ~ ReasonsClash' /\ decision' = Judgement'
  BY <1>1, <1>2 DEF Issued
<1>4. EvaluatorsReturn(results)'
  BY <1>1 DEF DecisionInv, EvaluatorsReturn
<1>. QED
  BY <1>1, <1>3, <1>4 DEF DecisionInv

(* Every step keeps it.                                                    *)
LEMMA DecisionStep == DecisionInv /\ [DecisionNext]_decisionVars => DecisionInv'
<1>. SUFFICES ASSUME DecisionInv, [DecisionNext]_decisionVars PROVE DecisionInv'
  OBVIOUS
<1>1. ASSUME UNCHANGED decisionVars PROVE DecisionInv'
  BY <1>1 DEF DecisionInv, decisionVars, EvaluatorsReturn, Issued, ReasonsClash, Judgement
<1>2. ASSUME FetchFails PROVE DecisionInv'
  BY <1>2, AnswerKeeps DEF FetchFails, Decisions
<1>3. ASSUME decision = "none", decision' = decision PROVE ~ Issued'
  BY <1>3 DEF Issued
<1>4. ASSUME Fetch PROVE DecisionInv'
  <2>1. /\ feed' = LiveFeed /\ testing' = testing /\ results' = results /\ technical' = technical
        /\ rsiHigh' = rsiHigh /\ ml' = ml /\ done' = done /\ ~ Issued' /\ decision' = decision
    BY <1>3, <1>4 DEF Fetch
  <2>2. LiveFeed \in [fresh : BOOLEAN, complete : BOOLEAN, asked : BOOLEAN]
    BY DEF LiveFeed
  <2>. QED
    BY <2>1, <2>2 DEF DecisionInv, EvaluatorsReturn
<1>5. ASSUME FetchClosed PROVE DecisionInv'
  <2>1. /\ testing' = testing /\ results' = results /\ technical' = technical
        /\ rsiHigh' = rsiHigh /\ ml' = ml /\ done' = done /\ ~ Issued' /\ decision' = decision /\ ~ testing
    BY <1>3, <1>5 DEF FetchClosed
  <2>2. feed' \in [fresh : BOOLEAN, complete : BOOLEAN, asked : BOOLEAN]
    BY <1>5 DEF FetchClosed
  <2>. QED
    BY <2>1, <2>2 DEF DecisionInv, EvaluatorsReturn
<1>6. ASSUME RunStrategies PROVE DecisionInv'
  <2>1. /\ testing' = testing /\ feed' = feed /\ technical' = technical /\ rsiHigh' = rsiHigh /\ ml' = ml
        /\ done' = done \cup {"strategies"} /\ ~ Issued' /\ decision' = decision
    BY <1>3, <1>6 DEF RunStrategies, Running
  <2>2. PICK m \in Safely(MomentumResults), z \in Safely(ZoneResults),
             f \in Safely(FibonacciResults), i \in Safely(ICTResults), c \in Safely(CHoCHResults) :
          results' = [e \in Evaluators |-> CASE e = "Momentum"          -> m
                                             [] e = "SupportResistance" -> z
                                             [] e = "Fibonacci"         -> f
                                             [] e = "ICT"               -> i
                                             [] e = "CHoCH"             -> c]
    BY <1>6 DEF RunStrategies
  <2>3. EvaluatorsReturn(results')
    BY <2>2, FiveResults
  <2>4. EvaluatorsReturn(results)'
    BY <2>3 DEF EvaluatorsReturn
  <2>5. done' \subseteq Stages
    BY <2>1 DEF DecisionInv, Stages
  <2>. QED
    BY <2>1, <2>4, <2>5 DEF DecisionInv
<1>7. ASSUME RunTechnical PROVE DecisionInv'
  <2>1. /\ testing' = testing /\ feed' = feed /\ results' = results /\ ml' = ml
        /\ technical' \in TechnicalResults /\ rsiHigh' \in BOOLEAN
        /\ done' = done \cup {"technical"} /\ ~ Issued' /\ decision' = decision
    BY <1>3, <1>7 DEF RunTechnical, Running
  <2>2. done' \subseteq Stages
    BY <2>1 DEF DecisionInv, Stages
  <2>. QED
    BY <2>1, <2>2 DEF DecisionInv, EvaluatorsReturn
<1>8. ASSUME RunML PROVE DecisionInv'
  <2>1. /\ testing' = testing /\ feed' = feed /\ results' = results /\ technical' = technical
        /\ rsiHigh' = rsiHigh /\ ml' \in Predictions
        /\ done' = done \cup {"ml"} /\ ~ Issued' /\ decision' = decision
    BY <1>3, <1>8 DEF RunML, Running
  <2>2. done' \subseteq Stages
    BY <2>1 DEF DecisionInv, Stages
  <2>. QED
    BY <2>1, <2>2 DEF DecisionInv, EvaluatorsReturn
<1>9. ASSUME TimesOut PROVE DecisionInv'
  BY <1>9, AnswerKeeps DEF TimesOut, Decisions
<1>10. ASSUME Raises PROVE DecisionInv'
  BY <1>10, AnswerKeeps DEF Raises, Decisions
<1>11. ASSUME Decide PROVE DecisionInv'
  <2>1. PICK d : d = (IF ReasonsClash THEN "ERROR" ELSE Judgement)
    OBVIOUS
  <2>2. Answer(d) /\ feed.asked
    BY <1>11, <2>1 DEF Decide, Judgement, Running
  <2>3. Judgement \in Decisions
    <3>1. CASE testing
      <4>1. feed.fresh \in BOOLEAN
        BY DEF DecisionInv
      <4>2. ConfluenceDecision(results, technical, ml, feed.fresh) \in {"BUY", "SELL", "WAIT"}
        BY <4>1, DecisionOfSide
      <4>. QED
        BY <3>1, <4>2 DEF Judgement, Decisions
    <3>2. CASE ~ testing
      <4>1. FallbackDecision(results, technical, rsiHigh) \in {"BUY", "SELL", "ERROR"}
        BY DEF FallbackDecision
      <4>. QED
        BY <3>2, <4>1 DEF Judgement, Decisions
    <3>. QED
      BY <3>1, <3>2
  <2>4. d \in Decisions /\ (d \in {"BUY", "SELL"} => ~ ReasonsClash /\ d = Judgement)
    BY <2>1, <2>3 DEF Decisions
  <2>. QED
    BY <2>2, <2>4, AnswerKeeps
<1>. QED
  BY <1>1, <1>2, <1>4, <1>5, <1>6, <1>7, <1>8, <1>9, <1>10, <1>11 DEF DecisionNext

(* It is an invariant.                                                     *)
LEMMA DecisionHolds == DecisionSpec => []DecisionInv
BY DecisionStarts, DecisionStep, PTL DEF DecisionSpec

-----------------------------------------------------------------------------
(* What it says                                                            *)

\* The answers of the evaluators, of the analyzer and of the prediction are of their
\* kinds whenever an analysis judges them. (strategies/runner.py: run_one;
\* _run_analysis_pipeline)
THEOREM DecisionTypes == DecisionSpec => []DecisionTypeOK
<1>1. DecisionInv => DecisionTypeOK
  <2>. SUFFICES ASSUME DecisionInv PROVE DecisionTypeOK
    OBVIOUS
  <2>1. \A r \in Safely(MomentumResults) \cup Safely(ZoneResults) \cup Safely(FibonacciResults)
                   \cup Safely(ICTResults) \cup Safely(CHoCHResults) :
          r \in {Error, Neutral} \cup Directional(Sides, 1..100)
    BY DEF Safely, MomentumResults, ZoneResults, FibonacciResults, ICTResults, CHoCHResults, Directional, Sides
  <2>2. \A e \in Evaluators : results[e] \in {Error, Neutral} \cup Directional(Sides, 1..100)
    BY <2>1 DEF DecisionInv, EvaluatorsReturn, Evaluators
  <2>. QED
    BY <2>2 DEF DecisionInv, DecisionTypeOK
<1>. QED
  BY <1>1, DecisionHolds, PTL

\* What the confluence makes of live candles.
LiveDecision(res, tech, pred) == ConfluenceDecision(res, tech, pred, TRUE)

(* It is the side that the confluence is ready for.                        *)
LEMMA LiveDecisionOfSide ==
  ASSUME NEW res, NEW tech, NEW pred
  PROVE  /\ LiveDecision(res, tech, pred) = "BUY" <=> Ready(GroupResults(res, tech), tech.bias, pred, "bullish")
         /\ LiveDecision(res, tech, pred) = "SELL" <=> Ready(GroupResults(res, tech), tech.bias, pred, "bearish")
BY DecisionOfSide DEF LiveDecision

(* What a test judges, and which side it is ready for.                     *)
LEMMA TestedSignal ==
  ASSUME DecisionInv, testing, Issued
  PROVE  /\ feed = LiveFeed
         /\ ConfluenceDecision(results, technical, ml, TRUE) = decision
         /\ Ready(GroupResults(results, technical), technical.bias, ml, SideOf)
         /\ SideOf \in Sides /\ Opposite \in Sides /\ SideOf # Opposite
         /\ results \in [Evaluators -> Result] /\ technical \in Result
<1>1. feed = LiveFeed /\ feed.fresh
  BY DEF DecisionInv, LiveFeed
<1>2. feed.fresh = TRUE
  BY <1>1 DEF LiveFeed
<1>3. decision = ConfluenceDecision(results, technical, ml, TRUE)
  BY <1>2 DEF DecisionInv, Judgement
<1>4. results \in [Evaluators -> Result] /\ technical \in Result
  BY ResultKinds DEF DecisionInv, EvaluatorsReturn
<1>5. /\ decision = "BUY" => Ready(GroupResults(results, technical), technical.bias, ml, "bullish")
      /\ decision = "SELL" => Ready(GroupResults(results, technical), technical.bias, ml, "bearish")
  BY <1>3, DecisionOfSide
<1>6. \/ decision = "BUY" /\ SideOf = "bullish" /\ Opposite = "bearish"
      \/ decision = "SELL" /\ SideOf = "bearish" /\ Opposite = "bullish"
  BY DEF Issued, SideOf, Opposite
<1>7. SideOf \in Sides /\ Opposite \in Sides /\ SideOf # Opposite
  BY <1>6 DEF Sides
<1>. QED
  BY <1>1, <1>3, <1>4, <1>5, <1>6, <1>7

\* A signal of the confluence has three evaluators and the setup on its side, no
\* strong contradiction, no opposing prediction and live candles; a signal of
\* production has a setup, the timeframes and five evaluators that answered.
\* (consensus.combine; _run_analysis_pipeline: ml_compatible, mtf_freshness,
\* levels_valid; common_combined.evaluate_common_combined)
THEOREM ConfluenceIsKept == DecisionSpec => []ConfluenceKept
<1>1. DecisionInv => ConfluenceKept
  <2>. SUFFICES ASSUME DecisionInv, Issued PROVE ConfluenceKept
    BY DEF ConfluenceKept
  <2>1. ASSUME testing
        PROVE  /\ ConfluenceRequired /\ ml \in {"none", SideOf}
               /\ feed.fresh /\ feed.complete /\ technical.bias = SideOf
               /\ \A e \in Evaluators : results[e] # Error
    <3>1. Ready(GroupResults(results, technical), technical.bias, ml, SideOf)
      BY <2>1, TestedSignal
    <3>2. SideOf \in Sides /\ Opposite \in Sides /\ SideOf # Opposite /\ technical \in Result
      BY <2>1, TestedSignal
    <3>3. EvaluatorsReturn(results) /\ ml \in Predictions
      BY DEF DecisionInv
    <3>4. /\ Cardinality({e \in Evaluators : results[e].bias = SideOf}) >= 3
          /\ \A e \in Evaluators \ {"ICT", "CHoCH"} : results[e].bias = Opposite => results[e].conf < Strong
          /\ {results["ICT"].bias, results["CHoCH"].bias} # Sides
          /\ {results["ICT"].bias, results["CHoCH"].bias} # {Opposite}
          /\ \A e \in Evaluators : results[e] # Error
      <4>1. PICK side, other, bias, pred : /\ side = SideOf /\ other = Opposite
                                           /\ bias = technical.bias /\ pred = ml
        OBVIOUS
      <4>2. Ready(GroupResults(results, technical), bias, pred, side)
        BY <3>1, <4>1
      <4>. QED
        BY <3>2, <3>3, <4>1, <4>2, ReadyRequires
    <3>5. technical.bias = SideOf /\ (ml \in Sides => ml = SideOf)
      BY <3>1 DEF Ready
    <3>6. feed.fresh /\ feed.complete
      BY <2>1, TestedSignal DEF LiveFeed
    <3>7. ConfluenceRequired
      BY <3>4 DEF ConfluenceRequired
    <3>8. ml \in {"none", SideOf}
      BY <3>3, <3>5 DEF Predictions
    <3>. QED
      BY <3>4, <3>5, <3>6, <3>7, <3>8
  <2>2. ASSUME ~ testing
        PROVE  technical.bias \in Sides /\ feed.complete /\ \A e \in Evaluators : results[e] # Error
    <3>1. FallbackDecision(results, technical, rsiHigh) \in {"BUY", "SELL"}
      BY <2>2 DEF DecisionInv, Judgement, Issued
    <3>2. (\A e \in Evaluators : results[e] # Error) /\ technical.bias \in Sides
      BY <3>1, FallbackOfSide
    <3>3. feed.complete
      BY <3>2 DEF DecisionInv, ReasonsClash, Evaluators
    <3>. QED
      BY <3>2, <3>3
  <2>3. testing => technical.bias \in Sides
    BY <2>1, TestedSignal
  <2>. QED
    BY <2>1, <2>2, <2>3 DEF ConfluenceKept
<1>. QED
  BY <1>1, DecisionHolds, PTL

\* Opposite evidence, judged by the confluence, gives the opposite decision.
\* (consensus.combine: winner, ties and contradictions)
THEOREM NoSideIsPreferred == DecisionSpec => []NoPreferredSide
<1>1. DecisionInv => NoPreferredSide
  <2>. SUFFICES ASSUME DecisionInv PROVE NoPreferredSide
    OBVIOUS
  <2>1. results \in [Evaluators -> Result] /\ technical \in Result /\ ml \in Predictions
    BY ResultKinds DEF DecisionInv, EvaluatorsReturn
  <2>2. ConfluenceDecision([e \in Evaluators |-> Mirror(results[e])], Mirror(technical), MirrorBias(ml), TRUE) = "BUY"
          <=> ConfluenceDecision(results, technical, ml, TRUE) = "SELL"
    BY <2>1, DecisionMirrored
  <2>. QED
    BY <2>2 DEF NoPreferredSide
<1>. QED
  BY <1>1, DecisionHolds, PTL

\* Another vote for a signal, with the confidence asked of all, never makes the
\* confluence wait. (consensus.combine: the vote count and the mean confidence)
THEOREM SupportStandsAlways == DecisionSpec => []SupportNeverHurts
<1>1. DecisionInv => SupportNeverHurts
  <2>1. SUFFICES ASSUME DecisionInv, testing, Issued,
                        NEW e \in Evaluators \ {"ICT", "CHoCH"}, results[e].bias # SideOf,
                        NEW c \in {Threshold, Strong, 100}
                 PROVE  LiveDecision([results EXCEPT ![e] = [bias |-> SideOf, conf |-> c]], technical, ml) = decision
    BY DEF SupportNeverHurts, LiveDecision
  <2>2. /\ Ready(GroupResults(results, technical), technical.bias, ml, SideOf) /\ SideOf \in Sides
        /\ results \in [Evaluators -> Result] /\ technical \in Result
    BY <2>1, TestedSignal
  <2>3. PICK side, bias, pred : side = SideOf /\ bias = technical.bias /\ pred = ml
    OBVIOUS
  <2>4. PICK more : more = [results EXCEPT ![e] = [bias |-> side, conf |-> c]]
    OBVIOUS
  <2>5. e \in Evaluators \ {"ICT", "CHoCH"} /\ results[e].bias # side /\ side \in Sides /\ c \in Threshold..100
    BY <2>1, <2>2, <2>3 DEF Threshold, Strong
  <2>6. [bias |-> side, conf |-> c] \in Result
    BY <2>5 DEF Result, Threshold
  <2>7. /\ more \in [Evaluators -> Result] /\ more[e] = [bias |-> side, conf |-> c]
        /\ \A d \in Evaluators \ {e} : more[d] = results[d]
    BY <2>2, <2>4, <2>6
  <2>8. Ready(GroupResults(results, technical), bias, pred, side)
    BY <2>2, <2>3
  <2>9. Ready(GroupResults(more, technical), bias, pred, side)
    BY <2>2, <2>5, <2>7, <2>8, SupportStands
  <2>10. \/ decision = "BUY" /\ side = "bullish"
         \/ decision = "SELL" /\ side = "bearish"
    BY <2>1, <2>3 DEF Issued, SideOf
  <2>11. /\ LiveDecision(more, technical, ml) = "BUY" <=> Ready(GroupResults(more, technical), technical.bias, ml, "bullish")
         /\ LiveDecision(more, technical, ml) = "SELL" <=> Ready(GroupResults(more, technical), technical.bias, ml, "bearish")
    BY LiveDecisionOfSide
  <2>12. LiveDecision(more, technical, ml) = decision
    BY <2>3, <2>9, <2>10, <2>11
  <2>. QED
    BY <2>3, <2>4, <2>12
<1>. QED
  BY <1>1, DecisionHolds, PTL
=============================================================================
