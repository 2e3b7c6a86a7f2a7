-------------------------- MODULE AnalysisPipeline --------------------------
(***************************************************************************)
(* The analysis pipeline of one user: api_views._run_analysis_pipeline and *)
(* _wait_response, the two views that enter it, the bot control view, and  *)
(* the scheduler's check of expired WAIT cycles (tasks.py).                *)
(*                                                                         *)
(* Web requests run concurrently, each in a thread of Workers; the one     *)
(* thread of the background scheduler is Scheduler.  A request works on    *)
(* the copy of the user's row that authentication loaded, the scheduler on *)
(* the copy its batch query loaded, while an administrator, a payment and  *)
(* the clock change the row underneath.  No lock is held from the gate to  *)
(* the insertion of a signal, so every step below may interleave with the  *)
(* steps of the other processes.                                           *)
(*                                                                         *)
(* The granularity is fixed: a WAIT cycle and a signal are keyed by their  *)
(* symbol, and a cycle is due from its last second on.  The evidence is    *)
(* abstracted to the direction of its verdict (see SignalDecision).  The   *)
(* subscription row is read at every decision, where the code may answer   *)
(* the second decision of a request from the row it has read at the first. *)
(* The verification mode of administrators is left out.                    *)
(***************************************************************************)
EXTENDS BotAccess, Sequences, FiniteSets

CONSTANTS
  Workers,      \* threads that serve web requests
  Scheduler,    \* the thread of BackgroundScheduler
  Symbols,      \* markets the user may select
  BatchLimit,   \* rows the scheduler fetches at a time: 50, of all users
  MaxSignals,   \* bound: signals issued in a behaviour
  MaxRows,      \* bound: WAIT cycle rows created in a behaviour
  MaxChanges,   \* bound: changes of the surroundings, of the kinds in Scope
  Scope         \* the kinds of change an instance explores

ASSUME ProcessAssumption == IsFiniteSet(Workers) /\ Scheduler \notin Workers
ASSUME SymbolAssumption  == IsFiniteSet(Symbols) /\ Symbols # {}
ASSUME ScopeAssumption   == Scope \subseteq {"control", "market", "trial", "admin", "plan", "timeout"}
ASSUME BatchAssumption   == BatchLimit \in Nat \ {0}
ASSUME BoundAssumption   == MaxSignals \in Nat /\ MaxRows \in Nat /\ MaxChanges \in Nat

Procs == Workers \cup {Scheduler}

Directions == {"BUY", "SELL"}

\* bot_status_{user}: "idle" stands for an absent or expired cache entry too.
BotStates == {"idle", "running", "results"}

UserRow == [denied : BOOLEAN, bypass : BOOLEAN, botBypass : BOOLEAN,
            trial : BOOLEAN, market : Symbols]

\* A WAIT cycle is identified by its primary key; 0 means that no row exists.
NoCycle == [id |-> 0, due |-> FALSE]
Cycle   == [id : 0..MaxRows, due : BOOLEAN]

\* open: PENDING and younger than the evidence window of the look-up.
\* counted: created after the trial started.
Signal == [sym : Symbols, dir : Directions, via : Granting, counted : BOOLEAN,
           open : BOOLEAN]

PCs == {"free", "poll", "gate", "collect", "create", "wait", "insert", "control"}

VARIABLES
  user,      \* the committed row of the user
  env,       \* the subscription row and the clock, as BotAccess reads them
  bot,       \* the cached bot status
  cycles,    \* cycles[s]: the WAIT cycle row of symbol s
  rows,      \* number of WAIT cycle rows created so far
  signals,   \* the signals issued, oldest first
  job,       \* job[p]: what process p is doing
  batch,     \* rows the scheduler has fetched and not yet handled
  late,      \* history: signals issued since the user was denied, and
             \* since the bot was last seen to leave "running"
  changes    \* number of bounded environment changes so far

vars == <<user, env, bot, cycles, rows, signals, job, batch, late, changes>>

\* snap is the copy of the user's row that a process works on; row the WAIT
\* cycle it has read; via the access status that admitted it.
Job == [pc : PCs, sym : Symbols, snap : UserRow, row : 0..MaxRows,
        via : Granting, dir : Directions, put : BotStates]

SomeSymbol == CHOOSE s \in Symbols : TRUE

NewUser == [denied |-> FALSE, bypass |-> FALSE, botBypass |-> FALSE,
            trial |-> FALSE, market |-> SomeSymbol]

\* A process that is free keeps nothing of the work it did.
FreeJob == [pc |-> "free", sym |-> SomeSymbol, snap |-> NewUser, row |-> 0,
            via |-> "trial", dir |-> "BUY", put |-> "idle"]

-----------------------------------------------------------------------------
(* Helpers *)

At(p, pc) == job[p].pc = pc

\* The signals that subscription_status counts against the trial.
SignalsUsed == Cardinality({i \in DOMAIN signals : signals[i].counted})

AccessOf(row) == BotAccessStatus(row, env, SignalsUsed)

\* The query for an open recent signal of the same market and direction.
OpenSignals(s, d) == {i \in DOMAIN signals : /\ signals[i].sym = s
                                             /\ signals[i].dir = d
                                             /\ signals[i].open}

Goto(p, pc) == job' = [job EXCEPT ![p].pc = pc]
Finish(p)   == job' = [job EXCEPT ![p] = FreeJob]

\* Mutant: the delete names the market, not the row that was read.
DeleteRowOfSymbol(s, id) == cycles' = [cycles EXCEPT ![s] = NoCycle]

\* Deleting a fetched row by primary key: no effect when it is already gone.
DeleteRow(s, id) ==
  cycles' = IF cycles[s].id = id THEN [cycles EXCEPT ![s] = NoCycle] ELSE cycles

\* A change of the surroundings, within the bounds of the instance.
Change(kind) ==
  /\ kind \in Scope
  /\ changes < MaxChanges
  /\ changes' = changes + 1
\* What the issue of a signal adds to the history counters.
LateAfterSignal == [denial |-> IF user.denied THEN late.denial + 1 ELSE 0,
                    stop   |-> IF bot # "running" THEN late.stop + 1 ELSE 0]

-----------------------------------------------------------------------------
(* Requests: authentication loads the user's row, and the view begins.     *)

Begin(w, pc, s, row) ==
  /\ At(w, "free")
  /\ job' = [job EXCEPT ![w].pc = pc, ![w].sym = s, ![w].row = row, ![w].snap = user]
  /\ UNCHANGED <<user, env, bot, cycles, rows, signals, batch, late, changes>>

\* analyze_and_signal_view: a POST that names the market.
AnalyzeRequest(w, s) == Begin(w, "gate", s, 0)

\* analysis_wait_status_view: only a WAIT cycle that has run out makes the
\* view do more than report.
WaitStatusRequest(w, s) == cycles[s].due /\ Begin(w, "poll", s, cycles[s].id)

\* The view re-runs the analysis of a running bot, else removes the cycle.
WaitStatusDecide(w) ==
  /\ At(w, "poll")
  /\ IF bot = "running" /\ HasAccess(AccessOf(job[w].snap))
     THEN Goto(w, "gate") /\ UNCHANGED cycles
     ELSE DeleteRow(job[w].sym, job[w].row) /\ Finish(w)
  /\ UNCHANGED <<user, env, bot, rows, signals, batch, late, changes>>

\* bot_control_view: the status is read, the action judged against it, and the
\* market of a start saved.  The new status is written by a later step.
ControlRead(w, action, s) ==
  /\ At(w, "free")
  /\ LET put == CASE action = "start" -> "running"
                  [] action = "stop"  -> "idle"
                  [] OTHER            -> action
     IN  job' = [job EXCEPT ![w].pc = "control", ![w].put = put]
  /\ CASE action = "start"   -> HasAccess(AccessOf(user)) /\ bot # "running"
       [] action = "stop"    -> TRUE
       [] action = "results" -> bot = "running"
       [] action = "running" -> bot \in {"running", "results"}
  /\ user' = IF action = "start" THEN [user EXCEPT !.market = s] ELSE user
  /\ Change("control")
  /\ UNCHANGED <<env, bot, cycles, rows, signals, batch, late>>

SetBot(status) ==
  /\ bot' = status
  /\ late' = IF bot = "running" /\ status # "running" THEN [late EXCEPT !.stop = 0] ELSE late

ControlWrite(w) ==
  /\ At(w, "control")
  /\ SetBot(job[w].put)
  /\ Finish(w)
  /\ UNCHANGED <<user, env, cycles, rows, signals, batch, changes>>

-----------------------------------------------------------------------------
(* The scheduler thread: check_expired_wait_cycles.                        *)

\* One query fetches due rows, in no order, each joined with the user's row.
FetchDueCycles ==
  /\ At(Scheduler, "free") /\ batch = {}
  /\ \E fetched \in SUBSET {s \in Symbols : cycles[s].due} :
       /\ fetched # {} /\ Cardinality(fetched) <= BatchLimit
       /\ \/ Cardinality(fetched) = BatchLimit
          \/ fetched = {s \in Symbols : cycles[s].due}
       /\ batch' = {[sym |-> s, row |-> cycles[s].id, snap |-> user] : s \in fetched}
  /\ UNCHANGED <<user, env, bot, cycles, rows, signals, job, late, changes>>

\* Mutant: the cycle of a bot that does not run is left for later.
HandleDueCycleKeeping ==
  /\ At(Scheduler, "free")
  /\ \E b \in batch :
       /\ batch' = batch \ {b}
       /\ IF /\ bot = "running"
             /\ b.snap.market = b.sym
             /\ HasAccess(AccessOf(b.snap))
          THEN /\ job' = [job EXCEPT ![Scheduler].pc = "gate", ![Scheduler].sym = b.sym,
                                     ![Scheduler].snap = b.snap]
               /\ UNCHANGED cycles
          ELSE UNCHANGED <<cycles, job>>
  /\ UNCHANGED <<user, env, bot, rows, signals, late, changes>>

\* The next row of the batch is dropped or re-analysed.  The copies of the
\* batch may be old: each analysis before this one may have taken minutes.
HandleDueCycle ==
  /\ At(Scheduler, "free")
  /\ \E b \in batch :
       /\ batch' = batch \ {b}
       /\ IF /\ bot = "running"
             /\ b.snap.market = b.sym
             /\ HasAccess(AccessOf(b.snap))
          THEN /\ job' = [job EXCEPT ![Scheduler].pc = "gate", ![Scheduler].sym = b.sym,
                                     ![Scheduler].snap = b.snap]
               /\ UNCHANGED cycles
          ELSE DeleteRow(b.sym, b.row) /\ UNCHANGED job
  /\ UNCHANGED <<user, env, bot, rows, signals, late, changes>>

-----------------------------------------------------------------------------
(* _run_analysis_pipeline, entered by a request or by the scheduler.       *)

\* Mutant: the bot status is not looked at (as in verification mode).
GateForAnyBot(p) ==
  /\ At(p, "gate")
  /\ LET status == AccessOf(job[p].snap)
         sym    == job[p].sym
     IN  IF HasAccess(status)
         THEN /\ job' = [job EXCEPT ![p] = [FreeJob EXCEPT !.pc = "collect", !.sym = sym,
                                                           !.via = status]]
              /\ user' = IF sym # job[p].snap.market THEN [user EXCEPT !.market = sym] ELSE user
         ELSE Finish(p) /\ UNCHANGED user
  /\ UNCHANGED <<env, bot, cycles, rows, signals, batch, late, changes>>

\* 403, 409 or admission; an admitted analysis selects its market.
Gate(p) ==
  /\ At(p, "gate")
  /\ LET status == AccessOf(job[p].snap)
         sym    == job[p].sym
     IN  IF HasAccess(status) /\ bot = "running"
         THEN /\ job' = [job EXCEPT ![p] = [FreeJob EXCEPT !.pc = "collect", !.sym = sym,
                                                           !.via = status]]
              /\ user' = IF sym # job[p].snap.market THEN [user EXCEPT !.market = sym] ELSE user
         ELSE Finish(p) /\ UNCHANGED user
  /\ UNCHANGED <<env, bot, cycles, rows, signals, batch, late, changes>>

\* Mutant: no look-up of an open signal.
JudgeWithoutLookUp(p) ==
  /\ At(p, "collect")
  /\ \/ Goto(p, "wait")
     \/ \E d \in Directions : job' = [job EXCEPT ![p].pc = "create", ![p].dir = d]
  /\ UNCHANGED <<user, env, bot, cycles, rows, signals, batch, late, changes>>

\* No data, a neutral verdict, missing levels and the 180-second deadline end in
\* WAIT.
Undecided(p) == Goto(p, "wait")

\* For a direction, an open recent signal is the answer, and the WAIT cycle that
\* may have led here stays.
Directed(p, d) ==
  IF OpenSignals(job[p].sym, d) # {}
  THEN Finish(p)
  ELSE job' = [job EXCEPT ![p].pc = "create", ![p].dir = d]

\* Candles are fetched and judged.
Judge(p) ==
  /\ At(p, "collect")
  /\ Undecided(p) \/ \E d \in Directions : Directed(p, d)
  /\ UNCHANGED <<user, env, bot, cycles, rows, signals, batch, late, changes>>

\* Mutant: the analysis is run again after its signal has been committed.
CreateSignalRetried(p) ==
  /\ At(p, "create")
  /\ Len(signals) < MaxSignals
  /\ signals' = Append(signals, [sym |-> job[p].sym, dir |-> job[p].dir, via |-> job[p].via,
                                 counted |-> user.trial, open |-> TRUE])
  /\ cycles' = [cycles EXCEPT ![job[p].sym] = NoCycle]
  /\ late' = LateAfterSignal
  /\ Goto(p, "collect")
  /\ UNCHANGED <<user, env, bot, rows, batch, changes>>

\* One transaction inserts the signal and deletes the WAIT cycle.
CreateSignal(p) ==
  /\ At(p, "create")
  /\ Len(signals) < MaxSignals
  /\ signals' = Append(signals, [sym |-> job[p].sym, dir |-> job[p].dir, via |-> job[p].via,
                                 counted |-> user.trial, open |-> TRUE])
  /\ cycles' = [cycles EXCEPT ![job[p].sym] = NoCycle]
  /\ late' = LateAfterSignal
  /\ Finish(p)
  /\ UNCHANGED <<user, env, bot, rows, batch, changes>>

\* AnalysisDeadlineExceeded, raised before the insertion or, rolling it back,
\* after it.
Deadline(p) ==
  /\ At(p, "create")
  /\ Goto(p, "wait")
  /\ UNCHANGED <<user, env, bot, cycles, rows, signals, batch, late, changes>>

\* _wait_response: an expired row is renewed under its lock, a running one kept.
WaitRead(p) ==
  /\ At(p, "wait")
  /\ IF cycles[job[p].sym] = NoCycle
     THEN Goto(p, "insert") /\ UNCHANGED cycles
     ELSE cycles' = [cycles EXCEPT ![job[p].sym].due = FALSE] /\ Finish(p)
  /\ UNCHANGED <<user, env, bot, rows, signals, batch, late, changes>>

\* With no row to lock, two processes may both insert.  The unique constraint
\* refuses the second, and the query of its handler fails too because the
\* transaction is broken: the request ends with an error.
WaitInsert(p) ==
  /\ At(p, "insert")
  /\ IF cycles[job[p].sym] = NoCycle
     THEN /\ rows < MaxRows
          /\ rows' = rows + 1
          /\ cycles' = [cycles EXCEPT ![job[p].sym] = [id |-> rows + 1, due |-> FALSE]]
     ELSE UNCHANGED <<rows, cycles>>
  /\ Finish(p)
  /\ UNCHANGED <<user, env, bot, signals, batch, late, changes>>

\* Mutant: an error of one row ends the scheduler's batch.
FailOfBatch(p) ==
  /\ job[p].pc \in {"collect", "create", "wait", "insert"}
  /\ Finish(p)
  /\ batch' = IF p = Scheduler THEN {} ELSE batch
  /\ UNCHANGED <<user, env, bot, cycles, rows, signals, late, changes>>

\* Any other exception: status 500, the WAIT cycle left as it is.
Fail(p) ==
  /\ job[p].pc \in {"collect", "create", "wait", "insert"}
  /\ Finish(p)
  /\ UNCHANGED <<user, env, bot, cycles, rows, signals, batch, late, changes>>

-----------------------------------------------------------------------------
(* The surroundings: the clock, administrators, payments, market outcomes. *)

\* wait_expires_at of symbol s passes.
CycleExpires(s) ==
  /\ cycles[s] # NoCycle /\ ~cycles[s].due
  /\ cycles' = [cycles EXCEPT ![s].due = TRUE]
  /\ UNCHANGED <<user, env, bot, rows, signals, job, batch, late, changes>>

\* A signal no longer answers new requests: its evidence leaves the window, or
\* resolve_pending_signal_outcomes writes WIN or LOSS (see SignalOutcomes).
SignalCloses(i) ==
  /\ signals[i].open
  /\ signals' = [signals EXCEPT ![i].open = FALSE]
  /\ UNCHANGED <<user, env, bot, cycles, rows, job, batch, late, changes>>

\* The cached status times out (3600 s after it was last written).
BotStatusExpires ==
  /\ bot # "idle" /\ SetBot("idle")
  /\ Change("timeout")
  /\ UNCHANGED <<user, env, cycles, rows, signals, job, batch>>

\* bot_market_view saves the selected market.
SelectMarket(s) ==
  /\ user.market # s
  /\ user' = [user EXCEPT !.market = s]
  /\ Change("market")
  /\ UNCHANGED <<env, bot, cycles, rows, signals, job, batch, late>>

\* activate_free_trial_view: at most once.
ActivateTrial ==
  /\ ~user.trial
  /\ user' = [user EXCEPT !.trial = TRUE]
  /\ Change("trial")
  /\ UNCHANGED <<env, bot, cycles, rows, signals, job, batch, late>>

\* admin_user_access_view, or the expiry of a bypass.
AdminUpdate(field, value) ==
  /\ user[field] # value
  /\ user' = [user EXCEPT ![field] = value]
  /\ late' = IF field = "denied" THEN [late EXCEPT !.denial = 0] ELSE late
  /\ Change("admin")
  /\ UNCHANGED <<env, bot, cycles, rows, signals, job, batch>>

\* A payment is approved, a plan runs out, the 24 hours of the trial elapse.
EntitlementChanges ==
  /\ \/ env' = [env EXCEPT !.paid = ~env.paid]
     \/ user.trial /\ ~env.trialOver /\ env' = [env EXCEPT !.trialOver = TRUE]
  /\ Change("plan")
  /\ UNCHANGED <<user, bot, cycles, rows, signals, job, batch, late>>

-----------------------------------------------------------------------------
(* The specification *)

Actions == {"start", "stop", "results", "running"}
Toggles == {"denied", "bypass", "botBypass"}

\* A user with or without a trial or a plan, whose bot may be running already.
Init ==
  /\ user \in {NewUser, [NewUser EXCEPT !.trial = TRUE]}
  /\ env \in [paid : BOOLEAN, trialOver : {FALSE}]
  /\ bot \in BotStates
  /\ cycles = [s \in Symbols |-> NoCycle]
  /\ rows = 0
  /\ signals = <<>>
  /\ job = [p \in Procs |-> FreeJob]
  /\ batch = {}
  /\ late = [denial |-> 0, stop |-> 0]
  /\ changes = 0

Request(w) ==
  \/ \E s \in Symbols : AnalyzeRequest(w, s) \/ WaitStatusRequest(w, s)
  \/ \E a \in Actions, s \in Symbols : ControlRead(w, a, s)

Serve(w) == WaitStatusDecide(w) \/ ControlWrite(w)

Analysis(p) ==
  \/ Gate(p) \/ Judge(p) \/ CreateSignal(p)
  \/ Deadline(p) \/ WaitRead(p) \/ WaitInsert(p) \/ Fail(p)

Environment ==
  \/ \E s \in Symbols : CycleExpires(s) \/ SelectMarket(s)
  \/ \E i \in DOMAIN signals : SignalCloses(i)
  \/ \E f \in Toggles, v \in BOOLEAN : AdminUpdate(f, v)
  \/ BotStatusExpires \/ ActivateTrial \/ EntitlementChanges

Next ==
  \/ \E w \in Workers : Request(w) \/ Serve(w)
  \/ \E p \in Procs : Analysis(p)
  \/ FetchDueCycles \/ HandleDueCycle
  \/ Environment

Spec == Init /\ [][Next]_vars

\* Threads make progress, the scheduler polls every five seconds, and time
\* passes.  Nothing obliges a client to call, or an administrator to act.
FairSpec ==
  /\ Spec
  /\ \A w \in Workers : WF_vars(Serve(w))
  /\ \A p \in Procs : WF_vars(Analysis(p))
  /\ WF_vars(FetchDueCycles) /\ WF_vars(HandleDueCycle)
  /\ \A s \in Symbols : WF_vars(CycleExpires(s))

-----------------------------------------------------------------------------
(* Properties *)

TypeOK ==
  /\ user \in UserRow
  /\ env \in Surroundings
  /\ bot \in BotStates
  /\ cycles \in [Symbols -> Cycle]
  /\ rows \in 0..MaxRows
  /\ signals \in Seq(Signal)
  /\ job \in [Procs -> Job]
  /\ batch \subseteq [sym : Symbols, row : 0..MaxRows, snap : UserRow]
  /\ late \in [denial : Nat, stop : Nat]
  /\ changes \in 0..MaxChanges

\* Past the gate nothing re-reads the access rules or the bot status.
Analysing == {"collect", "create", "wait", "insert"}

TrialSignals  == {i \in DOMAIN signals : signals[i].via = "trial"}
TrialAdmitted == {p \in Procs : job[p].pc \in Analysing /\ job[p].via = "trial"}

\* The trial limit holds up to the analyses that run at the same time: the
\* signals issued on the trial exceed it by fewer than there are processes.
TrialOvershoot ==
  Cardinality(TrialSignals) <= (TrialLimit - 1) + Cardinality(Procs)

\* The pipeline issues signals on the trial as TrialQuota allows.
Quota == INSTANCE TrialQuota WITH
           Analysts <- Procs, Limit <- TrialLimit,
           admitted <- TrialAdmitted, issued <- Cardinality(TrialSignals)

TrialQuotaSpec == Quota!QuotaSpec

\* The look-up of an open signal and the insertion are apart, so signals of
\* the same market and direction may be open together; never more of them
\* than processes that can have looked at the same time.
OpenSignalsBounded ==
  \A s \in Symbols, d \in Directions :
    Cardinality(OpenSignals(s, d)) <= Cardinality(Procs)

\* A denial stops new admissions at once, but not the requests that carry an
\* older copy of the user's row: each thread may issue one more signal, and
\* the scheduler one for each row of the batch it had fetched.
DenialTakesEffect ==
  late.denial <= Cardinality(Workers) + Cardinality(Symbols)

\* Once the bot has left "running", only the analyses past the gate issue.
StopTakesEffect == late.stop <= Cardinality(Procs)

\* A WAIT cycle that has not run out is only ever replaced by a signal of its
\* market, or deleted by a process that had read the same row when it was due.
RunningWaitKept ==
  [][\A s \in Symbols :
       cycles[s] # NoCycle /\ ~cycles[s].due /\ cycles'[s] = NoCycle
         => \/ Len(signals') > Len(signals)
            \/ \E w \in Workers : At(w, "poll") /\ job[w].row = cycles[s].id
            \/ \E b \in batch : b.row = cycles[s].id]_vars

\* When the bot is stopped for good, the scheduler clears every WAIT cycle.
StopClearsCycles ==
  <>[](bot # "running") => <>[](\A s \in Symbols : cycles[s] = NoCycle)

\* While the bot keeps running, the scheduler comes back to every due cycle,
\* however often the analyses of other cycles fail.
DueCycleReached ==
  \A s \in Symbols :
    cycles[s].due ~> \/ ~cycles[s].due
                     \/ job[Scheduler].sym = s /\ ~At(Scheduler, "free")
=============================================================================
