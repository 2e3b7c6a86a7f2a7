----------------------------- MODULE DerivAdapter -----------------------------
(***************************************************************************)
(* The WebSocket client of trading_bot/deriv_adapter.py: one thread runs   *)
(* the event loop that connects, reads and reconnects; callers on other    *)
(* threads make requests of it and wait for the answers.                   *)
(*                                                                         *)
(* The coroutines of the event loop take turns: a coroutine is one step up *)
(* to its next await.  A request is abstracted to its number, its caller   *)
(* and what it asks for, a tick to its epoch and quote.  The server        *)
(* answers what it was sent, in any order, while the connection is open.   *)
(***************************************************************************)
EXTENDS Naturals, FiniteSets

CONSTANTS
  Callers,      \* threads that use the adapter
  Restorer,     \* stands for the loop itself, which restores subscriptions
  Symbols,      \* symbols of which ticks may be subscribed to
  MaxRequests,  \* bound: requests in a behaviour
  MaxEpoch,     \* bound: times of ticks
  Quotes        \* prices of ticks

ASSUME DerivAssumption ==
  /\ IsFiniteSet(Callers)
  /\ Restorer \notin Callers
  /\ MaxRequests \in Nat
  /\ MaxEpoch \in Nat
  /\ Quotes # {}

VARIABLES
  loop,       \* where _ws_loop is
  stop,       \* disconnect: not called, too early, or while the loop read
  ws,         \* _ws: the last connection that was made
  closing,    \* _disconnect_ws is scheduled
  connected,  \* _connected
  nextReq,    \* _req_id
  pending,    \* _pending: the number of a request and who awaits its future
  sent,       \* requests on this connection that are not answered yet
  call,       \* call[c]: what caller c is doing
  restore,    \* subscriptions that the loop has still to restore
  subs,       \* _tick_subscribers
  subId,      \* _subscription_ids: of this connection or of one before
  streams,    \* symbols of which the server sends ticks
  last,       \* _last_epoch and _last_quote
  told        \* history: the last tick that subscribers were called with

vars == <<loop, stop, ws, closing, connected, nextReq, pending, sent, call,
          restore, subs, subId, streams, last, told>>

wsVars  == <<loop, stop, ws, closing, connected, restore>>
reqVars == <<nextReq, pending, sent>>
subVars == <<subs, subId, streams>>
tickVars == <<last, told>>

Owners == Callers \cup {Restorer}
Future == [id : 0..MaxRequests, by : Owners]
Ticks == [epoch : 0..MaxEpoch, quote : Quotes]

Kinds == {"candles", "subscribe", "forget"}
Message == [id : 0..MaxRequests, by : Owners, kind : Kinds, symbol : Symbols]
NoCall == [pc |-> "idle"]
Call == [pc : {"queued", "answered", "failed"}, kind : Kinds, symbol : Symbols, id : {0}, got : Owners]
        \cup [pc : {"sending", "waiting"}, kind : Kinds, symbol : Symbols, id : 0..MaxRequests, got : Owners]

\* The event loop runs coroutines from the thread's start to the loop's end.
Running == stop = "no"
Turning == loop \notin {"none", "ended"}

-----------------------------------------------------------------------------
(* The connection                                                          *)

\* connect.
Connect ==
  /\ loop = "none" /\ Running
  /\ loop' = "dialing"
  /\ UNCHANGED <<stop, ws, closing, connected, restore, call, reqVars, subVars, tickVars>>

\* Mutant: what was seen of ticks is forgotten with the connection.
DialAfresh ==
  /\ loop = "dialing"
  /\ ws' = "open" /\ connected' = TRUE
  /\ restore' = {s \in Symbols : subs[s] # {}}
  /\ loop' = IF restore' = {} THEN "reading" ELSE "restoring"
  /\ last' = [s \in Symbols |-> [last[s] EXCEPT !.epoch = 0]]
  /\ UNCHANGED <<stop, closing, call, reqVars, subVars, told>>

\* _ws_loop: a new connection, on which nothing was sent yet.
DialOk ==
  /\ loop = "dialing"
  /\ ws' = "open" /\ connected' = TRUE
  /\ restore' = {s \in Symbols : subs[s] # {}}
  /\ loop' = IF restore' = {} THEN "reading" ELSE "restoring"
  /\ UNCHANGED <<stop, closing, call, reqVars, subVars, tickVars>>

\* An exception leaves the connection: the loop sleeps, or ends if it is to.
Leave(ok) ==
  /\ connected' = (ok /\ connected)
  /\ loop' = IF ~ Running THEN "ended" ELSE IF ok THEN "dialing" ELSE "backoff"

DialFails ==
  /\ loop = "dialing"
  /\ Leave(FALSE)
  /\ UNCHANGED <<stop, ws, closing, restore, call, reqVars, subVars, tickVars>>

\* Mutant: the exception ends the loop.
WakeNever ==
  /\ loop = "backoff"
  /\ loop' = "ended"
  /\ UNCHANGED <<stop, ws, closing, connected, restore, call, reqVars, subVars, tickVars>>

\* The delay is over, and the loop looks whether it is to run.
Wake ==
  /\ loop = "backoff"
  /\ loop' = IF Running THEN "dialing" ELSE "ended"
  /\ UNCHANGED <<stop, ws, closing, connected, restore, call, reqVars, subVars, tickVars>>

\* The network or the server drops the connection.
Dropped ==
  /\ ws' = "closed"
  /\ sent' = {}
  /\ streams' = {}
  /\ subId' = [s \in Symbols |-> IF subId[s] = "valid" THEN "stale" ELSE subId[s]]

Lose ==
  /\ ws = "open"
  /\ Dropped
  /\ UNCHANGED <<loop, stop, closing, connected, restore, nextReq, pending, call, subs, tickVars>>

\* The loop reads the end of the connection: normal, or by an exception.
ReadEnd(ok) ==
  /\ loop = "reading" /\ ws = "closed"
  /\ Leave(ok)
  /\ UNCHANGED <<stop, ws, closing, restore, call, reqVars, subVars, tickVars>>

\* disconnect: a connection that is not made yet cannot be closed.
Disconnect ==
  /\ Running
  /\ stop' = IF loop = "reading" THEN "reading" ELSE "early"
  /\ closing' = (loop # "none" /\ ws # "none")
  /\ UNCHANGED <<loop, ws, connected, restore, call, reqVars, subVars, tickVars>>

\* _disconnect_ws, if the event loop still turns.
Close ==
  /\ closing /\ Turning
  /\ closing' = FALSE
  /\ connected' = FALSE
  /\ IF ws = "open" THEN Dropped ELSE UNCHANGED <<ws, sent, streams, subId>>
  /\ UNCHANGED <<loop, stop, restore, nextReq, pending, call, subs, tickVars>>

-----------------------------------------------------------------------------
(* Requests                                                                *)

\* _async_call up to its await: the future takes its number.
Enlist(by) ==
  /\ nextReq < MaxRequests
  /\ pending' = {p \in pending : p.id # nextReq} \cup {[id |-> nextReq, by |-> by]}

\* The loop sends the subscriptions again, one after the other, and waits for
\* the answers, which nobody reads: it only goes on if it cannot send.
RestoreNext(s) ==
  /\ loop = "restoring" /\ s \in restore
  /\ Enlist(Restorer)
  /\ nextReq' = nextReq + 1
  /\ IF ws = "open"
     THEN /\ sent' = sent \cup {[id |-> nextReq, by |-> Restorer, kind |-> "subscribe", symbol |-> s]}
          /\ loop' = "stuck"
          /\ UNCHANGED restore
     ELSE /\ restore' = restore \ {s}
          /\ loop' = IF restore' = {} THEN "reading" ELSE "restoring"
          /\ UNCHANGED sent
  /\ UNCHANGED <<stop, ws, closing, connected, call, subVars, tickVars>>

Start(c, kind, s) == call' = [call EXCEPT ![c] = [pc |-> "queued", kind |-> kind, symbol |-> s, id |-> 0, got |-> c]]

\* get_candles, and the other requests that change nothing here.
GetCandles(c, s) ==
  /\ call[c] = NoCall
  /\ loop # "none"
  /\ Start(c, "candles", s)
  /\ UNCHANGED <<wsVars, reqVars, subVars, tickVars>>

\* _fetch_chart_candles_with_source waits for _connected first.
FetchCandles(c, s) == connected /\ GetCandles(c, s)

\* subscribe_ticks: the subscriber stays, whatever becomes of the request.
Subscribe(c, s) ==
  /\ call[c] = NoCall
  /\ subs' = [subs EXCEPT ![s] = @ \cup {c}]
  /\ IF loop = "none" THEN UNCHANGED call ELSE Start(c, "subscribe", s)
  /\ UNCHANGED <<wsVars, reqVars, subId, streams, tickVars>>

\* unsubscribe_ticks, for all subscribers of the symbol.
Unsubscribe(c, s) ==
  /\ call[c] = NoCall
  /\ subs[s] # {}
  /\ subs' = [subs EXCEPT ![s] = {}]
  /\ subId' = [subId EXCEPT ![s] = "none"]
  /\ IF subId[s] = "none" THEN UNCHANGED call ELSE Start(c, "forget", s)
  /\ UNCHANGED <<wsVars, reqVars, streams, tickVars>>

\* Mutant: the number is taken, and counted on when the request is sent.
PrepareUncounted(c) ==
  /\ call[c].pc = "queued" /\ Turning /\ ws # "none"
  /\ Enlist(c)
  /\ call' = [call EXCEPT ![c].pc = "sending", ![c].id = nextReq]
  /\ UNCHANGED <<nextReq, sent, wsVars, subVars, tickVars>>

\* The coroutine runs up to its send.
Prepare(c) ==
  /\ call[c].pc = "queued" /\ Turning /\ ws # "none"
  /\ Enlist(c)
  /\ nextReq' = nextReq + 1
  /\ call' = [call EXCEPT ![c].pc = "sending", ![c].id = nextReq]
  /\ UNCHANGED <<sent, wsVars, subVars, tickVars>>

\* There was no connection yet.
Refuse(c) ==
  /\ call[c].pc = "queued" /\ Turning /\ ws = "none"
  /\ call' = [call EXCEPT ![c].pc = "failed"]
  /\ UNCHANGED <<wsVars, reqVars, subVars, tickVars>>

\* The request goes out; a closed connection raises, and leaves the future.
Send(c) ==
  /\ call[c].pc = "sending" /\ Turning
  /\ IF ws = "open"
     THEN /\ sent' = sent \cup {[id |-> call[c].id, by |-> c, kind |-> call[c].kind, symbol |-> call[c].symbol]}
          /\ call' = [call EXCEPT ![c].pc = "waiting"]
     ELSE /\ call' = [call EXCEPT ![c].pc = "failed", ![c].id = 0]
          /\ UNCHANGED sent
  /\ UNCHANGED <<nextReq, pending, wsVars, subVars, tickVars>>

\* _handle_message: an answer, or an error, goes to the future of its number, and
\* to who still waits for it.  What the server was asked to stream, it streams
\* from now on, whether or not somebody waits.
Answer(m, error) ==
  /\ loop = "reading" /\ ws = "open"
  /\ m \in sent
  /\ sent' = sent \ {m}
  /\ pending' = {p \in pending : p.id # m.id}
  /\ LET asked == {c \in Callers : /\ call[c].pc = "waiting" /\ call[c].id = m.id
                                  /\ [id |-> m.id, by |-> c] \in pending}
     IN call' = [c \in Callers |-> IF c \in asked
                                   THEN [call[c] EXCEPT !.pc = IF error THEN "failed" ELSE "answered",
                                                        !.id = 0, !.got = m.by]
                                   ELSE call[c]]
  /\ streams' = IF ~ error /\ m.kind = "subscribe" THEN streams \cup {m.symbol}
                ELSE IF ~ error /\ m.kind = "forget" THEN streams \ {m.symbol}
                ELSE streams
  /\ UNCHANGED <<nextReq, wsVars, subs, subId, tickVars>>

\* _await_future gives up: the future stays, and a late answer goes to it.
Timeout(c) ==
  /\ call[c].pc = "waiting" \/ (call[c].pc \in {"queued", "sending"} /\ ~ Turning)
  /\ call' = [call EXCEPT ![c] = NoCall]
  /\ UNCHANGED <<wsVars, reqVars, subVars, tickVars>>

\* The caller takes the answer, or the exception.
Return(c) ==
  /\ call[c].pc \in {"answered", "failed"}
  /\ subId' = IF call[c].pc = "answered" /\ call[c].kind = "subscribe"
              THEN [subId EXCEPT ![call[c].symbol] = IF call[c].symbol \in streams THEN "valid" ELSE "stale"]
              ELSE subId
  /\ call' = [call EXCEPT ![c] = NoCall]
  /\ UNCHANGED <<wsVars, reqVars, subs, streams, tickVars>>

-----------------------------------------------------------------------------
(* Ticks                                                                   *)

\* Older than the last, or the same again.
Repeated(s, t) ==
  \/ t.epoch < last[s].epoch
  \/ t = last[s]

\* _handle_message for a tick, with a time: the server may send any.
Tick(s, t) ==
  /\ loop = "reading" /\ ws = "open" /\ s \in streams
  /\ t.epoch > 0
  /\ ~ Repeated(s, t)
  /\ last' = [last EXCEPT ![s] = t]
  /\ told' = IF subs[s] # {} THEN [told EXCEPT ![s] = t] ELSE told
  /\ UNCHANGED <<wsVars, reqVars, call, subVars>>

-----------------------------------------------------------------------------

Nothing == [epoch |-> 0, quote |-> CHOOSE q \in Quotes : TRUE]

Init ==
  /\ loop = "none" /\ stop = "no" /\ ws = "none"
  /\ closing = FALSE /\ connected = FALSE
  /\ nextReq = 0 /\ pending = {} /\ sent = {}
  /\ call = [c \in Callers |-> NoCall]
  /\ restore = {}
  /\ subs = [s \in Symbols |-> {}]
  /\ subId = [s \in Symbols |-> "none"]
  /\ streams = {}
  /\ last = [s \in Symbols |-> Nothing]
  /\ told = [s \in Symbols |-> Nothing]

Reader ==
  \/ DialOk \/ DialFails \/ Wake \/ Close
  \/ \E ok \in BOOLEAN : ReadEnd(ok)
  \/ \E s \in Symbols : RestoreNext(s)

Caller(c) ==
  \/ \E s \in Symbols : FetchCandles(c, s) \/ GetCandles(c, s) \/ Subscribe(c, s) \/ Unsubscribe(c, s)
  \/ Prepare(c) \/ Refuse(c) \/ Send(c) \/ Timeout(c) \/ Return(c)

Server ==
  \/ Lose
  \/ \E m \in sent, error \in BOOLEAN : Answer(m, error)
  \/ \E s \in Symbols, t \in Ticks : Tick(s, t)

Next == Connect \/ Disconnect \/ Reader \/ Server \/ \E c \in Callers : Caller(c)

Spec == Init /\ [][Next]_vars

\* The loop goes on by itself; a server that is dialled again and again answers.
Fairness ==
  /\ WF_vars(Wake) /\ WF_vars(Close) /\ WF_vars(\E ok \in BOOLEAN : ReadEnd(ok))
  /\ WF_vars(DialOk \/ DialFails) /\ SF_vars(DialOk)

FairSpec == Spec /\ Fairness

-----------------------------------------------------------------------------
(* Properties *)

TypeOK ==
  /\ loop \in {"none", "dialing", "restoring", "stuck", "reading", "backoff", "ended"}
  /\ stop \in {"no", "early", "reading"}
  /\ ws \in {"none", "open", "closed"}
  /\ closing \in BOOLEAN /\ connected \in BOOLEAN
  /\ nextReq \in 0..MaxRequests
  /\ pending \in SUBSET Future /\ sent \in SUBSET Message
  /\ call \in [Callers -> Call \cup {NoCall}]
  /\ restore \in SUBSET Symbols
  /\ subs \in [Symbols -> SUBSET Callers]
  /\ subId \in [Symbols -> {"none", "valid", "stale"}]
  /\ streams \in SUBSET Symbols
  /\ last \in [Symbols -> Ticks] /\ told \in [Symbols -> Ticks]

\* Whoever gets an answer gets that to its own request, whatever timed out, was
\* sent before the connection was lost, or is sent at the same time.
\* (_async_call, _handle_message)
AnswerMatches == \A c \in Callers : call[c].pc = "answered" => call[c].got = c

\* Subscribers never see time go back, even over a reconnection or a new
\* subscription. (_handle_message)
TicksInOrder == [][\A s \in Symbols : told'[s].epoch >= told[s].epoch]_vars

\* A loop without subscribers that lost its connection reads again, until it is
\* told to stop, and one that is told to stop while it reads ends its thread.
\* With subscribers it waits for ever for an answer that it would have to read
\* itself. (_ws_loop, disconnect)
LoopRecovers ==
  /\ (loop \in {"dialing", "backoff"} /\ Running /\ \A s \in Symbols : subs[s] = {})
       ~> (loop = "reading" \/ ~ Running \/ \E s \in Symbols : subs[s] # {})
  /\ stop = "reading" ~> loop = "ended"

=============================================================================
