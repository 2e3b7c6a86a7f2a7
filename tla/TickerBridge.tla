---------------------------- MODULE TickerBridge ----------------------------
(***************************************************************************)
(* Live prices: services/ticker_bridge.py, the MarketConsumer of every     *)
(* WebSocket (consumers.py) and the two REST calls of api_views.py.        *)
(*                                                                         *)
(* A consumer joins the channel group of its symbol and counts itself in   *)
(* the symbol's subscription; the first one starts a ticker, a thread that *)
(* forwards the broker's ticks to the group.  The handlers of a consumer   *)
(* run one after the other, and those of different consumers interleave at *)
(* every await; the subscriptions are guarded by a lock.                   *)
(*                                                                         *)
(* A tick is abstracted to the fact that the group heard one: the filters  *)
(* on price and epoch decide only whether there is a tick to forward.      *)
(***************************************************************************)
EXTENDS Naturals, FiniteSets

CONSTANTS
  Consumers,      \* WebSocket connections
  Symbols,
  Tickers,        \* bound: ticker threads alive at a time
  MaxGeneration,  \* bound: generations of a subscription
  MaxRefcount,    \* bound: references to a subscription
  Scope           \* what clients and infrastructure do in an instance

ASSUME SetAssumption   == IsFiniteSet(Consumers) /\ IsFiniteSet(Symbols) /\ Symbols # {}
ASSUME BoundAssumption == MaxGeneration \in Nat \ {0} /\ MaxRefcount \in Nat \ {0}
ASSUME ScopeAssumption == Scope \subseteq {"leave", "switch", "unsubscribe", "rest", "layer", "exhausted"}

VARIABLES
  active,     \* active[s]: _active_subscriptions.get(s)
  ticker,     \* ticker[t]: what thread t is doing
  consumer,   \* consumer[c]: what connection c is doing
  group       \* group[s]: the members of the channel group of s

vars == <<active, ticker, consumer, group>>

\* A subscription without references has no entry.  gone: history, the symbol
\* has had an entry before and lost it.
NoEntry == [refcount |-> 0, mode |-> "none", generation |-> 0, gone |-> FALSE]
Entry   == [refcount : 0..MaxRefcount, mode : {"none", "connecting", "unavailable"},
            generation : 0..MaxGeneration, gone : BOOLEAN]

SomeSymbol == CHOOSE s \in Symbols : TRUE

\* quiet: the thread did not start, and the caller that reports it is a
\* coroutine, where async_to_sync raises.
NoTicker == [pc |-> "free", sym |-> SomeSymbol, gen |-> 0, quiet |-> FALSE]
Ticker   == [pc : {"free", "connect", "stream", "backoff", "ended", "report"},
             sym : Symbols, gen : 0..MaxGeneration, quiet : BOOLEAN]

\* wants: the client has asked for the symbol and not taken it back.
\* heard: what the client was last told of its symbol.
NoConsumer == [pc |-> "out", sym |-> SomeSymbol, wants |-> FALSE, heard |-> "nothing"]
Consumer   == [pc : {"out", "joined", "idle", "left", "switching", "joining"},
               sym : Symbols, wants : BOOLEAN, heard : {"nothing", "ticks", "unavailable"}]

Running == {"connect", "stream", "backoff"}

Exists(s) == active[s].mode # "none"

-----------------------------------------------------------------------------
(* The public methods of the bridge                                        *)

\* _start_live_ticker: always a new thread.
StartTicker(s, g, pc, quiet) ==
  \E t \in Tickers :
     /\ ticker[t].pc = "free"
     /\ ticker' = [ticker EXCEPT ![t] = [pc |-> pc, sym |-> s, gen |-> g, quiet |-> quiet]]

\* Thread.start raises when the process is out of threads; the caller then
\* marks the subscription itself.
StartOrFail(s, g, fromCoroutine) ==
  \/ StartTicker(s, g, "connect", FALSE)
  \/ "exhausted" \in Scope /\ StartTicker(s, g, "ended", fromCoroutine)

Referenced(s) == [active EXCEPT ![s].refcount = @ + 1]

Created(s) == [active EXCEPT ![s] = [refcount |-> 1, mode |-> "connecting", generation |-> 1,
                                     gone |-> active[s].gone]]

\* Mutant: a subscription that is there is never restarted.
EnsureOnce(s, fromCoroutine) ==
  /\ active[s].refcount < MaxRefcount
  /\ \/ /\ Exists(s)
        /\ active' = Referenced(s)
        /\ UNCHANGED ticker
     \/ /\ ~ Exists(s)
        /\ active' = Created(s)
        /\ StartOrFail(s, 1, fromCoroutine)

\* Mutant: every subscriber starts a ticker.
EnsureForEach(s, fromCoroutine) ==
  /\ active[s].refcount < MaxRefcount
  /\ \/ /\ Exists(s)
        /\ active' = Referenced(s)
        /\ StartOrFail(s, active[s].generation, fromCoroutine)
     \/ /\ ~ Exists(s)
        /\ active' = Created(s)
        /\ StartOrFail(s, 1, fromCoroutine)

EnsureSubscription(s, fromCoroutine) ==
  /\ active[s].refcount < MaxRefcount
  /\ \/ /\ active[s].mode = "connecting"
        /\ active' = Referenced(s)
        /\ UNCHANGED ticker
     \/ /\ active[s].mode = "unavailable"
        /\ active[s].generation < MaxGeneration
        /\ active' = [Referenced(s) EXCEPT ![s].generation = @ + 1, ![s].mode = "connecting"]
        /\ StartOrFail(s, active[s].generation + 1, fromCoroutine)
     \/ /\ ~ Exists(s)
        /\ active' = Created(s)
        /\ StartOrFail(s, 1, fromCoroutine)

\* The ticker is not told: only the entry goes.
RemoveSubscription(s) ==
  active' = IF active[s].refcount > 1 THEN [active EXCEPT ![s].refcount = @ - 1]
                                      ELSE [active EXCEPT ![s] = [NoEntry EXCEPT !.gone = Exists(s) \/ active[s].gone]]

-----------------------------------------------------------------------------
(* The ticker threads                                                      *)

Become(t, from, to) ==
  /\ ticker[t].pc \in from
  /\ ticker' = [ticker EXCEPT ![t].pc = to]
  /\ UNCHANGED <<active, consumer, group>>

\* The subscription is confirmed; a retried exception; after the delay; the
\* end of the loop by a clean close or by any other exception.
Subscribed(t)     == Become(t, {"connect"}, "stream")
ConnectionLost(t) == Become(t, {"connect", "stream"}, "backoff")
Reconnect(t)      == Become(t, {"backoff"}, "connect")
LoopEnds(t)       == Become(t, {"connect", "stream"}, "ended")

Hear(s, what) ==
  consumer' = [c \in Consumers |-> IF c \in group[s] THEN [consumer[c] EXCEPT !.heard = what]
                                                     ELSE consumer[c]]

\* group_send of a tick.
Publish(t) ==
  /\ ticker[t].pc = "stream"
  /\ Hear(ticker[t].sym, "ticks")
  /\ UNCHANGED <<active, ticker, group>>

\* Mutant: the generation is compared with the one before.
MarkPrevious(t) ==
  LET s == ticker[t].sym IN
  /\ ticker[t].pc = "ended"
  /\ IF Exists(s) /\ active[s].generation = ticker[t].gen + 1
     THEN /\ active' = [active EXCEPT ![s].mode = "unavailable"]
          /\ ticker' = [ticker EXCEPT ![t].pc = "report"]
     ELSE /\ ticker' = [ticker EXCEPT ![t] = NoTicker]
          /\ UNCHANGED active
  /\ UNCHANGED <<consumer, group>>

\* _mark_unavailable, under the lock: only the ticker whose generation the
\* subscription has may speak for it.
MarkUnavailable(t) ==
  LET s == ticker[t].sym IN
  /\ ticker[t].pc = "ended"
  /\ IF Exists(s) /\ active[s].generation = ticker[t].gen
     THEN /\ active' = [active EXCEPT ![s].mode = "unavailable"]
          /\ ticker' = [ticker EXCEPT ![t].pc = "report"]
     ELSE /\ ticker' = [ticker EXCEPT ![t] = NoTicker]
          /\ UNCHANGED active
  /\ UNCHANGED <<consumer, group>>

\* _send_unavailable, after the lock; a failure to send is only logged.
SendUnavailable(t) ==
  /\ ticker[t].pc = "report"
  /\ ticker' = [ticker EXCEPT ![t] = NoTicker]
  /\ \/ ~ ticker[t].quiet /\ Hear(ticker[t].sym, "unavailable")
     \/ (ticker[t].quiet \/ "layer" \in Scope) /\ UNCHANGED consumer
  /\ UNCHANGED <<active, group>>

-----------------------------------------------------------------------------
(* The consumers: one step from an await to the next                       *)

Join(c, s)  == group' = [group EXCEPT ![s] = @ \cup {c}]
Leave(c)    == group' = [group EXCEPT ![consumer[c].sym] = @ \ {c}]
Goto(c, pc) == consumer' = [consumer EXCEPT ![c].pc = pc]

\* connect: joins the group, accepts, greets; then subscribes.
Connect(c, s) ==
  /\ consumer[c].pc = "out"
  /\ Join(c, s)
  /\ consumer' = [consumer EXCEPT ![c] = [pc |-> "joined", sym |-> s, wants |-> TRUE, heard |-> "nothing"]]
  /\ UNCHANGED <<active, ticker>>

Ensure(c) ==
  /\ consumer[c].pc = "joined"
  /\ EnsureSubscription(consumer[c].sym, TRUE)
  /\ Goto(c, "idle")
  /\ UNCHANGED group

\* disconnect: leaves the group, then gives its reference back.
Disconnect(c) ==
  /\ "leave" \in Scope
  /\ consumer[c].pc = "idle"
  /\ Leave(c)
  /\ Goto(c, "left")
  /\ UNCHANGED <<active, ticker>>

\* Mutant: the reference is kept.
DisconnectForgets(c) ==
  /\ consumer[c].pc = "left"
  /\ consumer' = [consumer EXCEPT ![c] = NoConsumer]
  /\ UNCHANGED <<active, ticker, group>>

Disconnected(c) ==
  /\ consumer[c].pc = "left"
  /\ RemoveSubscription(consumer[c].sym)
  /\ consumer' = [consumer EXCEPT ![c] = NoConsumer]
  /\ UNCHANGED <<ticker, group>>

\* The channel layer raises in group_discard: the handler ends there, and the
\* layer lets go of the channel when it expires.
DisconnectFails(c) ==
  /\ "layer" \in Scope
  /\ consumer[c].pc = "idle"
  /\ Leave(c)
  /\ consumer' = [consumer EXCEPT ![c] = NoConsumer]
  /\ UNCHANGED <<active, ticker>>

\* receive 'unsubscribe': the consumer stays in the group, with its symbol.
Unsubscribe(c) ==
  /\ "unsubscribe" \in Scope
  /\ consumer[c].pc = "idle"
  /\ RemoveSubscription(consumer[c].sym)
  /\ consumer' = [consumer EXCEPT ![c].wants = FALSE]
  /\ UNCHANGED <<ticker, group>>

\* receive 'subscribe' with the symbol the consumer has: nothing is done.
SubscribeSame(c) ==
  /\ "unsubscribe" \in Scope
  /\ consumer[c].pc = "idle"
  /\ consumer' = [consumer EXCEPT ![c].wants = TRUE]
  /\ UNCHANGED <<active, ticker, group>>

\* receive 'subscribe' with another one: gives the reference back, leaves the
\* old group, joins the new one, subscribes.
Switch(c) ==
  /\ "switch" \in Scope
  /\ consumer[c].pc = "idle"
  /\ RemoveSubscription(consumer[c].sym)
  /\ consumer' = [consumer EXCEPT ![c].pc = "switching", ![c].wants = TRUE]
  /\ UNCHANGED <<ticker, group>>

SwitchLeave(c) ==
  /\ consumer[c].pc = "switching"
  /\ Leave(c)
  /\ Goto(c, "joining")
  /\ UNCHANGED <<active, ticker>>

SwitchJoin(c, s) ==
  /\ consumer[c].pc = "joining"
  /\ s # consumer[c].sym
  /\ Join(c, s)
  /\ consumer' = [consumer EXCEPT ![c].pc = "joined", ![c].sym = s, ![c].heard = "nothing"]
  /\ UNCHANGED <<active, ticker>>

-----------------------------------------------------------------------------
(* The REST calls take and give back a reference that no connection holds. *)

RestSubscribe(s) ==
  /\ "rest" \in Scope
  /\ EnsureSubscription(s, FALSE)
  /\ UNCHANGED <<consumer, group>>

RestUnsubscribe(s) ==
  /\ "rest" \in Scope
  /\ Exists(s)
  /\ RemoveSubscription(s)
  /\ UNCHANGED <<ticker, consumer, group>>

-----------------------------------------------------------------------------

Init ==
  /\ active = [s \in Symbols |-> NoEntry]
  /\ ticker = [t \in Tickers |-> NoTicker]
  /\ consumer = [c \in Consumers |-> NoConsumer]
  /\ group = [s \in Symbols |-> {}]

TickerStep(t) ==
  \/ Subscribed(t) \/ ConnectionLost(t) \/ Reconnect(t) \/ LoopEnds(t)
  \/ Publish(t) \/ MarkUnavailable(t) \/ SendUnavailable(t)

\* What a handler does once it has begun.
HandlerStep(c) ==
  \/ Ensure(c) \/ Disconnected(c) \/ SwitchLeave(c)
  \/ \E s \in Symbols : SwitchJoin(c, s)

Message(c) ==
  \/ \E s \in Symbols : Connect(c, s)
  \/ Disconnect(c) \/ DisconnectFails(c)
  \/ Unsubscribe(c) \/ SubscribeSame(c) \/ Switch(c)

Next ==
  \/ \E t \in Tickers : TickerStep(t)
  \/ \E c \in Consumers : HandlerStep(c) \/ Message(c)
  \/ \E s \in Symbols : RestSubscribe(s) \/ RestUnsubscribe(s)

Spec == Init /\ [][Next]_vars

-----------------------------------------------------------------------------
(* Properties *)

TypeOK ==
  /\ active \in [Symbols -> Entry]
  /\ ticker \in [Tickers -> Ticker]
  /\ consumer \in [Consumers -> Consumer]
  /\ group \in [Symbols -> SUBSET Consumers]

RunningTickers(s) == {t \in Tickers : ticker[t].sym = s /\ ticker[t].pc \in Running}

Holders(s) == {c \in Consumers : consumer[c].pc \in {"idle", "left"} /\ consumer[c].sym = s}

\* Of connections that come, go and switch, no reference is lost or kept at
\* any of their awaits: a subscription counts exactly those that hold it.
\* (consumers.connect, disconnect, receive; TickerBridge.ensure_subscription.)
RefcountExact == \A s \in Symbols : active[s].refcount = Cardinality(Holders(s))

SpeaksFor(t, s) ==
  /\ ticker[t].sym = s
  /\ ticker[t].gen = active[s].generation
  /\ ticker[t].pc \in Running \cup {"ended"}

\* Whatever clients, REST calls and the channel layer do, a subscription that
\* says "connecting" has a ticker of its generation, alive or about to mark it
\* unavailable: no newcomer relies on a ticker that is gone.
\* (TickerBridge.ensure_subscription, _mark_unavailable.)
ConnectingHasTicker ==
  \A s \in Symbols : active[s].mode = "connecting" => \E t \in Tickers : SpeaksFor(t, s)

\* "Maintains one broker adapter per subscribed symbol" (ticker_bridge.py:23), until
\* the last subscriber of a symbol has left, however often the ticker fails and is
\* restarted. (ensure_subscription: the generation)
OneAdapterUntilGone ==
  \A s \in Symbols : ~ active[s].gone => Cardinality(RunningTickers(s)) <= 1

\* Until then a connection that asked for a symbol has a ticker at work for it,
\* or one about to report, or has last been told that prices are unavailable:
\* "reports unavailable status", "so that all connected MarketConsumers receive
\* the data". (ticker_bridge.py:25, 44)
Informed ==
  \A c \in Consumers :
     LET s == consumer[c].sym IN
     consumer[c].pc = "idle" /\ consumer[c].wants /\ ~ active[s].gone =>
        \/ consumer[c].heard = "unavailable"
        \/ \E t \in Tickers : SpeaksFor(t, s) \/ (ticker[t].sym = s /\ ticker[t].pc = "report")

=============================================================================
