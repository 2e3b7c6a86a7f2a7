------------------------- MODULE TickerBridgeProofs -------------------------
(***************************************************************************)
(* For any number of connections, symbols and ticker threads, and whatever *)
(* clients and infrastructure do, a subscription that says "connecting"    *)
(* has a ticker of its generation.  Type correctness is all the invariant  *)
(* needs beside itself: a ticker gives up speaking for its subscription    *)
(* only in MarkUnavailable, in the step that changes the mode.             *)
(***************************************************************************)
EXTENDS TickerBridge, FiniteSetTheorems, TLAPS

LEMMA SomeSymbolIsOne == SomeSymbol \in Symbols
  BY SetAssumption DEF SomeSymbol

LEMMA EmptyValues ==
  /\ NoEntry \in Entry
  /\ NoTicker \in Ticker
  /\ NoConsumer \in Consumer
  BY SomeSymbolIsOne, BoundAssumption DEF NoEntry, Entry, NoTicker, Ticker, NoConsumer, Consumer

\* A thread starts in a free slot, and its record is well typed.
LEMMA StartType ==
  ASSUME TypeOK, NEW s \in Symbols, NEW g \in 0..MaxGeneration, NEW coro \in BOOLEAN,
         StartOrFail(s, g, coro)
  PROVE  \E t \in Tickers, pc \in {"connect", "ended"}, q \in BOOLEAN :
            /\ ticker[t].pc = "free"
            /\ ticker' = [ticker EXCEPT ![t] = [pc |-> pc, sym |-> s, gen |-> g, quiet |-> q]]
            /\ ticker' \in [Tickers -> Ticker]
<1>1. PICK pc \in {"connect", "ended"}, q \in BOOLEAN : StartTicker(s, g, pc, q)
  BY DEF StartOrFail
<1>2. PICK t \in Tickers :
         /\ ticker[t].pc = "free"
         /\ ticker' = [ticker EXCEPT ![t] = [pc |-> pc, sym |-> s, gen |-> g, quiet |-> q]]
  BY <1>1 DEF StartTicker
<1>3. [pc |-> pc, sym |-> s, gen |-> g, quiet |-> q] \in Ticker
  BY DEF Ticker
<1>4. ticker' \in [Tickers -> Ticker]
  BY <1>2, <1>3 DEF TypeOK
<1>. QED
  BY <1>2, <1>4

\* What a subscription becomes when a reference is added.
LEMMA EnsureCases ==
  ASSUME TypeOK, NEW s \in Symbols, NEW coro \in BOOLEAN, EnsureSubscription(s, coro)
  PROVE  /\ active' \in [Symbols -> Entry]
         /\ \A r \in Symbols \ {s} : active'[r] = active[r]
         /\ \/ /\ active[s].mode = "connecting"
               /\ active'[s].generation = active[s].generation
               /\ UNCHANGED ticker
            \/ /\ active[s].mode # "connecting"
               /\ active'[s].generation \in 0..MaxGeneration
               /\ StartOrFail(s, active'[s].generation, coro)
<1>1. active[s] \in Entry /\ active \in [Symbols -> Entry]
  BY DEF TypeOK
<1>2. active[s].refcount + 1 \in 0..MaxRefcount
  BY <1>1, BoundAssumption DEF EnsureSubscription, Entry
<1>3. CASE active[s].mode = "connecting" /\ active' = Referenced(s) /\ UNCHANGED ticker
  BY <1>1, <1>2, <1>3 DEF Referenced, Entry
<1>4. CASE /\ active[s].mode = "unavailable"
           /\ active[s].generation < MaxGeneration
           /\ active' = [Referenced(s) EXCEPT ![s].generation = @ + 1, ![s].mode = "connecting"]
           /\ StartOrFail(s, active[s].generation + 1, coro)
  <2>1. active[s].generation + 1 \in 0..MaxGeneration
    BY <1>1, <1>4, BoundAssumption DEF Entry
  <2>2. active'[s].generation = active[s].generation + 1
    BY <1>1, <1>4 DEF Referenced, Entry
  <2>3. active' \in [Symbols -> Entry]
    BY <1>1, <1>2, <1>4, <2>1 DEF Referenced, Entry
  <2>. QED
    BY <1>1, <1>4, <2>1, <2>2, <2>3 DEF Referenced
<1>5. CASE /\ ~ Exists(s)
           /\ active' = Created(s)
           /\ StartOrFail(s, 1, coro)
  <2>1. active' = [active EXCEPT ![s] = active'[s]]
    BY <1>1, <1>5 DEF Created
  <2>2. active'[s] = [refcount |-> 1, mode |-> "connecting", generation |-> 1, gone |-> active[s].gone]
    BY <1>1, <1>5 DEF Created
  <2>3. active'[s] \in Entry
    BY <1>1, <2>2, BoundAssumption DEF Entry
  <2>. QED
    BY <1>1, <1>5, <2>1, <2>2, <2>3, BoundAssumption DEF Exists
<1>. QED
  BY <1>3, <1>4, <1>5 DEF EnsureSubscription

\* Giving a reference back leaves an entry of the same mode, or none.
LEMMA RemoveCases ==
  ASSUME TypeOK, NEW s \in Symbols, RemoveSubscription(s)
  PROVE  /\ active' \in [Symbols -> Entry]
         /\ \A r \in Symbols : \/ active'[r].mode = "none"
                               \/ /\ active'[r].mode = active[r].mode
                                  /\ active'[r].generation = active[r].generation
<1>1. active \in [Symbols -> Entry] /\ active[s] \in Entry /\ NoEntry \in Entry
  BY EmptyValues DEF TypeOK
<1>2. active[s].refcount > 1 => [active[s] EXCEPT !.refcount = @ - 1] \in Entry
  BY <1>1, BoundAssumption DEF Entry
<1>3. active' = [active EXCEPT ![s] = active'[s]]
  BY <1>1 DEF RemoveSubscription
<1>4. CASE active[s].refcount > 1
  <2>1. active'[s] = [active[s] EXCEPT !.refcount = @ - 1]
    BY <1>1, <1>4 DEF RemoveSubscription
  <2>. QED
    BY <1>1, <1>2, <1>3, <1>4, <2>1 DEF Entry
<1>5. CASE ~ (active[s].refcount > 1)
  <2>1. active'[s] = [NoEntry EXCEPT !.gone = Exists(s) \/ active[s].gone]
    BY <1>1, <1>5 DEF RemoveSubscription
  <2>2. active'[s] \in Entry /\ active'[s].mode = "none"
    BY <1>1, <2>1 DEF NoEntry, Entry, Exists
  <2>. QED
    BY <1>1, <1>3, <2>2
<1>. QED
  BY <1>4, <1>5

\* The steps of consumers and REST calls keep the two variables typed that
\* only they change.
LEMMA HearType ==
  ASSUME TypeOK, NEW s \in Symbols, NEW what \in {"ticks", "unavailable"}, Hear(s, what)
  PROVE  consumer' \in [Consumers -> Consumer]
  BY DEF TypeOK, Hear, Consumer

LEMMA MembershipType ==
  ASSUME TypeOK, NEW c \in Consumers
  PROVE  /\ \A s \in Symbols : Join(c, s) => group' \in [Symbols -> SUBSET Consumers]
         /\ Leave(c) => group' \in [Symbols -> SUBSET Consumers]
         /\ \A pc \in {"idle", "left", "joining"} :
               Goto(c, pc) => consumer' \in [Consumers -> Consumer]
<1>1. ASSUME NEW s \in Symbols, Join(c, s)
      PROVE  group' \in [Symbols -> SUBSET Consumers]
  BY <1>1 DEF TypeOK, Join
<1>2. ASSUME Leave(c)
      PROVE  group' \in [Symbols -> SUBSET Consumers]
  BY <1>2 DEF TypeOK, Leave, Consumer
<1>3. ASSUME NEW pc \in {"idle", "left", "joining"}, Goto(c, pc)
      PROVE  consumer' \in [Consumers -> Consumer]
  <2>1. [consumer[c] EXCEPT !.pc = pc] \in Consumer
    BY DEF TypeOK, Consumer
  <2>. QED
    BY <1>3, <2>1 DEF TypeOK, Goto
<1>. QED
  BY <1>1, <1>2, <1>3

\* The steps of the ticker threads.
LEMMA TickerStepType ==
  ASSUME TypeOK, NEW t \in Tickers, TickerStep(t)
  PROVE  TypeOK'
<1>1. ASSUME NEW from, NEW to \in {"stream", "backoff", "connect", "ended"},
             Become(t, from, to)
      PROVE  TypeOK'
  BY <1>1 DEF TypeOK, Become, Ticker
<1>2. CASE Subscribed(t) \/ ConnectionLost(t) \/ Reconnect(t) \/ LoopEnds(t)
  BY <1>1, <1>2 DEF Subscribed, ConnectionLost, Reconnect, LoopEnds
<1>3. CASE Publish(t)
  <2>1. ticker[t].sym \in Symbols
    BY DEF TypeOK, Ticker
  <2>. QED
    BY <1>3, <2>1, HearType DEF Publish, TypeOK
<1>4. CASE MarkUnavailable(t)
  <2>1. ticker' \in [Tickers -> Ticker]
    BY <1>4, EmptyValues DEF MarkUnavailable, TypeOK, Ticker
  <2>2. active' \in [Symbols -> Entry]
    BY <1>4 DEF MarkUnavailable, TypeOK, Entry
  <2>. QED
    BY <1>4, <2>1, <2>2 DEF MarkUnavailable, TypeOK
<1>5. CASE SendUnavailable(t)
  <2>1. ticker[t].sym \in Symbols
    BY DEF TypeOK, Ticker
  <2>2. ticker' \in [Tickers -> Ticker]
    BY <1>5, EmptyValues DEF SendUnavailable, TypeOK
  <2>3. consumer' \in [Consumers -> Consumer]
    BY <1>5, <2>1, HearType DEF SendUnavailable, TypeOK
  <2>. QED
    BY <1>5, <2>2, <2>3 DEF SendUnavailable, TypeOK
<1>. QED
  BY <1>2, <1>3, <1>4, <1>5 DEF TickerStep

\* Any start of a thread, in an Ensure or a REST call, is well typed.
LEMMA EnsureType ==
  ASSUME TypeOK, NEW s \in Symbols, NEW coro \in BOOLEAN, EnsureSubscription(s, coro)
  PROVE  active' \in [Symbols -> Entry] /\ ticker' \in [Tickers -> Ticker]
<1>1. CASE UNCHANGED ticker
  BY <1>1, EnsureCases DEF TypeOK
<1>2. CASE active'[s].generation \in 0..MaxGeneration /\ StartOrFail(s, active'[s].generation, coro)
  BY <1>2, EnsureCases, StartType
<1>. QED
  BY <1>1, <1>2, EnsureCases

\* The steps of a consumer.
LEMMA ConsumerStepType ==
  ASSUME TypeOK, NEW c \in Consumers, HandlerStep(c) \/ Message(c)
  PROVE  TypeOK'
<1>. consumer[c] \in Consumer /\ consumer[c].sym \in Symbols
  BY DEF TypeOK, Consumer
<1>1. CASE Ensure(c)
  BY <1>1, EnsureType, MembershipType DEF Ensure, TypeOK
<1>2. CASE Disconnected(c)
  BY <1>2, RemoveCases, EmptyValues DEF Disconnected, TypeOK
<1>3. CASE SwitchLeave(c)
  BY <1>3, MembershipType DEF SwitchLeave, TypeOK
<1>4. ASSUME NEW s \in Symbols, SwitchJoin(c, s)
      PROVE  TypeOK'
  <2>1. consumer' \in [Consumers -> Consumer]
    BY <1>4 DEF SwitchJoin, TypeOK, Consumer
  <2>. QED
    BY <1>4, <2>1, MembershipType DEF SwitchJoin, TypeOK
<1>5. ASSUME NEW s \in Symbols, Connect(c, s)
      PROVE  TypeOK'
  <2>1. [pc |-> "joined", sym |-> s, wants |-> TRUE, heard |-> "nothing"] \in Consumer
    BY DEF Consumer
  <2>. QED
    BY <1>5, <2>1, MembershipType DEF Connect, TypeOK
<1>6. CASE Disconnect(c)
  BY <1>6, MembershipType DEF Disconnect, TypeOK
<1>7. CASE DisconnectFails(c)
  BY <1>7, MembershipType, EmptyValues DEF DisconnectFails, TypeOK
<1>8. CASE Unsubscribe(c) \/ Switch(c)
  <2>1. /\ [consumer[c] EXCEPT !.wants = FALSE] \in Consumer
        /\ [consumer[c] EXCEPT !.pc = "switching", !.wants = TRUE] \in Consumer
    BY DEF Consumer
  <2>2. consumer' \in [Consumers -> Consumer]
    BY <1>8, <2>1 DEF Unsubscribe, Switch, TypeOK
  <2>. QED
    BY <1>8, <2>2, RemoveCases DEF Unsubscribe, Switch, TypeOK
<1>9. CASE SubscribeSame(c)
  BY <1>9 DEF SubscribeSame, TypeOK, Consumer
<1>. QED
  BY <1>1, <1>2, <1>3, <1>4, <1>5, <1>6, <1>7, <1>8, <1>9 DEF HandlerStep, Message

\* Every variable of the bridge keeps its type, for all constants.
THEOREM TypeCorrect == Spec => []TypeOK
<1>1. Init => TypeOK
  BY EmptyValues DEF Init, TypeOK
<1>2. TypeOK /\ [Next]_vars => TypeOK'
  <2>. SUFFICES ASSUME TypeOK, [Next]_vars PROVE TypeOK'
    OBVIOUS
  <2>1. ASSUME NEW s \in Symbols, RestSubscribe(s) PROVE TypeOK'
    BY <2>1, EnsureType DEF RestSubscribe, TypeOK
  <2>2. ASSUME NEW s \in Symbols, RestUnsubscribe(s) PROVE TypeOK'
    BY <2>2, RemoveCases DEF RestUnsubscribe, TypeOK
  <2>3. CASE UNCHANGED vars
    BY <2>3 DEF vars, TypeOK
  <2>. QED
    BY <2>1, <2>2, <2>3, TickerStepType, ConsumerStepType DEF Next
<1>. QED
  BY <1>1, <1>2, PTL DEF Spec

-----------------------------------------------------------------------------

\* A subscription keeps its ticker when a step leaves every ticker that speaks
\* for one to go on speaking, and restarts none without a ticker.
LEMMA SpeakersKept ==
  ASSUME ConnectingHasTicker,
         \A s \in Symbols : active'[s].mode = "connecting" =>
            active[s].mode = "connecting" /\ active'[s].generation = active[s].generation,
         \A t \in Tickers, s \in Symbols :
            (SpeaksFor(t, s) /\ active'[s].mode = "connecting") =>
               /\ ticker'[t].sym = ticker[t].sym
               /\ ticker'[t].gen = ticker[t].gen
               /\ ticker'[t].pc \in Running \cup {"ended"}
  PROVE  ConnectingHasTicker'
<1>. SUFFICES ASSUME NEW s \in Symbols, active'[s].mode = "connecting"
              PROVE  \E t \in Tickers : SpeaksFor(t, s)'
  BY DEF ConnectingHasTicker
<1>1. PICK t \in Tickers : SpeaksFor(t, s)
  BY DEF ConnectingHasTicker
<1>2. SpeaksFor(t, s)'
  BY <1>1 DEF SpeaksFor
<1>. QED
  BY <1>2

\* Ensuring a subscription starts its ticker in a slot nobody relies on.
LEMMA EnsureKeepsTickers ==
  ASSUME TypeOK, ConnectingHasTicker, NEW s \in Symbols, NEW coro \in BOOLEAN,
         EnsureSubscription(s, coro)
  PROVE  ConnectingHasTicker'
<1>. SUFFICES ASSUME NEW r \in Symbols, active'[r].mode = "connecting"
              PROVE  \E t \in Tickers : SpeaksFor(t, r)'
  BY DEF ConnectingHasTicker
<1>1. CASE /\ active[s].mode = "connecting"
           /\ active'[s].generation = active[s].generation
           /\ UNCHANGED ticker
  <2>1. active[r].mode = "connecting" /\ active'[r].generation = active[r].generation
    BY <1>1, EnsureCases
  <2>2. PICK t \in Tickers : SpeaksFor(t, r)
    BY <2>1 DEF ConnectingHasTicker
  <2>. QED
    BY <1>1, <2>1, <2>2 DEF SpeaksFor
<1>2. CASE /\ active'[s].generation \in 0..MaxGeneration
           /\ StartOrFail(s, active'[s].generation, coro)
  <2>1. PICK t \in Tickers, pc \in {"connect", "ended"}, q \in BOOLEAN :
           /\ ticker[t].pc = "free"
           /\ ticker' = [ticker EXCEPT ![t] = [pc |-> pc, sym |-> s,
                                              gen |-> active'[s].generation, quiet |-> q]]
    BY <1>2, StartType
  <2>2. CASE r = s
    <3>1. ticker'[t] = [pc |-> pc, sym |-> s, gen |-> active'[s].generation, quiet |-> q]
      BY <2>1 DEF TypeOK
    <3>2. pc \in Running \cup {"ended"}
      BY DEF Running
    <3>. QED
      BY <2>2, <3>1, <3>2 DEF SpeaksFor
  <2>3. CASE r # s
    <3>1. active'[r] = active[r]
      BY <2>3, EnsureCases
    <3>2. PICK u \in Tickers : SpeaksFor(u, r)
      BY <3>1 DEF ConnectingHasTicker
    <3>3. u # t
      BY <2>1, <3>2 DEF SpeaksFor, Running
    <3>4. ticker'[u] = ticker[u]
      BY <2>1, <3>3 DEF TypeOK
    <3>. QED
      BY <3>1, <3>2, <3>4 DEF SpeaksFor
  <2>. QED
    BY <2>2, <2>3
<1>. QED
  BY <1>1, <1>2, EnsureCases

\* Removing a reference changes no ticker and makes nothing "connecting".
LEMMA RemoveKeepsTickers ==
  ASSUME TypeOK, ConnectingHasTicker, NEW s \in Symbols, RemoveSubscription(s), UNCHANGED ticker
  PROVE  ConnectingHasTicker'
<1>1. \A r \in Symbols : active'[r].mode = "connecting" =>
         active[r].mode = "connecting" /\ active'[r].generation = active[r].generation
  BY RemoveCases
<1>. QED
  BY <1>1, SpeakersKept DEF SpeaksFor

\* A ticker that stops speaking for a subscription has marked it, or never
\* spoke for it.
LEMMA TickerStepKeepsTickers ==
  ASSUME TypeOK, ConnectingHasTicker, NEW t \in Tickers, TickerStep(t)
  PROVE  ConnectingHasTicker'
<1>. ticker \in [Tickers -> Ticker] /\ active \in [Symbols -> Entry]
  BY DEF TypeOK
<1>1. ASSUME NEW from, NEW to \in Running \cup {"ended"}, Become(t, from, to)
      PROVE  ConnectingHasTicker'
  BY <1>1, SpeakersKept DEF Become, SpeaksFor, Ticker
<1>2. CASE Subscribed(t) \/ ConnectionLost(t) \/ Reconnect(t) \/ LoopEnds(t)
  BY <1>1, <1>2 DEF Subscribed, ConnectionLost, Reconnect, LoopEnds, Running
<1>3. CASE Publish(t)
  BY <1>3, SpeakersKept DEF Publish, SpeaksFor
<1>4. CASE MarkUnavailable(t)
  <2>1. \A s \in Symbols : active'[s].mode = "connecting" =>
           active[s].mode = "connecting" /\ active'[s].generation = active[s].generation
    BY <1>4 DEF MarkUnavailable, Entry
  <2>2. \A s \in Symbols : SpeaksFor(t, s) => active'[s].mode # "connecting"
    <3>. SUFFICES ASSUME NEW s \in Symbols, SpeaksFor(t, s), active'[s].mode = "connecting"
                  PROVE  FALSE
      OBVIOUS
    <3>1. active[s].mode = "connecting" /\ s = ticker[t].sym
      BY <2>1 DEF SpeaksFor
    <3>2. active' = [active EXCEPT ![s].mode = "unavailable"]
      BY <1>4, <3>1 DEF MarkUnavailable, SpeaksFor, Exists
    <3>. QED
      BY <3>2 DEF Entry
  <2>3. \A u \in Tickers : u # t => ticker'[u] = ticker[u]
    BY <1>4 DEF MarkUnavailable
  <2>. QED
    BY <2>1, <2>2, <2>3, SpeakersKept DEF SpeaksFor
<1>5. CASE SendUnavailable(t)
  <2>1. \A s \in Symbols : ~ SpeaksFor(t, s)
    BY <1>5 DEF SendUnavailable, SpeaksFor, Running
  <2>2. \A u \in Tickers : u # t => ticker'[u] = ticker[u]
    BY <1>5 DEF SendUnavailable
  <2>. QED
    BY <1>5, <2>1, <2>2, SpeakersKept DEF SendUnavailable, SpeaksFor
<1>. QED
  BY <1>2, <1>3, <1>4, <1>5 DEF TickerStep

\* A newcomer to a subscription that says "connecting" never relies on a
\* ticker that is gone, whatever clients, REST calls, the channel layer and
\* the broker do.
THEOREM ConnectingAlwaysHasTicker == Spec => []ConnectingHasTicker
<1>1. Init => ConnectingHasTicker
  BY DEF Init, ConnectingHasTicker, NoEntry
<1>2. TypeOK /\ ConnectingHasTicker /\ [Next]_vars => ConnectingHasTicker'
  <2>. SUFFICES ASSUME TypeOK, ConnectingHasTicker, [Next]_vars PROVE ConnectingHasTicker'
    OBVIOUS
  <2>1. ASSUME UNCHANGED <<active, ticker>> PROVE ConnectingHasTicker'
    BY <2>1 DEF ConnectingHasTicker, SpeaksFor
  <2>2. ASSUME NEW c \in Consumers, HandlerStep(c) \/ Message(c) PROVE ConnectingHasTicker'
    <3>. consumer[c].sym \in Symbols
      BY DEF TypeOK, Consumer
    <3>1. CASE Ensure(c)
      BY <3>1, EnsureKeepsTickers DEF Ensure
    <3>2. CASE Disconnected(c) \/ Unsubscribe(c) \/ Switch(c)
      BY <3>2, RemoveKeepsTickers DEF Disconnected, Unsubscribe, Switch
    <3>3. CASE SwitchLeave(c) \/ Disconnect(c) \/ DisconnectFails(c) \/ SubscribeSame(c)
      BY <2>1, <3>3 DEF SwitchLeave, Disconnect, DisconnectFails, SubscribeSame
    <3>4. ASSUME NEW s \in Symbols, SwitchJoin(c, s) \/ Connect(c, s) PROVE ConnectingHasTicker'
      BY <2>1, <3>4 DEF SwitchJoin, Connect
    <3>. QED
      BY <2>2, <3>1, <3>2, <3>3, <3>4 DEF HandlerStep, Message
  <2>3. ASSUME NEW s \in Symbols, RestSubscribe(s) PROVE ConnectingHasTicker'
    BY <2>3, EnsureKeepsTickers DEF RestSubscribe
  <2>4. ASSUME NEW s \in Symbols, RestUnsubscribe(s) PROVE ConnectingHasTicker'
    BY <2>4, RemoveKeepsTickers DEF RestUnsubscribe
  <2>5. CASE UNCHANGED vars
    BY <2>1, <2>5 DEF vars
  <2>. QED
    BY <2>2, <2>3, <2>4, <2>5, TickerStepKeepsTickers DEF Next
<1>. QED
  BY <1>1, <1>2, TypeCorrect, PTL DEF Spec

-----------------------------------------------------------------------------
(* One adapter per symbol, exact references, and informed connections      *)

\* A thread that talks to the broker for a symbol, or has yet to say that it
\* does not any more.
Works(t, s) == ticker[t].sym = s /\ ticker[t].pc \in Running \cup {"ended"}

\* Until the last subscriber has left, a thread at work is the only one and its
\* subscription says so.
OneWorking ==
  \A s \in Symbols : ~ active[s].gone =>
    \A t \in Tickers : Works(t, s) =>
      /\ active[s].mode = "connecting"
      /\ \A u \in Tickers : Works(u, s) => u = t

\* What a subscription becomes when a reference is added, and what threads do.
LEMMA EnsureEffect ==
  ASSUME TypeOK, NEW s \in Symbols, NEW coro \in BOOLEAN, EnsureSubscription(s, coro)
  PROVE  /\ active'[s].mode = "connecting"
         /\ active'[s].gone = active[s].gone
         /\ active'[s].refcount = IF Exists(s) THEN active[s].refcount + 1 ELSE 1
         /\ \A r \in Symbols \ {s} : active'[r] = active[r]
         /\ \/ active[s].mode = "connecting" /\ UNCHANGED ticker
            \/ /\ active[s].mode # "connecting"
               /\ \E t \in Tickers :
                     /\ ticker[t].pc = "free"
                     /\ ticker'[t].sym = s
                     /\ ticker'[t].pc # "report"
                     /\ ticker'[t].quiet => "exhausted" \in Scope
                     /\ \A u \in Tickers \ {t} : ticker'[u] = ticker[u]
<1>1. active[s] \in Entry /\ active \in [Symbols -> Entry] /\ ticker \in [Tickers -> Ticker]
  BY DEF TypeOK
<1>2. ASSUME NEW g, StartOrFail(s, g, coro)
      PROVE  \E t \in Tickers :
                /\ ticker[t].pc = "free"
                /\ ticker'[t].sym = s
                /\ ticker'[t].pc # "report"
                /\ ticker'[t].quiet => "exhausted" \in Scope
                /\ \A u \in Tickers \ {t} : ticker'[u] = ticker[u]
  <2>1. PICK pc \in {"connect", "ended"}, q \in BOOLEAN :
           StartTicker(s, g, pc, q) /\ (q => "exhausted" \in Scope)
    BY <1>2 DEF StartOrFail
  <2>2. PICK t \in Tickers :
           /\ ticker[t].pc = "free"
           /\ ticker' = [ticker EXCEPT ![t] = [pc |-> pc, sym |-> s, gen |-> g, quiet |-> q]]
    BY <2>1 DEF StartTicker
  <2>. QED
    BY <1>1, <2>1, <2>2
<1>3. CASE active[s].mode = "connecting" /\ active' = Referenced(s) /\ UNCHANGED ticker
  BY <1>1, <1>3 DEF Referenced, Entry, Exists
<1>4. CASE /\ active[s].mode = "unavailable"
           /\ active' = [Referenced(s) EXCEPT ![s].generation = @ + 1, ![s].mode = "connecting"]
           /\ StartOrFail(s, active[s].generation + 1, coro)
  <2>1. \A r \in Symbols \ {s} : active'[r] = active[r]
    BY <1>1, <1>4 DEF Referenced
  <2>2. /\ active'[s].mode = "connecting" /\ active'[s].gone = active[s].gone
        /\ active'[s].refcount = active[s].refcount + 1
    BY <1>1, <1>4 DEF Referenced, Entry
  <2>. QED
    BY <1>2, <1>4, <2>1, <2>2 DEF Exists
<1>5. CASE ~ Exists(s) /\ active' = Created(s) /\ StartOrFail(s, 1, coro)
  <2>1. active'[s] = [refcount |-> 1, mode |-> "connecting", generation |-> 1, gone |-> active[s].gone]
    BY <1>1, <1>5 DEF Created
  <2>2. \A r \in Symbols \ {s} : active'[r] = active[r]
    BY <1>1, <1>5 DEF Created
  <2>. QED
    BY <1>2, <1>5, <2>1, <2>2 DEF Exists
<1>. QED
  BY <1>3, <1>4, <1>5 DEF EnsureSubscription

\* What it becomes when one is given back.
LEMMA RemoveEffect ==
  ASSUME TypeOK, NEW s \in Symbols, RemoveSubscription(s)
  PROVE  /\ \A r \in Symbols \ {s} : active'[r] = active[r]
         /\ \/ /\ active[s].refcount > 1
               /\ active'[s].refcount = active[s].refcount - 1
               /\ active'[s].mode = active[s].mode
               /\ active'[s].gone = active[s].gone
            \/ /\ ~ active[s].refcount > 1
               /\ active'[s].refcount = 0
               /\ active'[s].mode = "none"
               /\ active'[s].gone = (Exists(s) \/ active[s].gone)
<1>1. active[s] \in Entry /\ active \in [Symbols -> Entry]
  BY DEF TypeOK
<1>2. CASE active[s].refcount > 1
  BY <1>1, <1>2 DEF RemoveSubscription, Entry
<1>3. CASE ~ active[s].refcount > 1
  <2>1. active' = [active EXCEPT ![s] = [NoEntry EXCEPT !.gone = Exists(s) \/ active[s].gone]]
    BY <1>3 DEF RemoveSubscription
  <2>. QED
    BY <1>1, <1>3, <2>1 DEF NoEntry
<1>. QED
  BY <1>2, <1>3

\* What the steps of a thread do to threads and subscriptions.
LEMMA TickerEffect ==
  ASSUME TypeOK, NEW t \in Tickers, TickerStep(t)
  PROVE  /\ \A u \in Tickers \ {t} : ticker'[u] = ticker[u]
         /\ \/ /\ UNCHANGED active
               /\ \/ ticker'[t].pc = ticker[t].pc /\ ticker'[t].sym = ticker[t].sym
                  \/ /\ ticker[t].pc \in Running
                     /\ ticker'[t].pc \in Running \cup {"ended"}
                     /\ ticker'[t].sym = ticker[t].sym
                  \/ ticker[t].pc \in {"ended", "report"} /\ ticker'[t].pc = "free"
            \/ /\ ticker[t].pc = "ended" /\ ticker'[t].pc = "report"
               /\ ticker'[t].sym = ticker[t].sym
               /\ Exists(ticker[t].sym)
               /\ active' = [active EXCEPT ![ticker[t].sym].mode = "unavailable"]
         /\ ticker'[t].quiet => ticker[t].quiet
<1>. ticker \in [Tickers -> Ticker] /\ ticker[t] \in Ticker
  BY DEF TypeOK
<1>1. ASSUME NEW from, NEW to \in Running \cup {"ended"}, from \subseteq Running, Become(t, from, to)
      PROVE  /\ \A u \in Tickers \ {t} : ticker'[u] = ticker[u]
             /\ UNCHANGED active
             /\ ticker[t].pc \in Running /\ ticker'[t].pc \in Running \cup {"ended"}
             /\ ticker'[t].sym = ticker[t].sym /\ ticker'[t].quiet = ticker[t].quiet
  BY <1>1 DEF Become, Ticker
<1>2. CASE Subscribed(t) \/ ConnectionLost(t) \/ Reconnect(t) \/ LoopEnds(t)
  BY <1>1, <1>2 DEF Subscribed, ConnectionLost, Reconnect, LoopEnds, Running
<1>3. CASE Publish(t)
  BY <1>3 DEF Publish
<1>4. CASE MarkUnavailable(t)
  BY <1>4 DEF MarkUnavailable, NoTicker, Ticker
<1>5. CASE SendUnavailable(t)
  BY <1>5 DEF SendUnavailable, NoTicker
<1>. QED
  BY <1>2, <1>3, <1>4, <1>5 DEF TickerStep

\* Which steps of a connection touch the subscriptions.
LEMMA ConsumerEffect ==
  ASSUME TypeOK, NEW c \in Consumers, HandlerStep(c) \/ Message(c)
  PROVE  /\ consumer[c].sym \in Symbols
         /\ \/ UNCHANGED <<active, ticker>>
            \/ EnsureSubscription(consumer[c].sym, TRUE)
            \/ RemoveSubscription(consumer[c].sym) /\ UNCHANGED ticker
<1>1. consumer[c].sym \in Symbols
  BY DEF TypeOK, Consumer
<1>. QED
  BY <1>1 DEF HandlerStep, Message, Ensure, Disconnected, SwitchLeave, SwitchJoin, Connect, Disconnect,
              DisconnectFails, Unsubscribe, SubscribeSame, Switch

LEMMA EnsureKeepsOne ==
  ASSUME TypeOK, OneWorking, NEW s \in Symbols, NEW coro \in BOOLEAN, EnsureSubscription(s, coro)
  PROVE  OneWorking'
<1>1. CASE active[s].mode = "connecting" /\ UNCHANGED ticker
  BY <1>1, EnsureEffect DEF OneWorking, Works
<1>2. CASE active[s].mode # "connecting"
  <2>1. PICK t \in Tickers :
           /\ ticker[t].pc = "free" /\ ticker'[t].sym = s
           /\ \A u \in Tickers \ {t} : ticker'[u] = ticker[u]
    BY <1>2, EnsureEffect
  <2>. SUFFICES ASSUME NEW r \in Symbols, ~ active'[r].gone, NEW u \in Tickers, Works(u, r)'
                PROVE  active'[r].mode = "connecting" /\ \A v \in Tickers : Works(v, r)' => v = u
    BY DEF OneWorking
  <2>2. CASE r = s
    <3>1. \A v \in Tickers \ {t} : ~ Works(v, s)'
      BY <1>2, <2>1, <2>2, EnsureEffect DEF OneWorking, Works
    <3>. QED
      BY <2>2, <3>1, EnsureEffect
  <2>3. CASE r # s
    <3>1. \A v \in Tickers : Works(v, r)' <=> Works(v, r)
      BY <2>1, <2>3 DEF Works, Running
    <3>. QED
      BY <2>3, <3>1, EnsureEffect DEF OneWorking
  <2>. QED
    BY <2>2, <2>3
<1>. QED
  BY <1>1, <1>2, EnsureEffect

LEMMA RemoveKeepsOne ==
  ASSUME TypeOK, OneWorking, NEW s \in Symbols, RemoveSubscription(s), UNCHANGED ticker
  PROVE  OneWorking'
<1>. SUFFICES ASSUME NEW r \in Symbols, ~ active'[r].gone, NEW t \in Tickers, Works(t, r)
              PROVE  active'[r].mode = "connecting" /\ \A u \in Tickers : Works(u, r) => u = t
  BY DEF OneWorking, Works
<1>1. ~ active[r].gone
  BY RemoveEffect
<1>2. active[r].mode = "connecting" /\ \A u \in Tickers : Works(u, r) => u = t
  BY <1>1 DEF OneWorking
<1>. QED
  BY <1>2, RemoveEffect DEF Exists

LEMMA TickerStepKeepsOne ==
  ASSUME TypeOK, OneWorking, NEW t \in Tickers, TickerStep(t)
  PROVE  OneWorking'
<1>. active \in [Symbols -> Entry] /\ ticker[t].sym \in Symbols
  BY DEF TypeOK, Ticker
<1>1. \A u \in Tickers, s \in Symbols : Works(u, s)' => Works(u, s)
  BY TickerEffect DEF Works, Running
<1>2. CASE UNCHANGED active
  BY <1>1, <1>2 DEF OneWorking
<1>3. CASE /\ ticker[t].pc = "ended" /\ ticker'[t].pc = "report"
           /\ active' = [active EXCEPT ![ticker[t].sym].mode = "unavailable"]
  <2>0. PICK k \in Symbols : k = ticker[t].sym
    OBVIOUS
  <2>1. Works(t, k)
    BY <1>3, <2>0 DEF Works
  <2>2. \A s \in Symbols : /\ active'[s].gone = active[s].gone
                           /\ s # k => active'[s] = active[s]
    BY <1>3, <2>0 DEF Entry
  <2>3. ~ Works(t, k)'
    BY <1>3 DEF Works, Running
  <2>4. ~ active[k].gone => \A u \in Tickers : ~ Works(u, k)'
    BY <1>1, <2>1, <2>3 DEF OneWorking
  <2>. SUFFICES ASSUME NEW s \in Symbols, ~ active'[s].gone, NEW u \in Tickers, Works(u, s)'
                PROVE  active'[s].mode = "connecting" /\ \A v \in Tickers : Works(v, s)' => v = u
    BY DEF OneWorking
  <2>5. s # k /\ ~ active[s].gone /\ Works(u, s)
    BY <1>1, <2>2, <2>4
  <2>. QED
    BY <1>1, <2>2, <2>5 DEF OneWorking
<1>. QED
  BY <1>2, <1>3, TickerEffect

LEMMA OneWorkingStep == TypeOK /\ OneWorking /\ [Next]_vars => OneWorking'
<1>. SUFFICES ASSUME TypeOK, OneWorking, [Next]_vars PROVE OneWorking'
  OBVIOUS
<1>1. ASSUME UNCHANGED <<active, ticker>> PROVE OneWorking'
  BY <1>1 DEF OneWorking, Works
<1>2. ASSUME NEW c \in Consumers, HandlerStep(c) \/ Message(c) PROVE OneWorking'
  BY <1>1, <1>2, ConsumerEffect, EnsureKeepsOne, RemoveKeepsOne
<1>3. ASSUME NEW s \in Symbols, RestSubscribe(s) \/ RestUnsubscribe(s) PROVE OneWorking'
  BY <1>3, EnsureKeepsOne, RemoveKeepsOne DEF RestSubscribe, RestUnsubscribe
<1>. QED
  BY <1>1, <1>2, <1>3, TickerStepKeepsOne DEF Next, vars

LEMMA OneWorkingAlways == Spec => []OneWorking
<1>1. Init => OneWorking
  BY DEF Init, OneWorking, Works, NoTicker, Running
<1>. QED
  BY <1>1, OneWorkingStep, TypeCorrect, PTL DEF Spec

\* Until the last subscriber of a symbol has left there is one broker adapter
\* for it at most, whatever clients, REST calls, the channel layer and the
\* broker do, and however often the ticker is restarted. (ensure_subscription)
THEOREM OneAdapterPerSymbol == Spec => []OneAdapterUntilGone
<1>1. OneWorking => OneAdapterUntilGone
  <2>. SUFFICES ASSUME OneWorking, NEW s \in Symbols, ~ active[s].gone
                PROVE  Cardinality(RunningTickers(s)) <= 1
    BY DEF OneAdapterUntilGone
  <2>1. CASE RunningTickers(s) = {}
    BY <2>1, FS_EmptySet
  <2>2. CASE RunningTickers(s) # {}
    <3>1. PICK t \in RunningTickers(s) : TRUE
      BY <2>2
    <3>2. \A u \in RunningTickers(s) : u = t
      BY <3>1 DEF OneWorking, Works, RunningTickers
    <3>3. RunningTickers(s) = {t}
      BY <3>1, <3>2
    <3>4. Cardinality({t}) = 1
      BY FS_Singleton
    <3>. QED
      BY <3>3, <3>4
  <2>. QED
    BY <2>1, <2>2
<1>. QED
  BY <1>1, OneWorkingAlways, PTL

\* A subscription without an entry has no references.
CountedOnce == \A s \in Symbols :
  /\ active[s].refcount = Cardinality(Holders(s))
  /\ active[s].mode = "none" => active[s].refcount = 0

\* Somebody who does not hold a reference to s, or lets go of it.
LEMMA HoldersGrow ==
  ASSUME NEW s, NEW c \in Consumers, c \notin Holders(s), Holders(s)' = Holders(s) \cup {c}
  PROVE  Cardinality(Holders(s)') = Cardinality(Holders(s)) + 1 /\ Cardinality(Holders(s)) \in Nat
<1>1. IsFiniteSet(Holders(s))
  BY SetAssumption, FS_Subset DEF Holders
<1>. QED
  BY <1>1, FS_AddElement, FS_CardinalityType

LEMMA HoldersShrink ==
  ASSUME NEW s, NEW c \in Holders(s), Holders(s)' = Holders(s) \ {c}
  PROVE  /\ Cardinality(Holders(s)') = Cardinality(Holders(s)) - 1
         /\ Cardinality(Holders(s)) \in Nat /\ Cardinality(Holders(s)) > 0
<1>1. IsFiniteSet(Holders(s)) /\ IsFiniteSet(Holders(s)')
  BY SetAssumption, FS_Subset DEF Holders
<1>2. Cardinality(Holders(s)) \in Nat /\ Cardinality(Holders(s)') \in Nat
  BY <1>1, FS_CardinalityType
<1>. QED
  BY <1>1, <1>2, FS_RemoveElement

\* The step of a connection that takes a reference, or gives one back.
LEMMA TakeKeepsCount ==
  ASSUME TypeOK, CountedOnce, NEW c \in Consumers, Ensure(c)
  PROVE  CountedOnce'
<1>1. PICK s \in Symbols : s = consumer[c].sym
  BY DEF TypeOK, Consumer
<1>2. \A d \in Consumers : /\ consumer'[d].sym = consumer[d].sym
                           /\ d # c => consumer'[d].pc = consumer[d].pc
  BY DEF Ensure, Goto, TypeOK
<1>3. consumer[c].pc = "joined" /\ consumer'[c].pc = "idle"
  BY DEF Ensure, Goto, TypeOK
<1>4. c \notin Holders(s) /\ Holders(s)' = Holders(s) \cup {c}
  BY <1>1, <1>2, <1>3 DEF Holders
<1>5. \A r \in Symbols \ {s} : Holders(r)' = Holders(r)
  BY <1>1, <1>2, <1>3 DEF Holders
<1>6. EnsureSubscription(s, TRUE)
  BY <1>1 DEF Ensure
<1>7. /\ active'[s].refcount = IF Exists(s) THEN active[s].refcount + 1 ELSE 1
      /\ active'[s].mode = "connecting"
      /\ \A r \in Symbols \ {s} : active'[r] = active[r]
  BY <1>6, EnsureEffect
<1>8. active'[s].refcount = Cardinality(Holders(s)')
  BY <1>4, <1>7, HoldersGrow DEF CountedOnce, Exists
<1>. QED
  BY <1>5, <1>7, <1>8 DEF CountedOnce

LEMMA GiveKeepsCount ==
  ASSUME TypeOK, CountedOnce, NEW c \in Consumers, consumer[c].pc \in {"idle", "left"},
         RemoveSubscription(consumer[c].sym), consumer'[c].pc \notin {"idle", "left"},
         \A d \in Consumers \ {c} : consumer'[d] = consumer[d]
  PROVE  CountedOnce'
<1>1. PICK s \in Symbols : s = consumer[c].sym
  BY DEF TypeOK, Consumer
<1>2. c \in Holders(s) /\ Holders(s)' = Holders(s) \ {c}
  BY <1>1 DEF Holders
<1>3. \A r \in Symbols \ {s} : Holders(r)' = Holders(r)
  BY <1>1 DEF Holders
<1>4. RemoveSubscription(s)
  BY <1>1
<1>5. /\ Cardinality(Holders(s)') = Cardinality(Holders(s)) - 1
      /\ Cardinality(Holders(s)) \in Nat /\ Cardinality(Holders(s)) > 0
  BY <1>2, HoldersShrink
<1>6. active[s].refcount = Cardinality(Holders(s)) /\ (active[s].mode = "none" => active[s].refcount = 0)
  BY DEF CountedOnce
<1>7. active'[s].refcount = Cardinality(Holders(s)') /\ (active'[s].mode = "none" => active'[s].refcount = 0)
  BY <1>4, <1>5, <1>6, RemoveEffect
<1>. QED
  BY <1>3, <1>4, <1>7, RemoveEffect DEF CountedOnce

\* Connections that come, go and switch.
JustConnections == Scope \cap {"unsubscribe", "rest", "layer"} = {}

LEMMA ConsumerKeepsCount ==
  ASSUME JustConnections, TypeOK, CountedOnce, NEW c \in Consumers, HandlerStep(c) \/ Message(c)
  PROVE  CountedOnce'
<1>. consumer \in [Consumers -> Consumer] /\ consumer[c].sym \in Symbols
  BY DEF TypeOK, Consumer
<1>1. ASSUME UNCHANGED active, \A d \in Consumers \ {c} : consumer'[d] = consumer[d],
             \/ consumer[c].pc \notin {"idle", "left"} /\ consumer'[c].pc \notin {"idle", "left"}
             \/ /\ consumer[c].pc \in {"idle", "left"} /\ consumer'[c].pc \in {"idle", "left"}
                /\ consumer'[c].sym = consumer[c].sym
      PROVE  CountedOnce'
  <2>1. \A s \in Symbols : Holders(s)' = Holders(s)
    BY <1>1 DEF Holders
  <2>. QED
    BY <1>1, <2>1 DEF CountedOnce
<1>2. ASSUME NEW s \in Symbols, Connect(c, s) \/ SwitchJoin(c, s) PROVE CountedOnce'
  <2>1. /\ consumer[c].pc \in {"out", "joining"} /\ consumer'[c].pc = "joined"
        /\ \A d \in Consumers \ {c} : consumer'[d] = consumer[d]
    <3>1. CASE Connect(c, s)
      BY <3>1 DEF Connect
    <3>2. CASE SwitchJoin(c, s)
      BY <3>2 DEF SwitchJoin
    <3>. QED
      BY <1>2, <3>1, <3>2
  <2>. QED
    BY <1>1, <1>2, <2>1 DEF Connect, SwitchJoin
<1>3. CASE Disconnect(c) \/ SwitchLeave(c)
  <2>1. /\ \A d \in Consumers \ {c} : consumer'[d] = consumer[d]
        /\ consumer'[c].sym = consumer[c].sym
        /\ \/ consumer[c].pc = "idle" /\ consumer'[c].pc = "left"
           \/ consumer[c].pc = "switching" /\ consumer'[c].pc = "joining"
    <3>1. CASE Disconnect(c)
      BY <3>1 DEF Disconnect, Goto
    <3>2. CASE SwitchLeave(c)
      BY <3>2 DEF SwitchLeave, Goto
    <3>. QED
      BY <1>3, <3>1, <3>2
  <2>. QED
    BY <1>1, <1>3, <2>1 DEF Disconnect, SwitchLeave
<1>4. CASE Disconnected(c)
  <2>1. consumer'[c].pc = "out" /\ \A d \in Consumers \ {c} : consumer'[d] = consumer[d]
    BY <1>4 DEF Disconnected, NoConsumer
  <2>. QED
    BY <1>4, <2>1, GiveKeepsCount DEF Disconnected
<1>5. CASE Switch(c)
  <2>1. consumer'[c].pc = "switching" /\ \A d \in Consumers \ {c} : consumer'[d] = consumer[d]
    BY <1>5 DEF Switch
  <2>. QED
    BY <1>5, <2>1, GiveKeepsCount DEF Switch
<1>6. ~ Unsubscribe(c) /\ ~ SubscribeSame(c) /\ ~ DisconnectFails(c)
  BY DEF JustConnections, Unsubscribe, SubscribeSame, DisconnectFails
<1>. QED
  BY <1>2, <1>3, <1>4, <1>5, <1>6, TakeKeepsCount DEF HandlerStep, Message

LEMMA TickerKeepsCount ==
  ASSUME TypeOK, CountedOnce, NEW t \in Tickers, TickerStep(t)
  PROVE  CountedOnce'
<1>. active \in [Symbols -> Entry] /\ consumer \in [Consumers -> Consumer] /\ ticker[t].sym \in Symbols
  BY DEF TypeOK, Ticker
<1>0. ASSUME NEW s, NEW what, Hear(s, what) \/ UNCHANGED consumer
      PROVE  \A c \in Consumers : consumer'[c].pc = consumer[c].pc /\ consumer'[c].sym = consumer[c].sym
  BY <1>0 DEF Hear, Consumer
<1>1. \A c \in Consumers : consumer'[c].pc = consumer[c].pc /\ consumer'[c].sym = consumer[c].sym
  BY <1>0 DEF TickerStep, Subscribed, ConnectionLost, Reconnect, LoopEnds, Become, Publish,
              MarkUnavailable, SendUnavailable
<1>2. \A s \in Symbols : Holders(s)' = Holders(s)
  BY <1>1 DEF Holders
<1>3. \A s \in Symbols : /\ active'[s].refcount = active[s].refcount
                         /\ active'[s].mode = "none" => active[s].mode = "none"
  <2>1. CASE active' = [active EXCEPT ![ticker[t].sym].mode = "unavailable"]
    BY <2>1 DEF Entry
  <2>. QED
    BY <2>1, TickerEffect
<1>. QED
  BY <1>2, <1>3 DEF CountedOnce

\* Of connections that come, go and switch, in any number and with any
\* interleaving of their awaits, a subscription counts exactly those that hold
\* it. (consumers.connect, disconnect, receive; ensure_subscription)
THEOREM RefcountStaysExact ==
  ASSUME JustConnections
  PROVE  Spec => []RefcountExact
<1>1. Init => CountedOnce
  <2>. SUFFICES ASSUME Init, NEW s \in Symbols PROVE active[s].refcount = Cardinality(Holders(s)) /\ active[s].refcount = 0
    BY DEF CountedOnce
  <2>1. Holders(s) = {} /\ active[s].refcount = 0
    BY DEF Init, NoConsumer, NoEntry, Holders
  <2>. QED
    BY <2>1, FS_EmptySet
<1>2. TypeOK /\ CountedOnce /\ [Next]_vars => CountedOnce'
  <2>. SUFFICES ASSUME TypeOK, CountedOnce, [Next]_vars PROVE CountedOnce'
    OBVIOUS
  <2>1. CASE UNCHANGED vars
    BY <2>1 DEF vars, CountedOnce, Holders
  <2>2. ASSUME NEW s \in Symbols PROVE ~ RestSubscribe(s) /\ ~ RestUnsubscribe(s)
    BY DEF JustConnections, RestSubscribe, RestUnsubscribe
  <2>. QED
    BY <2>1, <2>2, ConsumerKeepsCount, TickerKeepsCount DEF Next
<1>3. CountedOnce => RefcountExact
  BY DEF CountedOnce, RefcountExact
<1>. QED
  BY <1>1, <1>2, <1>3, TypeCorrect, PTL DEF Spec

\* A connection is in the group of its symbol from the time it joins until it
\* leaves, and in no other.
Waits(c) == consumer[c].pc \in {"joined", "idle", "switching"}

MembersExact ==
  \A s \in Symbols, c \in Consumers : c \in group[s] <=> Waits(c) /\ consumer[c].sym = s

\* A thread that is about to tell the group of s that prices are unavailable.
Tells(t, s) == ticker[t].sym = s /\ ticker[t].pc = "report"

\* A connection whose symbol is unavailable knows it, or is about to be told.
Knows(c, s) ==
  /\ Exists(s)
  /\ active[s].mode = "unavailable" => consumer[c].heard = "unavailable" \/ \E t \in Tickers : Tells(t, s)

Told ==
  \A c \in Consumers, s \in Symbols :
    consumer[c].pc = "idle" /\ consumer[c].sym = s /\ ~ active[s].gone => Knows(c, s)

NoneQuiet == \A t \in Tickers : ~ ticker[t].quiet

InformedInv == MembersExact /\ Told /\ NoneQuiet

\* The channel layer delivers, and there are threads enough.
Delivering == Scope \cap {"layer", "exhausted"} = {}

\* Who is in which group changes with the connection alone.
LEMMA HandlerKeepsMembers ==
  ASSUME TypeOK, MembersExact, NEW c \in Consumers, HandlerStep(c) \/ Message(c)
  PROVE  MembersExact'
<1>. consumer \in [Consumers -> Consumer] /\ consumer[c] \in Consumer /\ group \in [Symbols -> SUBSET Consumers]
  BY DEF TypeOK
<1>1. ASSUME \A d \in Consumers \ {c} : consumer'[d] = consumer[d],
             \A s \in Symbols, d \in Consumers \ {c} : d \in group'[s] <=> d \in group[s],
             \A s \in Symbols : c \in group'[s] <=> (Waits(c) /\ consumer[c].sym = s)'
      PROVE  MembersExact'
  BY <1>1 DEF MembersExact, Waits
<1>2. ASSUME UNCHANGED group, \A d \in Consumers \ {c} : consumer'[d] = consumer[d],
             consumer'[c].sym = consumer[c].sym, Waits(c)' = Waits(c)
      PROVE  MembersExact'
  BY <1>1, <1>2 DEF MembersExact
<1>3. ASSUME Leave(c), \A d \in Consumers \ {c} : consumer'[d] = consumer[d], ~ Waits(c)'
      PROVE  MembersExact'
  <2>1. \A s \in Symbols : c \notin group'[s]
    BY <1>3 DEF Leave, MembersExact
  <2>2. \A s \in Symbols, d \in Consumers \ {c} : d \in group'[s] <=> d \in group[s]
    BY <1>3 DEF Leave
  <2>. QED
    BY <1>1, <1>3, <2>1, <2>2
<1>4. ASSUME NEW s \in Symbols, Join(c, s), \A d \in Consumers \ {c} : consumer'[d] = consumer[d],
             ~ Waits(c), Waits(c)', consumer'[c].sym = s
      PROVE  MembersExact'
  <2>1. \A r \in Symbols : c \in group'[r] <=> r = s
    BY <1>4 DEF Join, MembersExact
  <2>2. \A r \in Symbols, d \in Consumers \ {c} : d \in group'[r] <=> d \in group[r]
    BY <1>4 DEF Join
  <2>. QED
    BY <1>1, <1>4, <2>1, <2>2
<1>5. ASSUME NEW s \in Symbols, Connect(c, s) PROVE MembersExact'
  BY <1>4, <1>5 DEF Connect, Waits
<1>6. ASSUME NEW s \in Symbols, SwitchJoin(c, s) PROVE MembersExact'
  BY <1>4, <1>6 DEF SwitchJoin, Waits
<1>7. CASE Ensure(c)
  BY <1>2, <1>7 DEF Ensure, Goto, Waits
<1>8. CASE Disconnect(c)
  BY <1>3, <1>8 DEF Disconnect, Goto, Waits
<1>9. CASE DisconnectFails(c)
  BY <1>3, <1>9 DEF DisconnectFails, NoConsumer, Waits
<1>10. CASE SwitchLeave(c)
  BY <1>3, <1>10 DEF SwitchLeave, Goto, Waits
<1>11. CASE Disconnected(c)
  <2>1. ~ Waits(c) /\ ~ Waits(c)' /\ \A s \in Symbols : c \notin group[s]
    BY <1>11 DEF Disconnected, NoConsumer, Waits, MembersExact
  <2>2. UNCHANGED group /\ \A d \in Consumers \ {c} : consumer'[d] = consumer[d]
    BY <1>11 DEF Disconnected
  <2>. QED
    BY <1>1, <2>1, <2>2
<1>12. CASE Unsubscribe(c)
  BY <1>2, <1>12 DEF Unsubscribe, Waits
<1>13. CASE SubscribeSame(c)
  BY <1>2, <1>13 DEF SubscribeSame, Waits
<1>14. CASE Switch(c)
  BY <1>2, <1>14 DEF Switch, Waits
<1>. QED
  BY <1>5, <1>6, <1>7, <1>8, <1>9, <1>10, <1>11, <1>12, <1>13, <1>14 DEF HandlerStep, Message

\* The steps of a thread change what connections hear, and only that.
LEMMA TickerHears ==
  ASSUME TypeOK, NEW t \in Tickers, TickerStep(t)
  PROVE  /\ UNCHANGED group
         /\ \A c \in Consumers : consumer'[c].pc = consumer[c].pc /\ consumer'[c].sym = consumer[c].sym
<1>1. ASSUME NEW s, NEW what, Hear(s, what) \/ UNCHANGED consumer
      PROVE  \A c \in Consumers : consumer'[c].pc = consumer[c].pc /\ consumer'[c].sym = consumer[c].sym
  BY <1>1 DEF Hear, Consumer, TypeOK
<1>. QED
  BY <1>1 DEF TickerStep, Subscribed, ConnectionLost, Reconnect, LoopEnds, Become, Publish,
              MarkUnavailable, SendUnavailable

\* What is kept of a connection that knows.
LEMMA KnowsKept ==
  ASSUME NEW c, NEW s, Knows(c, s), active'[s].mode = active[s].mode,
         consumer[c].heard = "unavailable" => consumer'[c].heard = "unavailable",
         \A t \in Tickers : Tells(t, s) => Tells(t, s)'
  PROVE  Knows(c, s)'
  BY DEF Knows, Exists

LEMMA EnsureKeepsTold ==
  ASSUME TypeOK, Told, NEW s \in Symbols, NEW coro \in BOOLEAN, EnsureSubscription(s, coro),
         NEW c \in Consumers, NEW r \in Symbols, consumer'[c].sym = r, ~ active'[r].gone,
         r = s \/ (consumer[c].pc = "idle" /\ consumer[c].sym = r),
         consumer'[c].heard = consumer[c].heard
  PROVE  Knows(c, r)'
<1>1. CASE r = s
  BY <1>1, EnsureEffect DEF Knows, Exists
<1>2. CASE r # s
  <2>1. active'[r] = active[r] /\ Knows(c, r)
    BY <1>2, EnsureEffect DEF Told
  <2>2. \A t \in Tickers : Tells(t, r) => Tells(t, r)'
    BY EnsureEffect DEF Tells
  <2>. QED
    BY <2>1, <2>2, KnowsKept
<1>. QED
  BY <1>1, <1>2

LEMMA RemoveKeepsTold ==
  ASSUME TypeOK, Told, NEW s \in Symbols, RemoveSubscription(s), UNCHANGED ticker,
         NEW c \in Consumers, NEW r \in Symbols, consumer[c].pc = "idle", consumer[c].sym = r,
         consumer'[c].heard = consumer[c].heard, ~ active'[r].gone
  PROVE  Knows(c, r)'
<1>1. ~ active[r].gone /\ Knows(c, r) /\ Exists(r)
  BY RemoveEffect DEF Told, Knows
<1>2. active'[r].mode = active[r].mode
  BY <1>1, RemoveEffect
<1>. QED
  BY <1>1, <1>2, KnowsKept DEF Tells

LEMMA HandlerKeepsTold ==
  ASSUME TypeOK, Told, NEW c \in Consumers, HandlerStep(c) \/ Message(c)
  PROVE  Told'
<1>. consumer \in [Consumers -> Consumer] /\ consumer[c].sym \in Symbols
  BY DEF TypeOK, Consumer
<1>. SUFFICES ASSUME NEW d \in Consumers, NEW r \in Symbols,
                     consumer'[d].pc = "idle", consumer'[d].sym = r, ~ active'[r].gone
              PROVE  Knows(d, r)'
  BY DEF Told
<1>1. \A e \in Consumers \ {c} : consumer'[e] = consumer[e]
  BY DEF HandlerStep, Message, Ensure, Disconnected, SwitchLeave, SwitchJoin, Connect, Disconnect,
         DisconnectFails, Unsubscribe, SubscribeSame, Switch, Goto
<1>2. CASE Ensure(c)
  <2>1. consumer'[c].heard = consumer[c].heard /\ consumer'[c].sym = consumer[c].sym
    BY <1>2 DEF Ensure, Goto
  <2>2. EnsureSubscription(consumer[c].sym, TRUE)
    BY <1>2 DEF Ensure
  <2>. QED
    BY <1>1, <2>1, <2>2, EnsureKeepsTold
<1>3. CASE ~ Ensure(c)
  <2>1. d = c => /\ consumer[c].pc = "idle" /\ consumer'[c].sym = consumer[c].sym
                 /\ consumer'[c].heard = consumer[c].heard
                 /\ Unsubscribe(c) \/ SubscribeSame(c)
    <3>. SUFFICES ASSUME d = c
                  PROVE  /\ consumer[c].pc = "idle" /\ consumer'[c].sym = consumer[c].sym
                         /\ consumer'[c].heard = consumer[c].heard
                         /\ Unsubscribe(c) \/ SubscribeSame(c)
      OBVIOUS
    <3>1. consumer'[c].pc = "idle"
      OBVIOUS
    <3>2. /\ \A s \in Symbols : ~ SwitchJoin(c, s)
          /\ \A s \in Symbols : ~ Connect(c, s)
          /\ ~ Disconnected(c) /\ ~ SwitchLeave(c)
          /\ ~ Disconnect(c) /\ ~ DisconnectFails(c) /\ ~ Switch(c)
      <4>1. ASSUME NEW s \in Symbols, SwitchJoin(c, s) PROVE consumer'[c].pc = "joined"
        BY <4>1 DEF SwitchJoin, Consumer
      <4>2. ASSUME NEW s \in Symbols, Connect(c, s) PROVE consumer'[c].pc = "joined"
        BY <4>2 DEF Connect
      <4>3. ASSUME Disconnected(c) \/ DisconnectFails(c) PROVE consumer'[c].pc = "out"
        BY <4>3 DEF Disconnected, DisconnectFails, NoConsumer
      <4>4. ASSUME SwitchLeave(c) PROVE consumer'[c].pc = "joining"
        BY <4>4 DEF SwitchLeave, Goto
      <4>5. ASSUME Disconnect(c) PROVE consumer'[c].pc = "left"
        BY <4>5 DEF Disconnect, Goto
      <4>6. ASSUME Switch(c) PROVE consumer'[c].pc = "switching"
        BY <4>6 DEF Switch, Consumer
      <4>. QED
        BY <3>1, <4>1, <4>2, <4>3, <4>4, <4>5, <4>6
    <3>3. CASE Unsubscribe(c)
      BY <3>3 DEF Unsubscribe
    <3>4. CASE SubscribeSame(c)
      BY <3>4 DEF SubscribeSame
    <3>. QED
      BY <1>3, <3>1, <3>2, <3>3, <3>4 DEF HandlerStep, Message
  <2>2. consumer[d].pc = "idle" /\ consumer[d].sym = r /\ consumer'[d].heard = consumer[d].heard
    BY <1>1, <2>1
  <2>3. CASE UNCHANGED <<active, ticker>>
    <3>1. Knows(d, r)
      BY <2>2, <2>3 DEF Told
    <3>. QED
      BY <2>2, <2>3, <3>1, KnowsKept DEF Tells
  <2>4. CASE RemoveSubscription(consumer[c].sym) /\ UNCHANGED ticker
    BY <2>2, <2>4, RemoveKeepsTold
  <2>. QED
    BY <1>3, <2>3, <2>4 DEF HandlerStep, Message, Disconnected, SwitchLeave, SwitchJoin, Connect,
         Disconnect, DisconnectFails, Unsubscribe, SubscribeSame, Switch
<1>. QED
  BY <1>2, <1>3

LEMMA TickerKeepsTold ==
  ASSUME Delivering, TypeOK, OneWorking, InformedInv, NEW t \in Tickers, TickerStep(t)
  PROVE  Told'
<1>. consumer \in [Consumers -> Consumer] /\ ticker \in [Tickers -> Ticker] /\ ticker[t].sym \in Symbols
  BY DEF TypeOK, Ticker
<1>. active \in [Symbols -> Entry] /\ group \in [Symbols -> SUBSET Consumers]
  BY DEF TypeOK
<1>. SUFFICES ASSUME NEW c \in Consumers, NEW s \in Symbols,
                     consumer'[c].pc = "idle", consumer'[c].sym = s, ~ active'[s].gone
              PROVE  Knows(c, s)'
  BY DEF Told
<1>1. consumer[c].pc = "idle" /\ consumer[c].sym = s
  BY TickerHears
<1>2. c \in group[s] /\ \A r \in Symbols \ {s} : c \notin group[r]
  BY <1>1 DEF InformedInv, MembersExact, Waits
<1>3. /\ ~ active[s].gone
      /\ \/ active'[s] = active[s]
         \/ s = ticker[t].sym /\ ticker'[t].pc = "report" /\ ticker'[t].sym = s /\ Exists(s)'
  <2>1. CASE active' = [active EXCEPT ![ticker[t].sym].mode = "unavailable"] /\ ticker'[t].pc = "report"
                /\ ticker'[t].sym = ticker[t].sym
    <3>1. active'[s].gone = active[s].gone
      BY <2>1 DEF Entry
    <3>2. s = ticker[t].sym => active'[s].mode = "unavailable"
      BY <2>1
    <3>. QED
      BY <2>1, <3>1, <3>2 DEF Exists
  <2>. QED
    BY <2>1, TickerEffect
<1>4. Knows(c, s)
  BY <1>1, <1>3 DEF InformedInv, Told
<1>5. CASE active'[s] # active[s]
  BY <1>3, <1>5 DEF Knows, Tells
<1>6. CASE active'[s] = active[s] /\ Publish(t)
  <2>1. CASE s = ticker[t].sym
    <3>1. Works(t, s)
      BY <1>6, <2>1 DEF Publish, Works, Running
    <3>2. active[s].mode = "connecting"
      BY <1>3, <3>1 DEF OneWorking
    <3>. QED
      BY <1>6, <3>2 DEF Knows, Exists
  <2>2. CASE s # ticker[t].sym
    <3>1. consumer'[c] = consumer[c] /\ UNCHANGED ticker
      BY <1>2, <1>6, <2>2 DEF Publish, Hear
    <3>. QED
      BY <1>4, <1>6, <3>1, KnowsKept DEF Tells
  <2>. QED
    BY <2>1, <2>2
<1>7. CASE active'[s] = active[s] /\ SendUnavailable(t)
  <2>1. Hear(ticker[t].sym, "unavailable")
    BY <1>7 DEF SendUnavailable, InformedInv, NoneQuiet, Delivering
  <2>2. CASE s = ticker[t].sym
    <3>1. consumer'[c].heard = "unavailable"
      BY <1>2, <2>1, <2>2 DEF Hear, Consumer
    <3>. QED
      BY <1>4, <1>7, <3>1 DEF Knows, Exists
  <2>3. CASE s # ticker[t].sym
    <3>1. consumer'[c] = consumer[c]
      BY <1>2, <2>1, <2>3 DEF Hear
    <3>2. \A u \in Tickers : Tells(u, s) => Tells(u, s)'
      BY <2>3, TickerEffect DEF Tells
    <3>. QED
      BY <1>4, <1>7, <3>1, <3>2, KnowsKept
  <2>. QED
    BY <2>2, <2>3
<1>8. CASE /\ active'[s] = active[s]
           /\ ~ Publish(t) /\ ~ SendUnavailable(t)
  <2>1. UNCHANGED consumer /\ ticker[t].pc # "report"
    BY <1>8 DEF TickerStep, Subscribed, ConnectionLost, Reconnect, LoopEnds, Become, MarkUnavailable
  <2>2. \A u \in Tickers : Tells(u, s) => Tells(u, s)'
    BY <2>1, TickerEffect DEF Tells
  <2>. QED
    BY <1>4, <1>8, <2>1, <2>2, KnowsKept
<1>. QED
  BY <1>5, <1>6, <1>7, <1>8

LEMMA InformedStep ==
  ASSUME Delivering, TypeOK, OneWorking, InformedInv, [Next]_vars
  PROVE  InformedInv'
<1>1. CASE UNCHANGED vars
  BY <1>1 DEF vars, InformedInv, MembersExact, Waits, Told, Knows, Exists, Tells, NoneQuiet
<1>2. ASSUME NEW t \in Tickers, TickerStep(t) PROVE InformedInv'
  <2>1. MembersExact'
    BY <1>2, TickerHears DEF InformedInv, MembersExact, Waits
  <2>2. NoneQuiet'
    BY <1>2, TickerEffect DEF InformedInv, NoneQuiet
  <2>. QED
    BY <1>2, <2>1, <2>2, TickerKeepsTold DEF InformedInv
<1>3. ASSUME NEW s \in Symbols, NEW coro \in BOOLEAN, EnsureSubscription(s, coro) PROVE NoneQuiet'
  BY <1>3, EnsureEffect DEF InformedInv, NoneQuiet, Delivering
<1>4. ASSUME NEW c \in Consumers, HandlerStep(c) \/ Message(c) PROVE InformedInv'
  <2>1. NoneQuiet'
    BY <1>3, <1>4, ConsumerEffect DEF InformedInv, NoneQuiet
  <2>. QED
    BY <1>4, <2>1, HandlerKeepsMembers, HandlerKeepsTold DEF InformedInv
<1>5. ASSUME NEW s \in Symbols, RestSubscribe(s) \/ RestUnsubscribe(s) PROVE InformedInv'
  <2>1. NoneQuiet'
    BY <1>3, <1>5 DEF RestSubscribe, RestUnsubscribe, InformedInv, NoneQuiet
  <2>2. MembersExact'
    BY <1>5 DEF RestSubscribe, RestUnsubscribe, InformedInv, MembersExact, Waits
  <2>3. Told'
    <3>. SUFFICES ASSUME NEW c \in Consumers, NEW r \in Symbols,
                         consumer'[c].pc = "idle", consumer'[c].sym = r, ~ active'[r].gone
                  PROVE  Knows(c, r)'
      BY DEF Told
    <3>1. UNCHANGED consumer
      BY <1>5 DEF RestSubscribe, RestUnsubscribe
    <3>2. CASE RestSubscribe(s)
      BY <3>1, <3>2, EnsureKeepsTold DEF RestSubscribe, InformedInv
    <3>3. CASE RestUnsubscribe(s)
      BY <3>1, <3>3, RemoveKeepsTold DEF RestUnsubscribe, InformedInv
    <3>. QED
      BY <1>5, <3>2, <3>3
  <2>. QED
    BY <2>1, <2>2, <2>3 DEF InformedInv
<1>. QED
  BY <1>1, <1>2, <1>4, <1>5 DEF Next

\* While the channel layer delivers and threads can be started, a connection that
\* asked for a symbol is never left in the dark: until the last subscriber has
\* left, a thread works for it or is about to report, or it was last told that
\* prices are unavailable. (_mark_unavailable, _send_unavailable)
THEOREM ConnectionsStayInformed ==
  ASSUME Delivering
  PROVE  Spec => []Informed
<1>1. Init => InformedInv
  BY DEF Init, InformedInv, MembersExact, Waits, Told, NoneQuiet, NoConsumer, NoTicker
<1>2. TypeOK /\ OneWorking /\ InformedInv /\ [Next]_vars => InformedInv'
  BY InformedStep
<1>3. TypeOK /\ InformedInv /\ ConnectingHasTicker => Informed
  <2>. SUFFICES ASSUME TypeOK, InformedInv, ConnectingHasTicker,
                       NEW c \in Consumers, NEW s \in Symbols, s = consumer[c].sym,
                       consumer[c].pc = "idle", ~ active[s].gone
                PROVE  \/ consumer[c].heard = "unavailable"
                       \/ \E t \in Tickers : SpeaksFor(t, s) \/ Tells(t, s)
    BY DEF Informed, TypeOK, Consumer, Tells
  <2>1. Knows(c, s)
    BY DEF InformedInv, Told
  <2>2. active[s].mode \in {"connecting", "unavailable"}
    BY <2>1 DEF Knows, Exists, TypeOK, Entry
  <2>. QED
    BY <2>1, <2>2 DEF Knows, ConnectingHasTicker
<1>. QED
  BY <1>1, <1>2, <1>3, TypeCorrect, OneWorkingAlways, ConnectingAlwaysHasTicker, PTL DEF Spec
=============================================================================
