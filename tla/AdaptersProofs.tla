--------------------------- MODULE AdaptersProofs ---------------------------
(***************************************************************************)
(* Theorems on the client of Deriv, for any number of callers, symbols and *)
(* requests, and for whatever times and prices its ticks have; and on the  *)
(* account of the paper broker, for any candles, requests and rules.       *)
(***************************************************************************)
EXTENDS DerivAdapter, PaperTrading, FiniteSetTheorems, TLAPS

-----------------------------------------------------------------------------
(* Calls                                                                   *)

\* Calls without a number of their own, and calls with one.
Unnumbered == [pc : {"queued", "answered", "failed"}, kind : Kinds, symbol : Symbols, id : {0}, got : Owners]
Numbered   == [pc : {"sending", "waiting"}, kind : Kinds, symbol : Symbols, id : 0..MaxRequests, got : Owners]

LEMMA CallTypes ==
  ASSUME TypeOK, NEW c \in Callers
  PROVE  /\ call[c] = NoCall \/ call[c] \in Unnumbered \/ call[c] \in Numbered
         /\ call[c].pc \in {"queued", "answered", "failed"} => call[c] \in Unnumbered
         /\ call[c].pc \in {"sending", "waiting"} => call[c] \in Numbered
<1>1. call[c] = NoCall \/ call[c] \in Unnumbered \/ call[c] \in Numbered
  BY DEF TypeOK, Call, Unnumbered, Numbered
<1>2. call[c] = NoCall => call[c].pc = "idle"
  BY DEF NoCall
<1>3. call[c] \in Unnumbered => call[c].pc \in {"queued", "answered", "failed"}
  BY DEF Unnumbered
<1>4. call[c] \in Numbered => call[c].pc \in {"sending", "waiting"}
  BY DEF Numbered
<1>. QED
  BY <1>1, <1>2, <1>3, <1>4

LEMMA TypesOfCalls == Unnumbered \subseteq Call /\ Numbered \subseteq Call
BY DEF Call, Unnumbered, Numbered

\* The call of c becomes new, and no other changes.
Becomes(c, new) == call' = [call EXCEPT ![c] = new]

LEMMA BecomesType ==
  ASSUME TypeOK, NEW c \in Callers, NEW new, Becomes(c, new),
         new = NoCall \/ new \in Unnumbered \/ new \in Numbered
  PROVE  /\ call' \in [Callers -> Call \cup {NoCall}]
         /\ call'[c] = new /\ \A d \in Callers \ {c} : call'[d] = call[d]
<1>1. new \in Call \cup {NoCall}
  BY TypesOfCalls
<1>. QED
  BY <1>1 DEF TypeOK, Becomes

-----------------------------------------------------------------------------
(* The inductive invariant                                                 *)

\* Numbers are taken in order.
NumbersTaken ==
  /\ \A p \in pending : p.id < nextReq
  /\ \A m \in sent : m.id < nextReq
  /\ \A c \in Callers : call[c].pc = "sending" => call[c].id < nextReq

\* A number that is on the wire, or about to be sent, belongs to the future that is
\* filed under it, whoever has given up since.
NumbersOwned ==
  /\ \A m \in sent, p \in pending : m.id = p.id => m.by = p.by
  /\ \A c \in Callers, p \in pending : call[c].pc = "sending" /\ call[c].id = p.id => p.by = c

\* What subscribers were told is not newer than the last tick that counts.
ToldIsPast == \A s \in Symbols : told[s].epoch <= last[s].epoch

AdapterInv == TypeOK /\ NumbersTaken /\ NumbersOwned /\ AnswerMatches /\ ToldIsPast

(* Nothing is sent, and calls only begin or end.                           *)
LEMMA QuietStep ==
  ASSUME AdapterInv, TypeOK', UNCHANGED <<nextReq, pending, tickVars>>, sent' \subseteq sent,
         \A c \in Callers : call'[c] = call[c] \/ call'[c].pc \in {"idle", "queued", "failed"}
  PROVE  AdapterInv'
<1>1. NumbersTaken' /\ NumbersOwned'
  BY DEF AdapterInv, NumbersTaken, NumbersOwned
<1>2. AnswerMatches'
  BY DEF AdapterInv, AnswerMatches
<1>3. ToldIsPast'
  BY DEF AdapterInv, ToldIsPast, tickVars
<1>. QED
  BY <1>1, <1>2, <1>3 DEF AdapterInv

(* The connection: made, lost, closed.                                     *)
LEMMA ConnectionStep ==
  ASSUME AdapterInv,
         \/ Connect \/ Disconnect \/ DialOk \/ DialFails \/ Wake \/ Close \/ Lose
         \/ \E ok \in BOOLEAN : ReadEnd(ok)
  PROVE  AdapterInv'
<1>. TypeOK
  BY DEF AdapterInv
<1>1. UNCHANGED <<nextReq, pending, call, subs, tickVars>> /\ sent' \subseteq sent
  BY DEF Connect, Disconnect, DialOk, DialFails, Wake, Close, Lose, ReadEnd, Dropped, reqVars, subVars
<1>2. closing' \in BOOLEAN /\ stop' \in {"no", "early", "reading"} /\ ws' \in {"none", "open", "closed"}
  <2>1. CASE Connect \/ Disconnect
    <3>1. closing' \in BOOLEAN
      BY <2>1 DEF Connect, Disconnect, TypeOK
    <3>. QED
      BY <2>1, <3>1 DEF Connect, Disconnect, TypeOK
  <2>2. CASE DialOk \/ DialFails \/ Wake \/ \E ok \in BOOLEAN : ReadEnd(ok)
    BY <2>2 DEF DialOk, DialFails, Wake, ReadEnd, TypeOK
  <2>3. CASE Close \/ Lose
    BY <2>3 DEF Close, Lose, Dropped, TypeOK
  <2>. QED
    BY <2>1, <2>2, <2>3
<1>3. connected' \in BOOLEAN
  BY DEF Connect, Disconnect, DialOk, DialFails, Wake, Close, Lose, ReadEnd, Leave, TypeOK
<1>4. loop' \in {"none", "dialing", "restoring", "stuck", "reading", "backoff", "ended"}
  BY DEF Connect, Disconnect, DialOk, DialFails, Wake, Close, Lose, ReadEnd, Leave, TypeOK
<1>5. restore' \in SUBSET Symbols
  BY DEF Connect, Disconnect, DialOk, DialFails, Wake, Close, Lose, ReadEnd, TypeOK
<1>6. subId' \in [Symbols -> {"none", "valid", "stale"}] /\ streams' \in SUBSET Symbols
  BY DEF Connect, Disconnect, DialOk, DialFails, Wake, Close, Lose, ReadEnd, Dropped, subVars, TypeOK
<1>7. TypeOK'
  BY <1>1, <1>2, <1>3, <1>4, <1>5, <1>6 DEF TypeOK, tickVars
<1>. QED
  BY <1>1, <1>7, QuietStep

(* A future is filed under a new number.                                   *)
LEMMA EnlistStep ==
  ASSUME AdapterInv, NEW by \in Owners, Enlist(by), nextReq' = nextReq + 1
  PROVE  /\ nextReq' \in 0..MaxRequests /\ nextReq \in 0..MaxRequests
         /\ pending' \in SUBSET Future
         /\ \A p \in pending' : p.id < nextReq' /\ (p.id = nextReq => p.by = by)
         /\ \A p \in pending' : p.id # nextReq => p \in pending
<1>1. nextReq \in 0..MaxRequests /\ pending \in SUBSET Future /\ MaxRequests \in Nat
  BY DerivAssumption DEF AdapterInv, TypeOK
<1>2. [id |-> nextReq, by |-> by] \in Future
  BY <1>1 DEF Future
<1>3. \A p \in pending : p.id \in 0..MaxRequests /\ p.id < nextReq
  BY <1>1 DEF AdapterInv, NumbersTaken, Future
<1>. QED
  BY <1>1, <1>2, <1>3 DEF Enlist

LEMMA RestoreStep ==
  ASSUME AdapterInv, NEW s \in Symbols, RestoreNext(s)
  PROVE  AdapterInv'
<1>. TypeOK
  BY DEF AdapterInv
<1>. DEFINE m == [id |-> nextReq, by |-> Restorer, kind |-> "subscribe", symbol |-> s]
<1>1. /\ nextReq' \in 0..MaxRequests /\ nextReq \in 0..MaxRequests
      /\ pending' \in SUBSET Future
      /\ \A p \in pending' : p.id < nextReq' /\ (p.id = nextReq => p.by = Restorer)
      /\ \A p \in pending' : p.id # nextReq => p \in pending
  BY EnlistStep DEF RestoreNext, Owners
<1>2. nextReq' = nextReq + 1 /\ UNCHANGED <<stop, ws, closing, connected, call, subVars, tickVars>>
  BY DEF RestoreNext
<1>3. m \in Message /\ m.id = nextReq /\ m.by = Restorer
  BY <1>1 DEF Message, Kinds, Owners
<1>4. sent' \subseteq sent \cup {m}
  BY DEF RestoreNext
<1>. HIDE DEF m
<1>5. TypeOK'
  <2>1. loop' \in {"none", "dialing", "restoring", "stuck", "reading", "backoff", "ended"}
        /\ restore' \in SUBSET Symbols
    BY DEF RestoreNext, TypeOK
  <2>. QED
    BY <1>1, <1>2, <1>3, <1>4, <2>1 DEF TypeOK, subVars, tickVars
<1>6. NumbersTaken'
  <2>1. \A k \in sent : k.id \in 0..MaxRequests /\ k.id < nextReq
    BY DEF AdapterInv, NumbersTaken, TypeOK, Message
  <2>2. \A c \in Callers : call[c].pc = "sending" => call[c].id \in 0..MaxRequests /\ call[c].id < nextReq
    BY CallTypes DEF AdapterInv, NumbersTaken, Numbered
  <2>3. \A k \in sent' : k.id < nextReq'
    BY <1>1, <1>2, <1>3, <1>4, <2>1
  <2>4. \A c \in Callers : call'[c].pc = "sending" => call'[c].id < nextReq'
    BY <1>1, <1>2, <2>2
  <2>. QED
    BY <1>1, <2>3, <2>4 DEF NumbersTaken
<1>7. NumbersOwned'
  <2>1. \A k \in sent : k.id < nextReq
    BY DEF AdapterInv, NumbersTaken
  <2>2. \A c \in Callers : call[c].pc = "sending" => call[c].id < nextReq
    BY DEF AdapterInv, NumbersTaken
  <2>3. ASSUME NEW k \in sent', NEW p \in pending', k.id = p.id PROVE k.by = p.by
    BY <1>1, <1>3, <1>4, <2>1, <2>3 DEF AdapterInv, NumbersOwned
  <2>4. ASSUME NEW c \in Callers, NEW p \in pending', call'[c].pc = "sending", call'[c].id = p.id
        PROVE  p.by = c
    BY <1>1, <1>2, <2>2, <2>4 DEF AdapterInv, NumbersOwned
  <2>. QED
    BY <2>3, <2>4 DEF NumbersOwned
<1>8. AnswerMatches' /\ ToldIsPast'
  BY <1>2 DEF AdapterInv, AnswerMatches, ToldIsPast, tickVars
<1>. QED
  BY <1>5, <1>6, <1>7, <1>8 DEF AdapterInv

(* Calls that begin and end.                                               *)
LEMMA CallStep ==
  ASSUME AdapterInv, NEW c \in Callers,
         \/ \E s \in Symbols : FetchCandles(c, s) \/ GetCandles(c, s) \/ Subscribe(c, s) \/ Unsubscribe(c, s)
         \/ Refuse(c) \/ Timeout(c) \/ Return(c)
  PROVE  AdapterInv'
<1>. TypeOK
  BY DEF AdapterInv
<1>1. UNCHANGED <<wsVars, reqVars, streams, tickVars>>
  BY DEF FetchCandles, GetCandles, Subscribe, Unsubscribe, Refuse, Timeout, Return, subVars
<1>2. ASSUME NEW kind \in Kinds, NEW s \in Symbols, Start(c, kind, s)
      PROVE  \E new \in Unnumbered : new.pc = "queued" /\ Becomes(c, new)
  <2>. DEFINE new == [pc |-> "queued", kind |-> kind, symbol |-> s, id |-> 0, got |-> c]
  <2>1. new \in Unnumbered /\ new.pc = "queued"
    BY DEF Unnumbered, Owners
  <2>2. Becomes(c, new)
    BY <1>2 DEF Start, Becomes
  <2>. HIDE DEF new
  <2>. QED
    BY <2>1, <2>2
<1>3. \/ UNCHANGED call
      \/ Becomes(c, NoCall)
      \/ \E new \in Unnumbered : new.pc \in {"queued", "failed"} /\ Becomes(c, new)
  <2>1. CASE Timeout(c) \/ Return(c)
    BY <2>1 DEF Timeout, Return, Becomes
  <2>2. CASE Refuse(c)
    <3>. DEFINE new == [call[c] EXCEPT !.pc = "failed"]
    <3>1. call[c] \in Unnumbered
      BY <2>2, CallTypes DEF Refuse
    <3>2. new \in Unnumbered /\ new.pc = "failed"
      BY <3>1 DEF Unnumbered
    <3>3. Becomes(c, new)
      BY <2>2 DEF Refuse, Becomes, TypeOK
    <3>. HIDE DEF new
    <3>. QED
      BY <3>2, <3>3
  <2>3. ASSUME NEW s \in Symbols,
               FetchCandles(c, s) \/ GetCandles(c, s) \/ Subscribe(c, s) \/ Unsubscribe(c, s)
        PROVE  UNCHANGED call \/ \E kind \in Kinds : Start(c, kind, s)
    BY <2>3 DEF FetchCandles, GetCandles, Subscribe, Unsubscribe, Kinds
  <2>. QED
    BY <1>2, <2>1, <2>2, <2>3
<1>4. /\ call' \in [Callers -> Call \cup {NoCall}]
      /\ \A d \in Callers : call'[d] = call[d] \/ call'[d].pc \in {"idle", "queued", "failed"}
  <2>1. CASE UNCHANGED call
    BY <2>1 DEF TypeOK
  <2>2. CASE Becomes(c, NoCall)
    BY <2>2, BecomesType DEF NoCall
  <2>3. ASSUME NEW new \in Unnumbered, new.pc \in {"queued", "failed"}, Becomes(c, new)
        PROVE  <1>4!1 /\ <1>4!2
    BY <2>3, BecomesType
  <2>. QED
    BY <1>3, <2>1, <2>2, <2>3
<1>5. subs' \in [Symbols -> SUBSET Callers]
  BY DEF FetchCandles, GetCandles, Subscribe, Unsubscribe, Refuse, Timeout, Return, subVars, TypeOK
<1>6. subId' \in [Symbols -> {"none", "valid", "stale"}]
  <2>1. CASE Return(c)
    BY <2>1 DEF Return, TypeOK
  <2>2. CASE ~ Return(c)
    BY <2>2 DEF FetchCandles, GetCandles, Subscribe, Unsubscribe, Refuse, Timeout, subVars, TypeOK
  <2>. QED
    BY <2>1, <2>2
<1>7. TypeOK'
  BY <1>1, <1>4, <1>5, <1>6 DEF TypeOK, wsVars, reqVars, tickVars
<1>. QED
  BY <1>1, <1>4, <1>7, QuietStep DEF reqVars

(* A request gets its number.                                              *)
LEMMA PrepareStep ==
  ASSUME AdapterInv, NEW c \in Callers, Prepare(c)
  PROVE  AdapterInv'
<1>. TypeOK
  BY DEF AdapterInv
<1>. DEFINE new == [call[c] EXCEPT !.pc = "sending", !.id = nextReq]
<1>1. /\ nextReq' \in 0..MaxRequests /\ nextReq \in 0..MaxRequests
      /\ pending' \in SUBSET Future
      /\ \A p \in pending' : p.id < nextReq' /\ (p.id = nextReq => p.by = c)
      /\ \A p \in pending' : p.id # nextReq => p \in pending
  BY EnlistStep DEF Prepare, Owners
<1>2. nextReq' = nextReq + 1 /\ UNCHANGED <<sent, wsVars, subVars, tickVars>>
  BY DEF Prepare
<1>3. call[c] \in Unnumbered
  BY CallTypes DEF Prepare
<1>4. new \in Numbered /\ new.pc = "sending" /\ new.id = nextReq
  BY <1>1, <1>3 DEF Unnumbered, Numbered
<1>5. Becomes(c, new)
  BY DEF Prepare, Becomes, TypeOK
<1>. HIDE DEF new
<1>6. /\ call' \in [Callers -> Call \cup {NoCall}]
      /\ call'[c] = new /\ \A d \in Callers \ {c} : call'[d] = call[d]
  BY <1>4, <1>5, BecomesType
<1>7. TypeOK'
  BY <1>1, <1>2, <1>6 DEF TypeOK, wsVars, subVars, tickVars
<1>8. \A d \in Callers : call[d].pc = "sending" => call[d].id \in 0..MaxRequests /\ call[d].id < nextReq
  BY CallTypes DEF AdapterInv, NumbersTaken, Numbered
<1>9. \A k \in sent : k.id \in 0..MaxRequests /\ k.id < nextReq
  BY DEF AdapterInv, NumbersTaken, TypeOK, Message
<1>10. NumbersTaken'
  <2>1. \A k \in sent' : k.id < nextReq'
    BY <1>1, <1>2, <1>9
  <2>2. \A d \in Callers : call'[d].pc = "sending" => call'[d].id < nextReq'
    BY <1>1, <1>2, <1>4, <1>6, <1>8
  <2>. QED
    BY <1>1, <2>1, <2>2 DEF NumbersTaken
<1>11. NumbersOwned'
  <2>1. ASSUME NEW k \in sent', NEW p \in pending', k.id = p.id PROVE k.by = p.by
    BY <1>1, <1>2, <1>9, <2>1 DEF AdapterInv, NumbersOwned
  <2>2. ASSUME NEW d \in Callers, NEW p \in pending', call'[d].pc = "sending", call'[d].id = p.id
        PROVE  p.by = d
    BY <1>1, <1>4, <1>6, <1>8, <2>2 DEF AdapterInv, NumbersOwned
  <2>. QED
    BY <2>1, <2>2 DEF NumbersOwned
<1>12. AnswerMatches' /\ ToldIsPast'
  BY <1>2, <1>4, <1>6 DEF AdapterInv, AnswerMatches, ToldIsPast, tickVars
<1>. QED
  BY <1>7, <1>10, <1>11, <1>12 DEF AdapterInv

(* A request goes out with its number, or fails.                           *)
LEMMA SendStep ==
  ASSUME AdapterInv, NEW c \in Callers, Send(c)
  PROVE  AdapterInv'
<1>. TypeOK
  BY DEF AdapterInv
<1>1. UNCHANGED <<nextReq, pending, wsVars, subVars, tickVars>>
  BY DEF Send
<1>2. call[c] \in Numbered /\ call[c].pc = "sending"
  BY CallTypes DEF Send
<1>3. CASE ws = "open"
  <2>. DEFINE m   == [id |-> call[c].id, by |-> c, kind |-> call[c].kind, symbol |-> call[c].symbol]
              new == [call[c] EXCEPT !.pc = "waiting"]
  <2>1. m \in Message /\ m.id = call[c].id /\ m.by = c
    BY <1>2 DEF Numbered, Message, Owners
  <2>2. new \in Numbered /\ new.pc = "waiting"
    BY <1>2 DEF Numbered
  <2>3. sent' = sent \cup {m} /\ Becomes(c, new)
    BY <1>3 DEF Send, Becomes, TypeOK
  <2>. HIDE DEF m, new
  <2>4. /\ call' \in [Callers -> Call \cup {NoCall}]
        /\ call'[c] = new /\ \A d \in Callers \ {c} : call'[d] = call[d]
    BY <2>2, <2>3, BecomesType
  <2>5. TypeOK'
    BY <1>1, <2>1, <2>3, <2>4 DEF TypeOK, wsVars, subVars, tickVars
  <2>6. NumbersTaken' /\ NumbersOwned'
    BY <1>1, <1>2, <2>1, <2>2, <2>3, <2>4 DEF AdapterInv, NumbersTaken, NumbersOwned
  <2>7. AnswerMatches' /\ ToldIsPast'
    BY <1>1, <2>2, <2>4 DEF AdapterInv, AnswerMatches, ToldIsPast, tickVars
  <2>. QED
    BY <2>5, <2>6, <2>7 DEF AdapterInv
<1>4. CASE ws # "open"
  <2>. DEFINE new == [call[c] EXCEPT !.pc = "failed", !.id = 0]
  <2>1. new \in Unnumbered /\ new.pc = "failed"
    BY <1>2 DEF Numbered, Unnumbered
  <2>2. UNCHANGED sent /\ Becomes(c, new)
    BY <1>4 DEF Send, Becomes, TypeOK
  <2>. HIDE DEF new
  <2>3. /\ call' \in [Callers -> Call \cup {NoCall}]
        /\ call'[c] = new /\ \A d \in Callers \ {c} : call'[d] = call[d]
    BY <2>1, <2>2, BecomesType
  <2>4. TypeOK'
    BY <1>1, <2>2, <2>3 DEF TypeOK, wsVars, subVars, tickVars
  <2>. QED
    BY <1>1, <2>1, <2>2, <2>3, <2>4, QuietStep
<1>. QED
  BY <1>3, <1>4

(* An answer goes to the future of its number: it belongs to who sent the  *)
(* request that is answered.                                               *)
LEMMA AnswerStep ==
  ASSUME AdapterInv, NEW m \in sent, NEW error \in BOOLEAN, Answer(m, error)
  PROVE  AdapterInv'
<1>. TypeOK
  BY DEF AdapterInv
<1>. DEFINE asked  == {c \in Callers : /\ call[c].pc = "waiting" /\ call[c].id = m.id
                                       /\ [id |-> m.id, by |-> c] \in pending}
            pc     == IF error THEN "failed" ELSE "answered"
            new(c) == [call[c] EXCEPT !.pc = pc, !.id = 0, !.got = m.by]
<1>1. /\ UNCHANGED <<nextReq, wsVars, subs, subId, tickVars>>
      /\ sent' \subseteq sent /\ pending' \subseteq pending
      /\ streams' \subseteq streams \cup {m.symbol}
      /\ call' = [c \in Callers |-> IF c \in asked THEN new(c) ELSE call[c]]
  BY DEF Answer
<1>2. m \in Message
  BY DEF TypeOK
<1>3. \A c \in asked : m.by = c
  BY DEF AdapterInv, NumbersOwned
<1>4. ASSUME NEW c \in asked
      PROVE  new(c) \in Unnumbered /\ new(c).pc \in {"failed", "answered"} /\ new(c).got = c
  <2>1. call[c] \in Numbered
    BY CallTypes
  <2>2. m.by = c /\ c \in Owners
    BY <1>3 DEF Owners
  <2>. QED
    BY <2>1, <2>2 DEF Numbered, Unnumbered
<1>. HIDE DEF new, asked
<1>5. \A c \in Callers : \/ call'[c] = call[c]
                         \/ call'[c] \in Unnumbered /\ call'[c].pc \in {"failed", "answered"} /\ call'[c].got = c
  BY <1>1, <1>4
<1>6. TypeOK'
  <2>1. call' \in [Callers -> Call \cup {NoCall}]
    BY <1>1, <1>5, TypesOfCalls DEF TypeOK
  <2>2. streams' \in SUBSET Symbols
    BY <1>1, <1>2 DEF TypeOK, Message
  <2>. QED
    BY <1>1, <2>1, <2>2 DEF TypeOK, wsVars, tickVars
<1>7. NumbersTaken' /\ NumbersOwned'
  BY <1>1, <1>5 DEF AdapterInv, NumbersTaken, NumbersOwned
<1>8. AnswerMatches' /\ ToldIsPast'
  BY <1>1, <1>5 DEF AdapterInv, AnswerMatches, ToldIsPast, tickVars
<1>. QED
  BY <1>6, <1>7, <1>8 DEF AdapterInv

-----------------------------------------------------------------------------
(* Ticks                                                                   *)

LEMMA TickStep ==
  ASSUME AdapterInv, NEW s \in Symbols, NEW t \in Ticks, Tick(s, t)
  PROVE  /\ AdapterInv'
         /\ \A r \in Symbols : told'[r].epoch >= told[r].epoch
<1>. TypeOK
  BY DEF AdapterInv
<1>1. /\ UNCHANGED <<wsVars, reqVars, call, subVars>>
      /\ last' = [last EXCEPT ![s] = t]
      /\ told' = told \/ told' = [told EXCEPT ![s] = t]
      /\ ~ (t.epoch < last[s].epoch)
  BY DEF Tick, Repeated
<1>2. t.epoch \in 0..MaxEpoch
      /\ \A r \in Symbols : last[r].epoch \in 0..MaxEpoch /\ told[r].epoch \in 0..MaxEpoch
      /\ last \in [Symbols -> Ticks] /\ told \in [Symbols -> Ticks]
  BY DEF TypeOK, Ticks
<1>3. last[s].epoch <= t.epoch /\ \A r \in Symbols : told[r].epoch <= last[r].epoch
  BY <1>1, <1>2, DerivAssumption DEF AdapterInv, ToldIsPast
<1>4. last' \in [Symbols -> Ticks] /\ told' \in [Symbols -> Ticks]
  BY <1>1, <1>2
<1>5. \A r \in Symbols : /\ last'[r] = IF r = s THEN t ELSE last[r]
                         /\ told'[r] = told[r] \/ (r = s /\ told'[r] = t)
  BY <1>1, <1>2
<1>6. \A r \in Symbols : told'[r].epoch <= last'[r].epoch /\ told'[r].epoch >= told[r].epoch
  BY <1>2, <1>3, <1>5, DerivAssumption
<1>7. TypeOK'
  BY <1>1, <1>4 DEF TypeOK, wsVars, reqVars, subVars
<1>8. NumbersTaken' /\ NumbersOwned' /\ AnswerMatches'
  BY <1>1 DEF AdapterInv, NumbersTaken, NumbersOwned, AnswerMatches, reqVars
<1>. QED
  BY <1>6, <1>7, <1>8 DEF AdapterInv, ToldIsPast

-----------------------------------------------------------------------------

LEMMA InitHolds == Init => AdapterInv
<1>. SUFFICES ASSUME Init PROVE AdapterInv
  OBVIOUS
<1>1. Nothing \in Ticks /\ Nothing.epoch = 0
  BY DerivAssumption DEF Nothing, Ticks
<1>2. closing \in BOOLEAN
  BY DEF Init
<1>3. connected \in BOOLEAN
  BY DEF Init
<1>4. TypeOK
  BY <1>1, <1>2, <1>3, DerivAssumption DEF Init, TypeOK
<1>5. NumbersTaken /\ NumbersOwned /\ AnswerMatches
  BY DEF Init, NumbersTaken, NumbersOwned, AnswerMatches, NoCall
<1>6. ToldIsPast
  BY <1>1 DEF Init, ToldIsPast
<1>. QED
  BY <1>4, <1>5, <1>6 DEF AdapterInv

LEMMA NextHolds ==
  ASSUME AdapterInv, [Next]_vars
  PROVE  /\ AdapterInv'
         /\ \A s \in Symbols : told'[s].epoch >= told[s].epoch
<1>1. ASSUME NEW s \in Symbols, NEW t \in Ticks, Tick(s, t)
      PROVE  AdapterInv' /\ \A r \in Symbols : told'[r].epoch >= told[r].epoch
  BY <1>1, TickStep
<1>2. ASSUME UNCHANGED told PROVE \A s \in Symbols : told'[s].epoch >= told[s].epoch
  <2>1. \A s \in Symbols : told[s].epoch \in 0..MaxEpoch
    BY DEF AdapterInv, TypeOK, Ticks
  <2>. QED
    BY <1>2, <2>1
<1>3. CASE \/ Connect \/ Disconnect \/ DialOk \/ DialFails \/ Wake \/ Close \/ Lose
           \/ \E ok \in BOOLEAN : ReadEnd(ok)
  <2>1. UNCHANGED told
    BY <1>3 DEF Connect, Disconnect, DialOk, DialFails, Wake, Close, Lose, ReadEnd, tickVars
  <2>. QED
    BY <1>2, <1>3, <2>1, ConnectionStep
<1>4. ASSUME NEW s \in Symbols, RestoreNext(s)
      PROVE  AdapterInv' /\ UNCHANGED told
  BY <1>4, RestoreStep DEF RestoreNext, tickVars
<1>5. ASSUME NEW c \in Callers, Caller(c)
      PROVE  AdapterInv' /\ UNCHANGED told
  <2>1. UNCHANGED told
    BY <1>5 DEF Caller, FetchCandles, GetCandles, Subscribe, Unsubscribe, Prepare, Refuse, Send, Timeout,
                Return, tickVars
  <2>2. AdapterInv'
    BY <1>5, CallStep, PrepareStep, SendStep DEF Caller
  <2>. QED
    BY <2>1, <2>2
<1>6. ASSUME NEW m \in sent, NEW error \in BOOLEAN, Answer(m, error)
      PROVE  AdapterInv' /\ UNCHANGED told
  BY <1>6, AnswerStep DEF Answer, tickVars
<1>7. CASE UNCHANGED vars
  <2>1. TypeOK'
    BY <1>7 DEF vars, AdapterInv, TypeOK
  <2>2. UNCHANGED <<nextReq, pending, sent, call, tickVars>>
    BY <1>7 DEF vars, tickVars
  <2>. QED
    BY <1>2, <2>1, <2>2, QuietStep DEF tickVars
<1>. QED
  BY <1>1, <1>2, <1>3, <1>4, <1>5, <1>6, <1>7 DEF Next, Reader, Server

LEMMA AdapterInvHolds == Spec => []AdapterInv
<1>1. AdapterInv /\ [Next]_vars => AdapterInv'
  BY NextHolds
<1>. QED
  BY InitHolds, <1>1, PTL DEF Spec

-----------------------------------------------------------------------------
(* The theorems                                                            *)

\* Every request, future, call and tick has its type. (DerivAdapter)
THEOREM AdapterTypesCorrect == Spec => []TypeOK
<1>1. AdapterInv => TypeOK
  BY DEF AdapterInv
<1>. QED
  BY <1>1, AdapterInvHolds, PTL

\* Whoever gets an answer gets that to its own request, for any number of callers
\* and requests: a number is never on the wire for two of them, whatever timed out
\* or was lost. (_async_call, _handle_message)
THEOREM AnswersMatch == Spec => []AnswerMatches
<1>1. AdapterInv => AnswerMatches
  BY DEF AdapterInv
<1>. QED
  BY <1>1, AdapterInvHolds, PTL

\* Subscribers never see time go back, whatever the server sends and however often
\* the connection is made again. (_handle_message)
THEOREM TicksStayInOrder == Spec => TicksInOrder
<1>1. AdapterInv /\ [Next]_vars => [\A s \in Symbols : told'[s].epoch >= told[s].epoch]_vars
  BY NextHolds
<1>. QED
  BY <1>1, AdapterInvHolds, PTL DEF Spec, TicksInOrder

-----------------------------------------------------------------------------
(* Totals: what MapThenSumSet computes, whatever the order                *)

\* The element with which a sum goes on.
Chosen(s) == CHOOSE x \in s : TRUE

\* g[s] is the sum of f over s, for every part s of D.
SumsOf(g, f, D) ==
  g = [s \in SUBSET D |-> IF s = {} THEN 0 ELSE f[Chosen(s)] + g[s \ {Chosen(s)}]]

(* A nonempty set of subsets of a finite set has a smallest one.           *)
LEMMA SmallestSubset ==
  ASSUME NEW D, IsFiniteSet(D), NEW B \in SUBSET (SUBSET D), B # {}
  PROVE  \E T \in B : \A U \in B : U \subseteq T => U = T
<1>1. IsWellFoundedOn(StrictSubsetOrdering(D), SUBSET D)
  BY FS_StrictSubsetOrderingWellFounded, FS_FiniteSubsetsOfFinite
<1>2. \E T \in B : \A U \in B : ~ (<<U, T>> \in StrictSubsetOrdering(D))
  BY <1>1, WFMin
<1>. QED
  BY <1>2 DEF StrictSubsetOrdering

(* What it says of no elements.                                            *)
LEMMA SumsOfNothing ==
  ASSUME NEW D, NEW f, NEW g, SumsOf(g, f, D)
  PROVE  g[{}] = 0
<1>1. {} \in SUBSET D
  OBVIOUS
<1>. QED
  BY <1>1 DEF SumsOf

(* What it says of one part.                                               *)
LEMMA SumsOfPart ==
  ASSUME NEW D, NEW f, NEW g, SumsOf(g, f, D), NEW s, s \subseteq D, s # {}, NEW c, c = Chosen(s)
  PROVE  c \in s /\ g[s] = f[c] + g[s \ {c}]
<1>1. c \in s
  BY DEF Chosen
<1>2. s \in SUBSET D
  OBVIOUS
<1>3. g[s] = IF s = {} THEN 0 ELSE f[c] + g[s \ {c}]
  BY <1>2 DEF SumsOf
<1>. QED
  BY <1>1, <1>3

(* Sums over the same part are the same.                                   *)
LEMMA SumsAgree ==
  ASSUME NEW D, IsFiniteSet(D), NEW U, NEW V, D \subseteq U, D \subseteq V, NEW f, NEW e, NEW g, NEW h,
         SumsOf(g, f, U), SumsOf(h, e, V), \A x \in D : f[x] = e[x]
  PROVE  g[D] = h[D]
<1>1. PICK B : B = {s \in SUBSET D : g[s] # h[s]}
  OBVIOUS
<1>2. B \in SUBSET (SUBSET D)
  BY <1>1
<1>3. ASSUME B # {} PROVE FALSE
  <2>1. PICK T \in B : \A W \in B : W \subseteq T => W = T
    BY <1>2, <1>3, SmallestSubset
  <2>2. T \in SUBSET D /\ g[T] # h[T]
    BY <1>1
  <2>3. T \subseteq U /\ T \subseteq V
    BY <2>2
  <2>4. T # {}
    <3>1. g[{}] = 0 /\ h[{}] = 0
      BY SumsOfNothing
    <3>. QED
      BY <2>2, <3>1
  <2>5. PICK c : c = Chosen(T)
    OBVIOUS
  <2>6. c \in T /\ g[T] = f[c] + g[T \ {c}]
    BY <2>3, <2>4, <2>5, SumsOfPart
  <2>7. h[T] = e[c] + h[T \ {c}]
    BY <2>3, <2>4, <2>5, SumsOfPart
  <2>8. T \ {c} \notin B
    BY <2>1, <2>6
  <2>9. g[T \ {c}] = h[T \ {c}]
    BY <1>1, <2>2, <2>8
  <2>10. f[c] = e[c]
    BY <2>2, <2>6
  <2>. QED
    BY <2>2, <2>6, <2>7, <2>9, <2>10
<1>4. D \notin B
  BY <1>3
<1>. QED
  BY <1>1, <1>4

(* There are sums.                                                         *)
LEMMA SumsExist ==
  ASSUME NEW D, IsFiniteSet(D), NEW f
  PROVE  \E g : SumsOf(g, f, D)
<1>1. PICK B : B = {s \in SUBSET D : ~ \E g : SumsOf(g, f, s)}
  OBVIOUS
<1>2. B \in SUBSET (SUBSET D)
  BY <1>1
<1>3. ASSUME B # {} PROVE FALSE
  <2>1. PICK T \in B : \A W \in B : W \subseteq T => W = T
    BY <1>2, <1>3, SmallestSubset
  <2>2. T \in SUBSET D /\ ~ \E g : SumsOf(g, f, T)
    BY <1>1
  <2>3. \A s \in (SUBSET T) \ {T} : \E g : SumsOf(g, f, s)
    BY <1>1, <2>1, <2>2
  <2>. DEFINE G(s) == CHOOSE g : SumsOf(g, f, s)
  <2>4. \A s \in (SUBSET T) \ {T} : SumsOf(G(s), f, s)
    BY <2>3
  <2>. HIDE DEF G
  <2>5. PICK c : c = Chosen(T)
    OBVIOUS
  <2>6. PICK k : k = [s \in SUBSET T |->
                        IF s = {} THEN 0 ELSE IF s = T THEN f[c] + G(T \ {c})[T \ {c}] ELSE G(s)[s]]
    OBVIOUS
  <2>7. ASSUME NEW s \in SUBSET T, s # {} PROVE k[s] = f[Chosen(s)] + k[s \ {Chosen(s)}]
    <3>1. PICK d : d = Chosen(s)
      OBVIOUS
    <3>2. d \in s
      BY <2>7, <3>1 DEF Chosen
    <3>3. s \ {d} \in (SUBSET T) \ {T}
      BY <3>2
    <3>4. k[s \ {d}] = G(s \ {d})[s \ {d}]
      <4>1. CASE s \ {d} = {}
        <5>1. SumsOf(G(s \ {d}), f, s \ {d})
          BY <2>4, <3>3
        <5>2. G(s \ {d})[{}] = 0
          BY <5>1, SumsOfNothing
        <5>. QED
          BY <2>6, <3>3, <4>1, <5>2
      <4>2. CASE s \ {d} # {}
        BY <2>6, <3>3, <4>2
      <4>. QED
        BY <4>1, <4>2
    <3>5. CASE s = T
      <4>1. c = d
        BY <2>5, <3>1, <3>5
      <4>2. k[s] = f[c] + G(T \ {c})[T \ {c}]
        BY <2>6, <2>7, <3>5
      <4>. QED
        BY <3>1, <3>4, <3>5, <4>1, <4>2
    <3>6. CASE s # T
      <4>1. SumsOf(G(s), f, s)
        BY <2>4, <3>6
      <4>2. k[s] = G(s)[s]
        BY <2>6, <2>7, <3>6
      <4>3. G(s)[s] = f[d] + G(s)[s \ {d}]
        <5>1. s \subseteq s
          OBVIOUS
        <5>. QED
          BY <2>7, <3>1, <4>1, <5>1, SumsOfPart
      <4>4. SumsOf(G(s \ {d}), f, s \ {d})
        BY <2>4, <3>3
      <4>5. IsFiniteSet(s \ {d})
        BY <2>2, FS_Subset
      <4>6. G(s)[s \ {d}] = G(s \ {d})[s \ {d}]
        BY <4>1, <4>4, <4>5, SumsAgree
      <4>. QED
        BY <3>1, <3>4, <4>2, <4>3, <4>6
    <3>. QED
      BY <3>5, <3>6
  <2>8. k = [s \in SUBSET T |-> IF s = {} THEN 0 ELSE f[Chosen(s)] + k[s \ {Chosen(s)}]]
    <3>1. \A s \in SUBSET T : k[s] = IF s = {} THEN 0 ELSE f[Chosen(s)] + k[s \ {Chosen(s)}]
      BY <2>6, <2>7
    <3>2. k = [s \in SUBSET T |-> k[s]]
      BY <2>6
    <3>. QED
      BY <3>1, <3>2
  <2>. QED
    BY <2>2, <2>8 DEF SumsOf
<1>4. D \notin B
  BY <1>3
<1>. QED
  BY <1>1, <1>4

(* A total is such a sum.                                                  *)
LEMMA TotalSums ==
  ASSUME NEW f, IsFiniteSet(DOMAIN f)
  PROVE  \E g : SumsOf(g, f, DOMAIN f) /\ Total(f) = g[DOMAIN f]
<1>1. PICK g : g = CHOOSE h : SumsOf(h, f, DOMAIN f)
  OBVIOUS
<1>2. SumsOf(g, f, DOMAIN f)
  BY <1>1, SumsExist
<1>3. g = CHOOSE h : h = [s \in SUBSET DOMAIN f |-> IF s = {} THEN 0 ELSE f[Chosen(s)] + h[s \ {Chosen(s)}]]
  BY <1>1 DEF SumsOf
<1>4. Total(f) = g[DOMAIN f]
  BY <1>3 DEF Total, MapThenSumSet, MapThenFoldSet, Chosen
<1>. QED
  BY <1>2, <1>4

(* Sums of integers are integers, and it does not matter with which        *)
(* element they begin.                                                     *)
LEMMA SumsAreIntegers ==
  ASSUME NEW D, IsFiniteSet(D), NEW f \in [D -> Int], NEW g, SumsOf(g, f, D)
  PROVE  \A s \in SUBSET D : g[s] \in Int
<1>1. PICK B : B = {s \in SUBSET D : g[s] \notin Int}
  OBVIOUS
<1>2. B \in SUBSET (SUBSET D)
  BY <1>1
<1>3. ASSUME B # {} PROVE FALSE
  <2>1. PICK T \in B : \A W \in B : W \subseteq T => W = T
    BY <1>2, <1>3, SmallestSubset
  <2>2. T \subseteq D /\ g[T] \notin Int
    BY <1>1
  <2>3. T # {}
    BY <2>2, SumsOfNothing
  <2>4. PICK c : c = Chosen(T)
    OBVIOUS
  <2>5. c \in T /\ g[T] = f[c] + g[T \ {c}]
    BY <2>2, <2>3, <2>4, SumsOfPart
  <2>6. T \ {c} \notin B
    BY <2>1, <2>5
  <2>7. g[T \ {c}] \in Int
    BY <1>1, <2>2, <2>6
  <2>8. f[c] \in Int
    BY <2>2, <2>5
  <2>. QED
    BY <2>2, <2>5, <2>7, <2>8
<1>. QED
  BY <1>1, <1>3

\* It does not matter with which element a sum begins.
InAnyOrder(g, f, D) == \A s \in SUBSET D : \A x \in s : g[s] = f[x] + g[s \ {x}]

LEMMA SumsInAnyOrder ==
  ASSUME NEW D, IsFiniteSet(D), NEW f \in [D -> Int], NEW g, SumsOf(g, f, D)
  PROVE  InAnyOrder(g, f, D)
<1>1. PICK B : B = {s \in SUBSET D : \E y \in s : g[s] # f[y] + g[s \ {y}]}
  OBVIOUS
<1>2. B \in SUBSET (SUBSET D)
  BY <1>1
<1>3. \A s \in SUBSET D : g[s] \in Int
  BY SumsAreIntegers
<1>4. ASSUME B # {} PROVE FALSE
  <2>1. PICK T \in B : \A W \in B : W \subseteq T => W = T
    BY <1>2, <1>4, SmallestSubset
  <2>2. PICK y \in T : T \subseteq D /\ g[T] # f[y] + g[T \ {y}]
    BY <1>1
  <2>3. PICK c : c = Chosen(T)
    OBVIOUS
  <2>4. c \in T /\ g[T] = f[c] + g[T \ {c}]
    BY <2>2, <2>3, SumsOfPart
  <2>5. c # y
    BY <2>2, <2>4
  <2>6. PICK C, Y, R : C = T \ {c} /\ Y = T \ {y} /\ R = (T \ {c}) \ {y}
    OBVIOUS
  <2>7. /\ y \in C /\ c \in Y /\ C \ {y} = R /\ Y \ {c} = R
        /\ C \in SUBSET D /\ Y \in SUBSET D /\ R \in SUBSET D
    BY <2>2, <2>4, <2>5, <2>6
  <2>8. C \notin B /\ Y \notin B
    BY <2>1, <2>2, <2>4, <2>6
  <2>9. g[C] = f[y] + g[R]
    BY <1>1, <2>7, <2>8
  <2>10. g[Y] = f[c] + g[R]
    BY <1>1, <2>7, <2>8
  <2>11. g[T] = f[c] + g[C] /\ g[T] # f[y] + g[Y]
    BY <2>2, <2>4, <2>6
  <2>12. f[y] \in Int /\ f[c] \in Int /\ g[R] \in Int
    BY <1>3, <2>2, <2>4, <2>7
  <2>. QED
    BY <2>9, <2>10, <2>11, <2>12
<1>. QED
  BY <1>1, <1>4 DEF InAnyOrder

\* The total over a part.
Over(f, S) == Total([x \in S |-> f[x]])

\* One element more.
OverOneMore(f, D) == \A S \in SUBSET D : \A x \in S : Over(f, S) = f[x] + Over(f, S \ {x})

(* The total over no element, and over one more.                           *)
LEMMA OverFacts ==
  ASSUME NEW D, IsFiniteSet(D), NEW f \in [D -> Int]
  PROVE  /\ Over(f, D) = Total(f) /\ Over(f, {}) = 0
         /\ \A S \in SUBSET D : Over(f, S) \in Int
         /\ OverOneMore(f, D)
<1>1. PICK g : SumsOf(g, f, D) /\ Total(f) = g[D]
  BY TotalSums
<1>2. ASSUME NEW S \in SUBSET D PROVE Over(f, S) = g[S]
  <2>1. PICK e : e = [x \in S |-> f[x]]
    OBVIOUS
  <2>2. DOMAIN e = S /\ IsFiniteSet(S) /\ \A x \in S : f[x] = e[x]
    BY <2>1, FS_Subset
  <2>3. PICK h : SumsOf(h, e, S) /\ Total(e) = h[S]
    BY <2>2, TotalSums
  <2>4. S \subseteq D /\ S \subseteq S
    OBVIOUS
  <2>5. g[S] = h[S]
    BY <1>1, <2>2, <2>3, <2>4, SumsAgree
  <2>. QED
    BY <2>1, <2>3, <2>5 DEF Over
<1>3. g[{}] = 0 /\ {} \in SUBSET D /\ D \in SUBSET D
  BY <1>1, SumsOfNothing
<1>4. \A S \in SUBSET D : g[S] \in Int
  BY <1>1, SumsAreIntegers
<1>5. InAnyOrder(g, f, D)
  BY <1>1, SumsInAnyOrder
<1>6. ASSUME NEW S \in SUBSET D, NEW x \in S PROVE Over(f, S) = f[x] + Over(f, S \ {x})
  <2>1. PICK R : R = S \ {x}
    OBVIOUS
  <2>2. R \in SUBSET D
    BY <2>1
  <2>3. Over(f, S) = g[S] /\ Over(f, R) = g[R]
    BY <1>2, <2>2
  <2>4. g[S] = f[x] + g[R]
    BY <1>5, <2>1 DEF InAnyOrder
  <2>. QED
    BY <2>1, <2>3, <2>4
<1>7. Over(f, D) = Total(f) /\ Over(f, {}) = 0
  BY <1>1, <1>2, <1>3
<1>8. \A S \in SUBSET D : Over(f, S) \in Int
  BY <1>2, <1>4
<1>. QED
  BY <1>6, <1>7, <1>8 DEF OverOneMore

(* The totals over two parts.                                              *)
LEMMA TotalOfParts ==
  ASSUME NEW D, IsFiniteSet(D), NEW f \in [D -> Int], NEW A \in SUBSET D
  PROVE  Total(f) = Over(f, A) + Over(f, D \ A)
<1>1. PICK B : B = {S \in SUBSET D : Total(f) # Over(f, S) + Over(f, D \ S)}
  OBVIOUS
<1>2. B \in SUBSET (SUBSET D)
  BY <1>1
<1>3. ASSUME B # {} PROVE FALSE
  <2>1. PICK T \in B : \A W \in B : W \subseteq T => W = T
    BY <1>2, <1>3, SmallestSubset
  <2>2. T \in SUBSET D /\ Total(f) # Over(f, T) + Over(f, D \ T)
    BY <1>1
  <2>3. CASE T = {}
    <3>1. D \ T = D
      BY <2>3
    <3>2. /\ Over(f, D) = Total(f) /\ Over(f, {}) = 0 /\ Over(f, D) \in Int
      BY OverFacts DEF OverOneMore
    <3>. QED
      BY <2>2, <2>3, <3>1, <3>2
  <2>4. CASE T # {}
    <3>1. PICK x \in T : TRUE
      BY <2>4
    <3>2. PICK R, N, M : R = T \ {x} /\ N = D \ T /\ M = D \ (T \ {x})
      OBVIOUS
    <3>3. R \notin B /\ R \in SUBSET D /\ M = D \ R
      BY <2>1, <2>2, <3>1, <3>2
    <3>4. Total(f) = Over(f, R) + Over(f, M)
      BY <1>1, <3>3
    <3>5. x \in M /\ M \ {x} = N /\ M \in SUBSET D /\ N \in SUBSET D /\ f[x] \in Int
      BY <2>2, <3>1, <3>2
    <3>6. Over(f, T) = f[x] + Over(f, R)
      BY <2>2, <3>1, <3>2, OverFacts DEF OverOneMore
    <3>7. Over(f, M) = f[x] + Over(f, N)
      BY <3>5, OverFacts DEF OverOneMore
    <3>8. Over(f, R) \in Int /\ Over(f, N) \in Int
      BY <3>3, <3>5, OverFacts DEF OverOneMore
    <3>9. Total(f) # Over(f, T) + Over(f, N)
      BY <2>2, <3>2
    <3>. QED
      BY <3>4, <3>5, <3>6, <3>7, <3>8, <3>9
  <2>. QED
    BY <2>3, <2>4
<1>4. A \notin B
  BY <1>3
<1>. QED
  BY <1>1, <1>4

(* The total of sums.                                                      *)
LEMMA TotalOfSums ==
  ASSUME NEW D, IsFiniteSet(D), NEW f \in [D -> Int], NEW a \in [D -> Int], NEW b \in [D -> Int],
         \A x \in D : f[x] = a[x] + b[x]
  PROVE  Total(f) = Total(a) + Total(b)
<1>1. PICK B : B = {S \in SUBSET D : Over(f, S) # Over(a, S) + Over(b, S)}
  OBVIOUS
<1>2. B \in SUBSET (SUBSET D)
  BY <1>1
<1>3. ASSUME B # {} PROVE FALSE
  <2>1. PICK T \in B : \A W \in B : W \subseteq T => W = T
    BY <1>2, <1>3, SmallestSubset
  <2>2. T \in SUBSET D /\ Over(f, T) # Over(a, T) + Over(b, T)
    BY <1>1
  <2>3. Over(f, {}) = 0 /\ Over(a, {}) = 0 /\ Over(b, {}) = 0
    BY OverFacts DEF OverOneMore
  <2>4. T # {}
    BY <2>2, <2>3
  <2>5. PICK x \in T : TRUE
    BY <2>4
  <2>6. PICK R : R = T \ {x}
    OBVIOUS
  <2>7. R \notin B /\ R \in SUBSET D
    BY <2>1, <2>2, <2>5, <2>6
  <2>8. Over(f, R) = Over(a, R) + Over(b, R)
    BY <1>1, <2>7
  <2>9. Over(f, T) = f[x] + Over(f, R)
    BY <2>2, <2>5, <2>6, OverFacts DEF OverOneMore
  <2>10. Over(a, T) = a[x] + Over(a, R)
    BY <2>2, <2>5, <2>6, OverFacts DEF OverOneMore
  <2>11. Over(b, T) = b[x] + Over(b, R)
    BY <2>2, <2>5, <2>6, OverFacts DEF OverOneMore
  <2>12. Over(a, R) \in Int /\ Over(b, R) \in Int
    BY <2>7, OverFacts DEF OverOneMore
  <2>13. f[x] = a[x] + b[x] /\ a[x] \in Int /\ b[x] \in Int
    BY <2>2, <2>5
  <2>. QED
    BY <2>2, <2>8, <2>9, <2>10, <2>11, <2>12, <2>13
<1>4. Over(f, D) = Over(a, D) + Over(b, D)
  BY <1>1, <1>3
<1>5. Over(f, D) = Total(f) /\ Over(a, D) = Total(a) /\ Over(b, D) = Total(b)
  BY OverFacts DEF OverOneMore
<1>. QED
  BY <1>4, <1>5

\* h gives every element of D a name of its own in E.
Renames(h, D, E) ==
  /\ h \in [D -> E] /\ \A y \in E : \E x \in D : y = h[x]
  /\ \A x, y \in D : h[x] = h[y] => x = y

\* e is f of the names.
ValuesOfNames(e, f, h, D) == \A x \in D : e[x] = f[h[x]]

(* The total does not change when the elements are renamed.                *)
LEMMA TotalRenamed ==
  ASSUME NEW D, IsFiniteSet(D), NEW E, NEW h, Renames(h, D, E),
         NEW f \in [E -> Int], NEW e \in [D -> Int], ValuesOfNames(e, f, h, D)
  PROVE  IsFiniteSet(E) /\ Cardinality(E) = Cardinality(D) /\ Total(e) = Total(f)
<1>1. IsFiniteSet(E) /\ Cardinality(E) = Cardinality(D)
  <2>1. h \in Bijection(D, E)
    BY DEF Renames, Bijection, Injection, Surjection, IsInjective
  <2>2. ExistsBijection(D, E)
    BY <2>1 DEF ExistsBijection
  <2>. QED
    BY <2>2, FS_Bijection
<1>. DEFINE I(S) == {h[x] : x \in S}
<1>2. PICK B : B = {S \in SUBSET D : Over(e, S) # Over(f, I(S))}
  OBVIOUS
<1>3. B \in SUBSET (SUBSET D)
  BY <1>2
<1>4. ASSUME B # {} PROVE FALSE
  <2>1. PICK T \in B : \A W \in B : W \subseteq T => W = T
    BY <1>3, <1>4, SmallestSubset
  <2>2. T \in SUBSET D /\ Over(e, T) # Over(f, I(T))
    BY <1>2
  <2>3. Over(e, {}) = 0
    BY OverFacts DEF OverOneMore
  <2>4. Over(f, {}) = 0
    BY <1>1, OverFacts DEF OverOneMore
  <2>5. I({}) = {}
    OBVIOUS
  <2>6. T # {}
    BY <2>2, <2>3, <2>4, <2>5
  <2>7. PICK x \in T : TRUE
    BY <2>6
  <2>8. PICK R : R = T \ {x}
    OBVIOUS
  <2>9. R \notin B /\ R \in SUBSET D
    BY <2>1, <2>2, <2>7, <2>8
  <2>10. Over(e, R) = Over(f, I(R))
    BY <1>2, <2>9
  <2>11. Over(e, T) = e[x] + Over(e, R)
    BY <2>2, <2>7, <2>8, OverFacts DEF OverOneMore
  <2>12. h[x] \in I(T) /\ I(T) \in SUBSET E /\ I(R) = I(T) \ {h[x]}
    BY <2>2, <2>7, <2>8 DEF Renames
  <2>13. PICK U, V : U = I(T) /\ V = I(R)
    OBVIOUS
  <2>14. h[x] \in U /\ U \in SUBSET E /\ V = U \ {h[x]}
    BY <2>12, <2>13
  <2>15. Over(f, U) = f[h[x]] + Over(f, V)
    <3>1. PICK y : y = h[x]
      OBVIOUS
    <3>2. OverOneMore(f, E)
      BY <1>1, OverFacts
    <3>3. Over(f, U) = f[y] + Over(f, U \ {y})
      BY <2>14, <3>1, <3>2 DEF OverOneMore
    <3>. QED
      BY <2>14, <3>1, <3>3
  <2>16. e[x] = f[h[x]]
    BY <2>2, <2>7 DEF ValuesOfNames
  <2>. QED
    BY <2>2, <2>10, <2>11, <2>13, <2>15, <2>16
<1>5. Over(e, D) = Over(f, I(D))
  BY <1>2, <1>4
<1>6. I(D) = E
  BY DEF Renames
<1>7. Over(e, D) = Total(e)
  BY OverFacts DEF OverOneMore
<1>8. Over(f, E) = Total(f)
  BY <1>1, OverFacts DEF OverOneMore
<1>. QED
  BY <1>1, <1>5, <1>6, <1>7, <1>8

-----------------------------------------------------------------------------
(* Money                                                                   *)

(* A greater amount times the same volume is not less.                     *)
LEMMA TimesIsMonotone ==
  ASSUME NEW v \in Nat, NEW a \in Int, NEW b \in Int, a <= b
  PROVE  v * a <= v * b
<1>1. PICK d \in Nat : b = a + d
  <2>1. b - a \in Nat /\ b = a + (b - a)
    OBVIOUS
  <2>. QED
    BY <2>1
<1>2. v * b = v * a + v * d /\ v * d >= 0 /\ v * a \in Int /\ v * d \in Int
  BY <1>1
<1>. QED
  BY <1>2

LEMMA LeastOfTwo ==
  ASSUME NEW a \in Int, NEW b \in Int
  PROVE  Min({a, b}) \in {a, b}
<1>1. CASE a <= b
  <2>1. \E x \in {a, b} : \A y \in {a, b} : x <= y
    BY <1>1
  <2>. QED
    BY <2>1 DEF Min
<1>2. CASE b <= a
  <2>1. \E x \in {a, b} : \A y \in {a, b} : x <= y
    BY <1>2
  <2>. QED
    BY <2>1 DEF Min
<1>. QED
  BY <1>1, <1>2

LEMMA ScaleIsPositive ==
  /\ Scale \in Nat \ {0} /\ Slippage \in 0..(Scale - 1)
  /\ DefaultStop \in 0..(Scale - 1) /\ DefaultTarget \in 0..(Scale - 1) /\ InitialBalance \in Nat
BY PaperAssumption

LEMMA MoneyTypes ==
  ASSUME NEW pos \in Position, NEW exit \in Money
  PROVE  /\ Pnl(pos, exit) \in Money /\ Gain(Trade(pos, exit)) \in Money
         /\ pos.price * Scale * pos.volume \in Money /\ pos.entry * pos.volume + Pnl(pos, exit) \in Money
         /\ Unrealized(pos) \in Money
<1>1. /\ pos.volume \in Nat /\ pos.price \in Nat /\ pos.entry \in Int /\ pos.current \in Int /\ exit \in Int
  BY DEF Position, Money
<1>2. Pnl(pos, exit) \in Int /\ Pnl(pos, pos.current) \in Int
  BY <1>1 DEF Pnl
<1>3. Gain(Trade(pos, exit)) \in Int
  BY <1>1, ScaleIsPositive DEF Gain, Trade
<1>4. pos.price * Scale * pos.volume \in Int
  BY <1>1, ScaleIsPositive
<1>5. pos.entry * pos.volume + Pnl(pos, exit) \in Int
  BY <1>1, <1>2
<1>6. Unrealized(pos) \in Int
  BY <1>2 DEF Unrealized
<1>. QED
  BY <1>2, <1>3, <1>4, <1>5, <1>6 DEF Money

(* What is paid back for a position is what its round trip brings and what *)
(* it cost.                                                                *)
LEMMA RoundTrip ==
  ASSUME NEW pos \in Position, NEW exit \in Money, pos.entry = Filled(pos.price, pos.side)
  PROVE  pos.entry * pos.volume + Pnl(pos, exit) = Gain(Trade(pos, exit)) + pos.price * Scale * pos.volume
<1>1. PICK v \in Nat, p \in Nat : v = pos.volume /\ p = pos.price
  BY DEF Position
<1>2. PICK x \in Int, S \in Int, L \in Int : x = exit /\ S = Scale /\ L = Slippage
  BY ScaleIsPositive DEF Money
<1>3. CASE pos.side = "buy"
  <2>1. pos.entry = p * (S + L)
    BY <1>1, <1>2, <1>3 DEF Filled
  <2>2. Pnl(pos, exit) = v * (x - p * (S + L))
    BY <1>1, <1>2, <1>3, <2>1 DEF Pnl
  <2>3. Gain(Trade(pos, exit)) = v * (x - p * S)
    BY <1>1, <1>2, <1>3 DEF Gain, Trade
  <2>4. (p * (S + L)) * v + v * (x - p * (S + L)) = v * (x - p * S) + p * S * v
    OBVIOUS
  <2>. QED
    BY <1>1, <1>2, <2>1, <2>2, <2>3, <2>4
<1>4. CASE pos.side # "buy"
  <2>1. pos.entry = p * (S - L)
    BY <1>1, <1>2, <1>4 DEF Filled
  <2>2. Pnl(pos, exit) = v * (p * (S - L) - x)
    BY <1>1, <1>2, <1>4, <2>1 DEF Pnl
  <2>3. Gain(Trade(pos, exit)) = v * (p * S - x - 2 * (p * L))
    BY <1>1, <1>2, <1>4 DEF Gain, Trade
  <2>4. (p * (S - L)) * v + v * (p * (S - L) - x) = v * (p * S - x - 2 * (p * L)) + p * S * v
    OBVIOUS
  <2>. QED
    BY <1>1, <1>2, <2>1, <2>2, <2>3, <2>4
<1>. QED
  BY <1>3, <1>4

(* A position that is closed between its levels, or at one of them, is     *)
(* within what they allow.                                                 *)
LEMMA BetweenLevels ==
  ASSUME NEW pos \in Position, NEW exit \in Money, Sided(pos),
         \/ exit \in {pos.stop, pos.target, pos.entry}
         \/ ~ Stopped(pos, exit) /\ ~ Reached(pos, exit)
  PROVE  Pnl(pos, pos.stop) <= Pnl(pos, exit) /\ Pnl(pos, exit) <= Pnl(pos, pos.target)
<1>1. /\ pos.volume \in Nat /\ pos.entry \in Int /\ pos.stop \in Int /\ pos.target \in Int /\ exit \in Int
  BY DEF Position, Money
<1>2. CASE pos.side = "buy"
  <2>1. pos.stop <= exit /\ exit <= pos.target
    BY <1>1, <1>2 DEF Sided, Stopped, Reached
  <2>2. pos.stop - pos.entry <= exit - pos.entry /\ exit - pos.entry <= pos.target - pos.entry
    BY <1>1, <2>1
  <2>3. /\ pos.volume * (pos.stop - pos.entry) <= pos.volume * (exit - pos.entry)
        /\ pos.volume * (exit - pos.entry) <= pos.volume * (pos.target - pos.entry)
    BY <1>1, <2>2, TimesIsMonotone
  <2>. QED
    BY <1>2, <2>3 DEF Pnl
<1>3. CASE pos.side # "buy"
  <2>1. pos.target <= exit /\ exit <= pos.stop
    BY <1>1, <1>3 DEF Sided, Stopped, Reached
  <2>2. pos.entry - pos.stop <= pos.entry - exit /\ pos.entry - exit <= pos.entry - pos.target
    BY <1>1, <2>1
  <2>3. /\ pos.volume * (pos.entry - pos.stop) <= pos.volume * (pos.entry - exit)
        /\ pos.volume * (pos.entry - exit) <= pos.volume * (pos.entry - pos.target)
    BY <1>1, <2>2, TimesIsMonotone
  <2>. QED
    BY <1>3, <2>3 DEF Pnl
<1>. QED
  BY <1>2, <1>3

-----------------------------------------------------------------------------
(* Totals of the account                                                   *)

\* What positions cost, and what trades bring.
Costs(P) == Total([pos \in P |-> pos.price * Scale * pos.volume])
Gains(T) == Total([t \in T |-> Gain(t)])

(* A total of integers is one.                                             *)
LEMMA TotalType ==
  ASSUME NEW D, IsFiniteSet(D), NEW f \in [D -> Int]
  PROVE  Total(f) \in Int
<1>1. Over(f, D) = Total(f) /\ \A S \in SUBSET D : Over(f, S) \in Int
  BY OverFacts
<1>. QED
  BY <1>1

(* What a set of positions costs, by parts.                                *)
LEMMA CostsOfParts ==
  ASSUME NEW P, P \subseteq Position, IsFiniteSet(P), NEW A, A \subseteq P
  PROVE  /\ Costs(P) \in Int /\ Costs(A) \in Int /\ Costs(P \ A) \in Int /\ Costs({}) = 0
         /\ Costs(P) = Costs(A) + Costs(P \ A)
<1>1. PICK f : f = [pos \in P |-> pos.price * Scale * pos.volume]
  OBVIOUS
<1>2. \A pos \in P : pos.price * Scale * pos.volume \in Int
  BY ScaleIsPositive DEF Position
<1>3. f \in [P -> Int]
  BY <1>1, <1>2
<1>4. Over(f, A) = Costs(A) /\ Over(f, P \ A) = Costs(P \ A) /\ Over(f, {}) = Costs({}) /\ Over(f, P) = Costs(P)
  <2>1. [x \in A |-> f[x]] = [pos \in A |-> pos.price * Scale * pos.volume]
    BY <1>1
  <2>2. [x \in P \ A |-> f[x]] = [pos \in P \ A |-> pos.price * Scale * pos.volume]
    BY <1>1
  <2>3. [x \in {} |-> f[x]] = [pos \in {} |-> pos.price * Scale * pos.volume]
    OBVIOUS
  <2>4. [x \in P |-> f[x]] = [pos \in P |-> pos.price * Scale * pos.volume]
    BY <1>1
  <2>. QED
    BY <2>1, <2>2, <2>3, <2>4 DEF Over, Costs
<1>5. Over(f, P) = Total(f) /\ Over(f, {}) = 0 /\ \A S \in SUBSET P : Over(f, S) \in Int
  BY <1>3, OverFacts
<1>6. A \in SUBSET P /\ P \ A \in SUBSET P /\ P \in SUBSET P
  OBVIOUS
<1>7. Total(f) = Over(f, A) + Over(f, P \ A)
  BY <1>3, <1>6, TotalOfParts
<1>. QED
  BY <1>4, <1>5, <1>6, <1>7

\* Trades of positions, with a price and what it brought.
TradeTypes(T) == \A t \in T : t.position \in Position /\ t.exit \in Money /\ t.pnl \in Money

LEMMA GainType ==
  ASSUME NEW t, t.position \in Position, t.exit \in Money
  PROVE  Gain(t) \in Int
<1>1. /\ t.position.volume \in Nat /\ t.position.price \in Nat /\ t.exit \in Int
  BY DEF Position, Money
<1>2. Scale \in Int /\ Slippage \in Int
  BY ScaleIsPositive
<1>. QED
  BY <1>1, <1>2 DEF Gain

(* What a set of trades brings, by parts.                                  *)
LEMMA GainsOfParts ==
  ASSUME NEW T, TradeTypes(T), IsFiniteSet(T), NEW A, A \subseteq T
  PROVE  /\ Gains(T) \in Int /\ Gains(A) \in Int /\ Gains(T \ A) \in Int /\ Gains({}) = 0
         /\ Gains(T) = Gains(A) + Gains(T \ A)
<1>1. PICK f : f = [t \in T |-> Gain(t)]
  OBVIOUS
<1>2. \A t \in T : Gain(t) \in Int
  BY GainType DEF TradeTypes
<1>3. f \in [T -> Int]
  BY <1>1, <1>2
<1>4. Over(f, A) = Gains(A) /\ Over(f, T \ A) = Gains(T \ A) /\ Over(f, {}) = Gains({}) /\ Over(f, T) = Gains(T)
  <2>1. [x \in A |-> f[x]] = [t \in A |-> Gain(t)]
    BY <1>1
  <2>2. [x \in T \ A |-> f[x]] = [t \in T \ A |-> Gain(t)]
    BY <1>1
  <2>3. [x \in {} |-> f[x]] = [t \in {} |-> Gain(t)]
    OBVIOUS
  <2>4. [x \in T |-> f[x]] = [t \in T |-> Gain(t)]
    BY <1>1
  <2>. QED
    BY <2>1, <2>2, <2>3, <2>4 DEF Over, Gains
<1>5. Over(f, T) = Total(f) /\ Over(f, {}) = 0 /\ \A S \in SUBSET T : Over(f, S) \in Int
  BY <1>3, OverFacts
<1>6. A \in SUBSET T /\ T \ A \in SUBSET T /\ T \in SUBSET T
  OBVIOUS
<1>7. Total(f) = Over(f, A) + Over(f, T \ A)
  BY <1>3, <1>6, TotalOfParts
<1>. QED
  BY <1>4, <1>5, <1>6, <1>7

-----------------------------------------------------------------------------
(* Closing                                                                 *)

\* The trades of hit at the prices exit, and what is paid back for them.
Closed(hit, exit)   == {Trade(pos, exit[pos]) : pos \in hit}
Returned(hit, exit) == Total([pos \in hit |-> pos.entry * pos.volume + Pnl(pos, exit[pos])])

\* Filled at the price that follows from the one that was asked.
FilledAsAsked(P) == \A pos \in P : pos.entry = Filled(pos.price, pos.side)

LEMMA ClosedTrades ==
  ASSUME NEW hit, hit \subseteq Position, IsFiniteSet(hit), NEW exit \in [hit -> Money]
  PROVE  /\ TradeTypes(Closed(hit, exit)) /\ IsFiniteSet(Closed(hit, exit))
         /\ Cardinality(Closed(hit, exit)) = Cardinality(hit)
         /\ Gains(Closed(hit, exit)) = Total([pos \in hit |-> Gain(Trade(pos, exit[pos]))])
<1>1. PICK C : C = Closed(hit, exit)
  OBVIOUS
<1>2. \A pos \in hit : pos \in Position /\ exit[pos] \in Money /\ Pnl(pos, exit[pos]) \in Money
  BY MoneyTypes
<1>3. TradeTypes(C)
  BY <1>1, <1>2 DEF Closed, TradeTypes, Trade
<1>4. PICK h : h = [pos \in hit |-> Trade(pos, exit[pos])]
  OBVIOUS
<1>5. h \in [hit -> C] /\ \A t \in C : \E pos \in hit : t = h[pos]
  BY <1>1, <1>4 DEF Closed
<1>6. \A pos, other \in hit : h[pos] = h[other] => pos = other
  BY <1>4 DEF Trade
<1>7. PICK f : f = [t \in C |-> Gain(t)]
  OBVIOUS
<1>8. f \in [C -> Int]
  BY <1>3, <1>7, GainType DEF TradeTypes
<1>9. PICK e : e = [pos \in hit |-> Gain(Trade(pos, exit[pos]))]
  OBVIOUS
<1>10. e \in [hit -> Int]
  BY <1>2, <1>9, MoneyTypes DEF Money
<1>11. \A pos \in hit : e[pos] = f[h[pos]]
  <2>1. SUFFICES ASSUME NEW pos \in hit PROVE e[pos] = f[h[pos]]
    OBVIOUS
  <2>2. h[pos] \in C /\ h[pos] = Trade(pos, exit[pos])
    BY <1>4, <1>5
  <2>3. f[h[pos]] = Gain(h[pos])
    BY <1>7, <2>2
  <2>. QED
    BY <1>9, <2>2, <2>3
<1>12. IsFiniteSet(C) /\ Cardinality(C) = Cardinality(hit) /\ Total(e) = Total(f)
  <2>1. Renames(h, hit, C)
    BY <1>5, <1>6 DEF Renames
  <2>2. ValuesOfNames(e, f, h, hit)
    BY <1>11 DEF ValuesOfNames
  <2>. QED
    BY <1>8, <1>10, <2>1, <2>2, TotalRenamed
<1>13. Total(f) = Gains(C)
  BY <1>7 DEF Gains
<1>. QED
  BY <1>1, <1>3, <1>9, <1>12, <1>13

LEMMA ReturnedIsExplained ==
  ASSUME NEW hit, hit \subseteq Position, IsFiniteSet(hit), NEW exit \in [hit -> Money], FilledAsAsked(hit)
  PROVE  Returned(hit, exit) = Gains(Closed(hit, exit)) + Costs(hit)
<1>1. PICK r, e, c : /\ r = [pos \in hit |-> pos.entry * pos.volume + Pnl(pos, exit[pos])]
                     /\ e = [pos \in hit |-> Gain(Trade(pos, exit[pos]))]
                     /\ c = [pos \in hit |-> pos.price * Scale * pos.volume]
  OBVIOUS
<1>2. \A pos \in hit : pos \in Position /\ exit[pos] \in Money /\ pos.entry = Filled(pos.price, pos.side)
  BY DEF FilledAsAsked
<1>3. \A pos \in hit : pos.entry * pos.volume + Pnl(pos, exit[pos]) \in Int
  BY <1>2, MoneyTypes DEF Money
<1>4. \A pos \in hit : Gain(Trade(pos, exit[pos])) \in Int
  BY <1>2, MoneyTypes DEF Money
<1>5. \A pos \in hit : pos.price * Scale * pos.volume \in Int
  BY <1>2, MoneyTypes DEF Money
<1>6. r \in [hit -> Int]
  BY <1>1, <1>3
<1>7. e \in [hit -> Int]
  BY <1>1, <1>4
<1>8. c \in [hit -> Int]
  BY <1>1, <1>5
<1>9. \A pos \in hit : r[pos] = e[pos] + c[pos]
  <2>1. SUFFICES ASSUME NEW pos \in hit PROVE r[pos] = e[pos] + c[pos]
    OBVIOUS
  <2>2. pos.entry * pos.volume + Pnl(pos, exit[pos]) = Gain(Trade(pos, exit[pos])) + pos.price * Scale * pos.volume
    BY <1>2, RoundTrip
  <2>. QED
    BY <1>1, <2>2
<1>10. Total(r) = Total(e) + Total(c)
  BY <1>6, <1>7, <1>8, <1>9, TotalOfSums
<1>11. Total(e) = Gains(Closed(hit, exit))
  BY <1>1, ClosedTrades
<1>. QED
  BY <1>1, <1>10, <1>11 DEF Returned, Costs

\* Positions and trades are numbered apart, below how many there are.
NumberedApart(P, T) ==
  /\ IsFiniteSet(P) /\ IsFiniteSet(T)
  /\ \A pos \in P : pos.id < Cardinality(P) + Cardinality(T)
  /\ \A t \in T : t.position.id < Cardinality(P) + Cardinality(T)
  /\ \A pos, other \in P : pos.id = other.id => pos = other
  /\ \A pos \in P, t \in T : pos.id # t.position.id

(* Closing some positions adds as many trades, and its money is explained  *)
(* by them.                                                                *)
LEMMA ClosingIsExplained ==
  ASSUME NEW P, P \subseteq Position, NEW T, TradeTypes(T), NumberedApart(P, T), FilledAsAsked(P),
         NEW hit, hit \subseteq P, NEW exit \in [hit -> Money]
  PROVE  /\ NumberedApart(P \ hit, T \cup Closed(hit, exit))
         /\ TradeTypes(T \cup Closed(hit, exit))
         /\ Returned(hit, exit) \in Int
         /\ Returned(hit, exit) - Gains(T \cup Closed(hit, exit)) + Costs(P \ hit) = Costs(P) - Gains(T)
<1>1. PICK C, N, Q : C = Closed(hit, exit) /\ N = T \cup C /\ Q = P \ hit
  OBVIOUS
<1>2. hit \subseteq Position /\ FilledAsAsked(hit)
  BY DEF FilledAsAsked
<1>3. IsFiniteSet(P) /\ IsFiniteSet(T)
  BY DEF NumberedApart
<1>4. IsFiniteSet(hit)
  BY <1>3, FS_Subset
<1>5. TradeTypes(C) /\ IsFiniteSet(C) /\ Cardinality(C) = Cardinality(hit)
  BY <1>1, <1>2, <1>4, ClosedTrades
<1>6. \A t \in C : \E pos \in hit : t.position = pos
  BY <1>1 DEF Closed, Trade
<1>7. T \cap C = {} /\ N \ T = C /\ T \subseteq N
  <2>1. ASSUME NEW t \in T, t \in C PROVE FALSE
    <3>1. PICK pos \in hit : t.position = pos
      BY <1>6, <2>1
    <3>. QED
      BY <2>1, <3>1 DEF NumberedApart
  <2>. QED
    BY <1>1, <2>1
<1>8. TradeTypes(N)
  BY <1>1, <1>5 DEF TradeTypes
<1>9. IsFiniteSet(N)
  BY <1>1, <1>3, <1>5, FS_Union
<1>10. Cardinality(N) = Cardinality(T) + Cardinality(C)
  <2>1. Cardinality(T \cup C) = Cardinality(T) + Cardinality(C) - Cardinality(T \cap C)
    BY <1>3, <1>5, FS_Union
  <2>2. Cardinality({}) = 0
    BY FS_EmptySet
  <2>3. Cardinality(T) \in Nat /\ Cardinality(C) \in Nat
    BY <1>3, <1>5, FS_CardinalityType
  <2>4. Cardinality(T \cup C) = Cardinality(N) /\ Cardinality(T \cap C) = Cardinality({})
    BY <1>1, <1>7
  <2>. QED
    BY <2>1, <2>2, <2>3, <2>4
<1>11. IsFiniteSet(Q)
  BY <1>1, <1>3, FS_Difference
<1>12. Cardinality(P) = Cardinality(Q) + Cardinality(hit)
  <2>1. P = Q \cup hit /\ Q \cap hit = {}
    BY <1>1
  <2>2. Cardinality(Q \cup hit) = Cardinality(Q) + Cardinality(hit) - Cardinality(Q \cap hit)
    BY <1>4, <1>11, FS_Union
  <2>3. Cardinality({}) = 0
    BY FS_EmptySet
  <2>4. Cardinality(Q) \in Nat /\ Cardinality(hit) \in Nat
    BY <1>4, <1>11, FS_CardinalityType
  <2>5. Cardinality(Q \cup hit) = Cardinality(P) /\ Cardinality(Q \cap hit) = Cardinality({})
    BY <2>1
  <2>. QED
    BY <2>2, <2>3, <2>4, <2>5
<1>13. Cardinality(Q) + Cardinality(N) = Cardinality(P) + Cardinality(T)
  <2>1. /\ Cardinality(Q) \in Nat /\ Cardinality(N) \in Nat /\ Cardinality(hit) \in Nat
        /\ Cardinality(P) \in Nat /\ Cardinality(T) \in Nat
    BY <1>3, <1>4, <1>9, <1>11, FS_CardinalityType
  <2>. QED
    BY <1>5, <1>10, <1>12, <2>1
<1>14. NumberedApart(Q, N)
  <2>1. \A pos \in Q : pos.id < Cardinality(Q) + Cardinality(N)
    BY <1>1, <1>13 DEF NumberedApart
  <2>2. \A t \in N : t.position.id < Cardinality(Q) + Cardinality(N)
    BY <1>1, <1>6, <1>13 DEF NumberedApart
  <2>3. \A pos, other \in Q : pos.id = other.id => pos = other
    BY <1>1 DEF NumberedApart
  <2>4. \A pos \in Q, t \in N : pos.id # t.position.id
    <3>1. SUFFICES ASSUME NEW pos \in Q, NEW t \in N, pos.id = t.position.id PROVE FALSE
      OBVIOUS
    <3>2. CASE t \in T
      BY <1>1, <3>1, <3>2 DEF NumberedApart
    <3>3. CASE t \in C
      <4>1. PICK other \in hit : t.position = other
        BY <1>6, <3>3
      <4>. QED
        BY <1>1, <3>1, <4>1 DEF NumberedApart
    <3>. QED
      BY <1>1, <3>2, <3>3
  <2>. QED
    BY <1>9, <1>11, <2>1, <2>2, <2>3, <2>4 DEF NumberedApart
<1>15. Returned(hit, exit) = Gains(C) + Costs(hit)
  BY <1>1, <1>2, <1>4, ReturnedIsExplained
<1>16. Gains(N) = Gains(T) + Gains(C) /\ Gains(T) \in Int /\ Gains(C) \in Int
  BY <1>7, <1>8, <1>9, GainsOfParts
<1>17. Costs(P) = Costs(hit) + Costs(Q) /\ Costs(hit) \in Int /\ Costs(Q) \in Int
  BY <1>1, <1>3, CostsOfParts
<1>18. Returned(hit, exit) \in Int /\ Returned(hit, exit) - Gains(N) + Costs(Q) = Costs(P) - Gains(T)
  BY <1>15, <1>16, <1>17
<1>. QED
  BY <1>1, <1>8, <1>14, <1>18

-----------------------------------------------------------------------------
(* Marking and opening                                                     *)

\* A position after a candle that closes at now.
Seen(pos, now) == [pos EXCEPT !.current = now, !.marked = TRUE]

LEMMA SeenTypes ==
  ASSUME NEW pos \in Position, NEW now \in Money
  PROVE  /\ Seen(pos, now) \in Position
         /\ Seen(pos, now).id = pos.id /\ Seen(pos, now).side = pos.side /\ Seen(pos, now).volume = pos.volume
         /\ Seen(pos, now).price = pos.price /\ Seen(pos, now).entry = pos.entry
         /\ Seen(pos, now).stop = pos.stop /\ Seen(pos, now).target = pos.target
         /\ Seen(pos, now).current = now /\ Seen(pos, now).marked = TRUE
BY DEF Seen, Position

(* Candles change neither how many positions there are nor what they cost. *)
LEMMA MarkingKeeps ==
  ASSUME NEW P, P \subseteq Position, NEW T, NumberedApart(P, T), FilledAsAsked(P), NEW now \in Money,
         NEW M, M = {Seen(pos, now) : pos \in P}
  PROVE  /\ M \subseteq Position /\ NumberedApart(M, T) /\ FilledAsAsked(M)
         /\ Costs(M) = Costs(P)
<1>1. /\ \A pos \in P : Seen(pos, now) \in M /\ Seen(pos, now) \in Position
      /\ \A pos \in P : Seen(pos, now).id = pos.id /\ Seen(pos, now).side = pos.side
      /\ \A pos \in P : Seen(pos, now).price = pos.price /\ Seen(pos, now).entry = pos.entry
      /\ \A pos \in P : Seen(pos, now).volume = pos.volume
  BY SeenTypes
<1>2. \A m \in M : \E pos \in P : m = Seen(pos, now)
  OBVIOUS
<1>3. M \subseteq Position
  BY <1>1, <1>2
<1>4. PICK h : h = [pos \in P |-> Seen(pos, now)]
  OBVIOUS
<1>5. \A pos, other \in P : Seen(pos, now) = Seen(other, now) => pos = other
  <2>1. SUFFICES ASSUME NEW pos \in P, NEW other \in P, Seen(pos, now) = Seen(other, now) PROVE pos = other
    OBVIOUS
  <2>2. pos.id = other.id
    BY <1>1, <2>1
  <2>. QED
    BY <2>2 DEF NumberedApart
<1>6. Renames(h, P, M)
  <2>1. h \in [P -> M]
    BY <1>1, <1>4
  <2>2. \A m \in M : \E pos \in P : m = h[pos]
    BY <1>2, <1>4
  <2>3. \A pos, other \in P : h[pos] = h[other] => pos = other
    BY <1>4, <1>5
  <2>. QED
    BY <2>1, <2>2, <2>3 DEF Renames
<1>7. PICK e, f : /\ e = [pos \in P |-> pos.price * Scale * pos.volume]
                  /\ f = [pos \in M |-> pos.price * Scale * pos.volume]
  OBVIOUS
<1>8. e \in [P -> Int]
  <2>1. \A pos \in P : pos.price * Scale * pos.volume \in Int
    BY ScaleIsPositive DEF Position
  <2>. QED
    BY <1>7, <2>1
<1>9. f \in [M -> Int]
  <2>1. \A pos \in M : pos.price * Scale * pos.volume \in Int
    BY <1>3, ScaleIsPositive DEF Position
  <2>. QED
    BY <1>7, <2>1
<1>10. ValuesOfNames(e, f, h, P)
  <2>1. ASSUME NEW pos \in P PROVE e[pos] = f[h[pos]]
    <3>1. PICK m : m = Seen(pos, now)
      OBVIOUS
    <3>2. m \in M /\ h[pos] = m /\ m.price = pos.price /\ m.volume = pos.volume
      BY <1>1, <1>4, <3>1
    <3>3. f[m] = m.price * Scale * m.volume
      BY <1>7, <3>2
    <3>. QED
      BY <1>7, <3>2, <3>3
  <2>. QED
    BY <2>1 DEF ValuesOfNames
<1>11. IsFiniteSet(P) /\ IsFiniteSet(T)
  BY DEF NumberedApart
<1>12. IsFiniteSet(M) /\ Cardinality(M) = Cardinality(P) /\ Total(e) = Total(f)
  BY <1>6, <1>8, <1>9, <1>10, <1>11, TotalRenamed
<1>13. Costs(M) = Costs(P)
  BY <1>7, <1>12 DEF Costs
<1>14. \A m \in M : m.id < Cardinality(M) + Cardinality(T)
  BY <1>1, <1>2, <1>12 DEF NumberedApart
<1>15. \A t \in T : t.position.id < Cardinality(M) + Cardinality(T)
  BY <1>12 DEF NumberedApart
<1>16. \A m, n \in M : m.id = n.id => m = n
  <2>1. SUFFICES ASSUME NEW m \in M, NEW n \in M, m.id = n.id PROVE m = n
    OBVIOUS
  <2>2. PICK pos \in P, other \in P : m = Seen(pos, now) /\ n = Seen(other, now)
    BY <1>2
  <2>3. pos.id = other.id
    BY <1>1, <2>1, <2>2
  <2>4. pos = other
    BY <2>3 DEF NumberedApart
  <2>. QED
    BY <2>2, <2>4
<1>17. \A m \in M, t \in T : m.id # t.position.id
  <2>1. SUFFICES ASSUME NEW m \in M, NEW t \in T PROVE m.id # t.position.id
    OBVIOUS
  <2>2. PICK pos \in P : m = Seen(pos, now)
    BY <1>2
  <2>. QED
    BY <1>1, <2>2 DEF NumberedApart
<1>18. NumberedApart(M, T)
  BY <1>11, <1>12, <1>14, <1>15, <1>16, <1>17 DEF NumberedApart
<1>19. FilledAsAsked(M)
  <2>1. SUFFICES ASSUME NEW m \in M PROVE m.entry = Filled(m.price, m.side)
    BY DEF FilledAsAsked
  <2>2. PICK pos \in P : m = Seen(pos, now)
    BY <1>2
  <2>3. pos.entry = Filled(pos.price, pos.side)
    BY DEF FilledAsAsked
  <2>. QED
    BY <1>1, <2>2, <2>3
<1>. QED
  BY <1>3, <1>13, <1>18, <1>19

(* A new position costs what was asked, and takes the next number.         *)
LEMMA OpeningCosts ==
  ASSUME NEW P, P \subseteq Position, NEW T, TradeTypes(T), NumberedApart(P, T), FilledAsAsked(P),
         NEW new \in Position, new.id = Cardinality(P) + Cardinality(T), new.entry = Filled(new.price, new.side)
  PROVE  /\ NumberedApart(P \cup {new}, T) /\ FilledAsAsked(P \cup {new})
         /\ Costs(P \cup {new}) = Costs(P) + new.price * Scale * new.volume
<1>1. PICK Q, A, c : Q = P \cup {new} /\ A = {new} /\ c = new.price * Scale * new.volume
  OBVIOUS
<1>2. IsFiniteSet(P) /\ IsFiniteSet(T)
  BY DEF NumberedApart
<1>3. Cardinality(P) \in Nat /\ Cardinality(T) \in Nat
  BY <1>2, FS_CardinalityType
<1>4. \A pos \in P : pos.id \in Nat /\ pos.id < new.id
  BY DEF NumberedApart, Position
<1>5. new \notin P
  BY <1>3, <1>4
<1>6. IsFiniteSet(P \cup {new}) /\ Cardinality(P \cup {new}) = Cardinality(P) + 1
  BY <1>2, <1>5, FS_AddElement
<1>7. IsFiniteSet(Q) /\ Cardinality(Q) = Cardinality(P) + 1
  BY <1>1, <1>6
<1>8. Q \subseteq Position /\ A \subseteq Q /\ Q \ A = P
  BY <1>1, <1>5
<1>9. /\ Costs(Q) \in Int /\ Costs(A) \in Int /\ Costs(P) \in Int
      /\ Costs(Q) = Costs(A) + Costs(P)
  BY <1>7, <1>8, CostsOfParts
<1>10. Costs(A) = c
  <2>1. PICK f : f = [pos \in A |-> pos.price * Scale * pos.volume]
    OBVIOUS
  <2>2. IsFiniteSet(A)
    BY <1>7, <1>8, FS_Subset
  <2>3. c \in Int
    BY <1>1, ScaleIsPositive DEF Position
  <2>4. f[new] = c /\ f \in [A -> Int]
    BY <1>1, <2>1, <2>3
  <2>5. Over(f, A) = Total(f) /\ Over(f, {}) = 0 /\ OverOneMore(f, A)
    BY <2>2, <2>4, OverFacts
  <2>6. A \in SUBSET A /\ new \in A /\ A \ {new} = {}
    BY <1>1
  <2>7. Over(f, A) = f[new] + Over(f, A \ {new})
    BY <2>5, <2>6 DEF OverOneMore
  <2>8. Over(f, A) = f[new] + Over(f, {})
    BY <2>6, <2>7
  <2>9. Total(f) = c
    BY <2>3, <2>4, <2>5, <2>8
  <2>. QED
    BY <2>1, <2>9 DEF Costs
<1>11. NumberedApart(Q, T)
  <2>1. \A pos \in Q : pos.id < Cardinality(Q) + Cardinality(T)
    BY <1>1, <1>3, <1>4, <1>7
  <2>2. \A t \in T : t.position.id # new.id /\ t.position.id < Cardinality(Q) + Cardinality(T)
    <3>1. SUFFICES ASSUME NEW t \in T
                   PROVE  t.position.id # new.id /\ t.position.id < Cardinality(Q) + Cardinality(T)
      OBVIOUS
    <3>2. t.position.id < Cardinality(P) + Cardinality(T)
      BY DEF NumberedApart
    <3>3. t.position.id \in Nat
      BY DEF TradeTypes, Position
    <3>. QED
      BY <1>3, <1>7, <3>2, <3>3
  <2>3. \A pos, other \in Q : pos.id = other.id => pos = other
    BY <1>1, <1>4 DEF NumberedApart
  <2>4. \A pos \in Q, t \in T : pos.id # t.position.id
    BY <1>1, <2>2 DEF NumberedApart
  <2>. QED
    BY <1>2, <1>7, <2>1, <2>2, <2>3, <2>4 DEF NumberedApart
<1>12. FilledAsAsked(Q)
  BY <1>1 DEF FilledAsAsked
<1>. QED
  BY <1>1, <1>9, <1>10, <1>11, <1>12

-----------------------------------------------------------------------------
(* The inductive invariant                                                 *)

\* An open position is priced at the last candle, and kept only between its levels;
\* until it has seen one it is priced at what it was filled at.
PricedRight(pos, now) ==
  IF pos.marked THEN pos.current = now /\ ~ Stopped(pos, now) /\ ~ Reached(pos, now)
                ELSE pos.current = pos.entry

\* A trade of a position with both levels where they belong is within them.
KeptToLevels(t) ==
  Sided(t.position) => /\ Pnl(t.position, t.position.stop) <= t.pnl
                       /\ t.pnl <= Pnl(t.position, t.position.target)

\* The account: money, and what it is explained by.
Balanced(money, P, T) == money = InitialBalance * Scale + Gains(T) - Costs(P)

PaperInv ==
  /\ PaperTypeOK
  /\ NumberedApart(positions, trades)
  /\ FilledAsAsked(positions)
  /\ \A pos \in positions : PricedRight(pos, close * Scale)
  /\ \A t \in trades : KeptToLevels(t)
  /\ Balanced(cash, positions, trades)
  /\ stage = "finished" => positions = {}

LEMMA PaperInvInit == PaperInit => PaperInv
<1>. SUFFICES ASSUME PaperInit PROVE PaperInv
  OBVIOUS
<1>1. positions = {} /\ trades = {} /\ cash = InitialBalance * Scale /\ stage = "bar"
  BY DEF PaperInit
<1>2. InitialBalance * Scale \in Int
  BY ScaleIsPositive
<1>3. PaperTypeOK
  <2>1. 0 \in 0..MaxBars
    BY PaperAssumption
  <2>. QED
    BY <1>1, <1>2, <2>1 DEF PaperInit, PaperTypeOK, Money
<1>4. IsFiniteSet(positions) /\ IsFiniteSet(trades)
  BY <1>1, FS_EmptySet
<1>5. Costs(positions) = 0
  <2>1. positions \subseteq Position /\ positions \subseteq positions
    BY <1>1
  <2>2. Costs({}) = 0
    BY <1>4, <2>1, CostsOfParts
  <2>. QED
    BY <1>1, <2>2
<1>6. Gains(trades) = 0
  <2>1. TradeTypes(trades) /\ trades \subseteq trades
    BY <1>1 DEF TradeTypes
  <2>2. Gains({}) = 0
    BY <1>4, <2>1, GainsOfParts
  <2>. QED
    BY <1>1, <2>2
<1>7. NumberedApart(positions, trades) /\ FilledAsAsked(positions)
  BY <1>1, <1>4 DEF NumberedApart, FilledAsAsked
<1>8. Balanced(cash, positions, trades)
  BY <1>1, <1>2, <1>5, <1>6 DEF Balanced
<1>. QED
  BY <1>1, <1>3, <1>7, <1>8 DEF PaperInv

(* What both ways to close have in common: P are the positions as they are *)
(* looked at, hit is what is closed of them.                               *)
LEMMA ClosingKeeps ==
  ASSUME PaperInv, NEW P, P \subseteq Position, NumberedApart(P, trades), FilledAsAsked(P),
         Costs(P) = Costs(positions), NEW hit, hit \subseteq P, NEW exit \in [hit -> Money],
         positions' = P \ hit, ClosePositions(exit),
         \A pos \in hit : Sided(pos) => \/ exit[pos] \in {pos.stop, pos.target, pos.entry}
                                        \/ ~ Stopped(pos, exit[pos]) /\ ~ Reached(pos, exit[pos])
  PROVE  /\ positions' \subseteq Position /\ FilledAsAsked(positions')
         /\ NumberedApart(positions', trades') /\ TradeTypes(trades') /\ cash' \in Money
         /\ Balanced(cash', positions', trades')
         /\ \A t \in trades' : KeptToLevels(t)
<1>1. TradeTypes(trades) /\ cash \in Int /\ Balanced(cash, positions, trades)
  BY DEF PaperInv, PaperTypeOK, TradeTypes, Money
<1>2. DOMAIN exit = hit
  OBVIOUS
<1>3. trades' = trades \cup Closed(hit, exit) /\ cash' = cash + Returned(hit, exit)
  BY <1>2 DEF ClosePositions, Closed, Returned
<1>4. PICK Q, N, T : Q = P \ hit /\ N = trades \cup Closed(hit, exit) /\ T = trades
  OBVIOUS
<1>5. /\ NumberedApart(Q, N) /\ TradeTypes(N) /\ Returned(hit, exit) \in Int
      /\ Returned(hit, exit) - Gains(N) + Costs(Q) = Costs(P) - Gains(T)
  BY <1>1, <1>4, ClosingIsExplained
<1>6. Q \subseteq Position /\ FilledAsAsked(Q)
  BY <1>4 DEF FilledAsAsked
<1>7. /\ Gains(N) \in Int /\ Gains(T) \in Int
  <2>1. IsFiniteSet(N) /\ IsFiniteSet(T)
    BY <1>4, <1>5 DEF NumberedApart
  <2>2. N \subseteq N /\ T \subseteq T /\ TradeTypes(T)
    BY <1>1, <1>4
  <2>3. Gains(N) \in Int
    BY <1>5, <2>1, <2>2, GainsOfParts
  <2>4. Gains(T) \in Int
    BY <2>1, <2>2, GainsOfParts
  <2>. QED
    BY <2>3, <2>4
<1>8. Costs(P) \in Int /\ Costs(Q) \in Int
  <2>1. IsFiniteSet(P)
    BY DEF NumberedApart
  <2>2. Costs(P) \in Int /\ Costs(P \ hit) \in Int
    BY <2>1, CostsOfParts
  <2>. QED
    BY <1>4, <2>2
<1>9. InitialBalance * Scale \in Int
  BY ScaleIsPositive
<1>10. cash = InitialBalance * Scale + Gains(T) - Costs(P)
  BY <1>1, <1>4 DEF Balanced
<1>11. cash + Returned(hit, exit) = InitialBalance * Scale + Gains(N) - Costs(Q)
  BY <1>1, <1>5, <1>7, <1>8, <1>9, <1>10
<1>12. cash + Returned(hit, exit) \in Int
  BY <1>1, <1>5
<1>13. ASSUME NEW t \in N PROVE KeptToLevels(t)
  <2>1. CASE t \in trades
    BY <2>1 DEF PaperInv
  <2>2. CASE t \notin trades
    <3>1. PICK pos \in hit : t = Trade(pos, exit[pos])
      BY <1>4, <2>2 DEF Closed
    <3>2. t.position = pos /\ t.pnl = Pnl(pos, exit[pos])
      BY <3>1 DEF Trade
    <3>3. pos \in Position /\ exit[pos] \in Money
      OBVIOUS
    <3>4. Sided(pos) => Pnl(pos, pos.stop) <= Pnl(pos, exit[pos]) /\ Pnl(pos, exit[pos]) <= Pnl(pos, pos.target)
      BY <3>3, BetweenLevels
    <3>. QED
      BY <3>2, <3>4 DEF KeptToLevels
  <2>. QED
    BY <2>1, <2>2
<1>. QED
  BY <1>3, <1>4, <1>5, <1>6, <1>11, <1>12, <1>13 DEF Balanced, Money

\* What the broker is asked for, once the engine has changed it.
Orders == [side : Sides, volume : Int, price : Nat, stop : Int, target : Int]

LEMMA EquityType ==
  ASSUME PaperInv
  PROVE  Equity \in Int
<1>1. PICK f : f = [pos \in positions |-> Unrealized(pos)]
  OBVIOUS
<1>2. \A pos \in positions : Unrealized(pos) \in Int
  <2>1. \A pos \in positions : pos \in Position /\ pos.current \in Money
    BY DEF PaperInv, PaperTypeOK, Position
  <2>. QED
    BY <2>1, MoneyTypes DEF Money
<1>3. f \in [positions -> Int] /\ IsFiniteSet(positions)
  BY <1>1, <1>2 DEF PaperInv, NumberedApart
<1>4. Total(f) \in Int
  BY <1>3, TotalType
<1>. QED
  BY <1>1, <1>4 DEF Equity, PaperInv, PaperTypeOK, Money

LEMMA VolumeType ==
  ASSUME engine \in Engines \ {NoEngine}, NEW balance \in Int, NEW asked \in Nat
  PROVE  Volume(balance, asked) \in Int
<1>1. engine.volume \in Nat /\ engine.largest \in Nat
  BY PaperAssumption
<1>2. PICK n \in Int, d \in Nat : n = balance * engine.volume /\ d = 100 * Scale /\ d > 0
  BY <1>1, ScaleIsPositive
<1>3. HalfUp(n, d) \in Int
  BY <1>2 DEF HalfUp
<1>4. HalfUp(balance * engine.volume, 100 * Scale) \in Int
  BY <1>2, <1>3
<1>5. Min({engine.volume, engine.largest}) \in Int
  BY <1>1, LeastOfTwo
<1>6. Min({HalfUp(balance * engine.volume, 100 * Scale), engine.largest}) \in Int
  BY <1>1, <1>4, LeastOfTwo
<1>7. Min({asked, engine.largest}) \in Int
  BY <1>1, LeastOfTwo
<1>. QED
  BY <1>5, <1>6, <1>7 DEF Volume

LEMMA FilledType ==
  ASSUME NEW price \in Nat, NEW side
  PROVE  Filled(price, side) \in Int
BY ScaleIsPositive DEF Filled

(* An order keeps the invariant.                                           *)
LEMMA PlacingKeeps ==
  ASSUME PaperInv, NEW q \in Orders, PlaceOrder(q), stage = "order", stage' = "bar",
         UNCHANGED <<bar, close, trades, engine>>
  PROVE  PaperInv'
<1>1. PICK new : new = Opened(q)
  OBVIOUS
<1>2. /\ q.side \in Sides /\ q.volume \in Nat /\ q.price \in Nat /\ q.stop \in Int /\ q.target \in Int
  BY DEF Orders, PlaceOrder
<1>3. Filled(q.price, q.side) \in Int
  BY <1>2, FilledType
<1>4. Cardinality(positions) + Cardinality(trades) \in Nat
  <2>1. IsFiniteSet(positions) /\ IsFiniteSet(trades)
    BY DEF PaperInv, NumberedApart
  <2>2. Cardinality(positions) \in Nat /\ Cardinality(trades) \in Nat
    BY <2>1, FS_CardinalityType
  <2>. QED
    BY <2>2
<1>5. new \in Position
  BY <1>1, <1>2, <1>3, <1>4 DEF Opened, Position, Money
<1>6. /\ new.id = Cardinality(positions) + Cardinality(trades)
      /\ new.entry = Filled(new.price, new.side) /\ new.current = new.entry /\ new.marked = FALSE
      /\ new.price = q.price /\ new.volume = q.volume
  BY <1>1 DEF Opened
<1>7. positions' = positions \cup {new} /\ cash' = cash - q.price * Scale * q.volume
  BY <1>1 DEF PlaceOrder, Cost
<1>8. positions \subseteq Position /\ TradeTypes(trades) /\ cash \in Int
  BY DEF PaperInv, PaperTypeOK, TradeTypes, Money
<1>9. /\ NumberedApart(positions \cup {new}, trades) /\ FilledAsAsked(positions \cup {new})
      /\ Costs(positions \cup {new}) = Costs(positions) + new.price * Scale * new.volume
  BY <1>5, <1>6, <1>8, OpeningCosts DEF PaperInv
<1>10. q.price * Scale * q.volume \in Int
  BY <1>2, ScaleIsPositive
<1>11. Balanced(cash', positions', trades')
  <2>1. IsFiniteSet(positions) /\ IsFiniteSet(trades)
    BY DEF PaperInv, NumberedApart
  <2>2. Costs(positions) \in Int
    BY <1>8, <2>1, CostsOfParts
  <2>3. Gains(trades) \in Int
    BY <1>8, <2>1, GainsOfParts
  <2>4. InitialBalance * Scale \in Int
    BY ScaleIsPositive
  <2>5. cash = InitialBalance * Scale + Gains(trades) - Costs(positions)
    BY DEF PaperInv, Balanced
  <2>6. Costs(positions') = Costs(positions) + q.price * Scale * q.volume
    BY <1>6, <1>7, <1>9
  <2>7. cash' = InitialBalance * Scale + Gains(trades) - Costs(positions')
    BY <1>7, <1>8, <1>10, <2>2, <2>3, <2>4, <2>5, <2>6
  <2>. QED
    BY <2>7 DEF Balanced
<1>12. PaperTypeOK'
  <2>1. cash' \in Int
    BY <1>7, <1>8, <1>10
  <2>2. positions' \subseteq Position
    BY <1>5, <1>7, <1>8
  <2>. QED
    BY <2>1, <2>2 DEF PaperInv, PaperTypeOK, Money
<1>13. \A pos \in positions' : PricedRight(pos, close' * Scale)
  <2>1. PricedRight(new, close * Scale)
    BY <1>6 DEF PricedRight
  <2>. QED
    BY <1>7, <2>1 DEF PaperInv
<1>14. \A t \in trades' : KeptToLevels(t)
  BY DEF PaperInv
<1>15. NumberedApart(positions', trades') /\ FilledAsAsked(positions')
  BY <1>7, <1>9
<1>. QED
  BY <1>11, <1>12, <1>13, <1>14, <1>15 DEF PaperInv

LEMMA SubmitKeeps ==
  ASSUME PaperInv, NEW r \in Requests, Submit(r)
  PROVE  PaperInv'
<1>1. /\ r.side \in Sides /\ r.volume \in Nat /\ r.price \in Nat /\ r.stop \in Int /\ r.target \in Int
      /\ r \in [side : Sides, volume : Volumes, price : {close} \cup Asks,
                stop : Levels \cup {None}, target : Levels \cup {None}]
  BY PaperAssumption DEF Requests, PaperInv, PaperTypeOK, None
<1>2. stage = "order" /\ stage' = "bar" /\ UNCHANGED <<bar, close, trades, engine>>
  BY DEF Submit
<1>3. CASE engine = NoEngine
  <2>1. r \in Orders
    BY <1>1 DEF Orders
  <2>2. PlaceOrder(r)
    BY <1>3 DEF Submit
  <2>. QED
    BY <1>2, <2>1, <2>2, PlacingKeeps
<1>4. CASE engine # NoEngine
  <2>1. PICK volume : volume = Volume(Equity, r.volume)
    OBVIOUS
  <2>2. PlaceOrder(WithDefaults([r EXCEPT !.volume = volume]))
    BY <1>4, <2>1 DEF Submit
  <2>3. volume \in Int
    <3>1. Equity \in Int
      BY EquityType
    <3>2. engine \in Engines \ {NoEngine}
      BY <1>4 DEF PaperInv, PaperTypeOK
    <3>. QED
      BY <1>1, <2>1, <3>1, <3>2, VolumeType
  <2>4. PICK s : s = [r EXCEPT !.volume = volume]
    OBVIOUS
  <2>5. s \in Orders
    BY <1>1, <2>3, <2>4 DEF Orders
  <2>6. WithDefaults(s) \in Orders
    <3>1. s.price * (Scale - DefaultStop) \in Int /\ s.price * (Scale + DefaultTarget) \in Int
      BY <2>5, ScaleIsPositive DEF Orders
    <3>. QED
      BY <2>5, <3>1 DEF WithDefaults, Orders
  <2>. QED
    BY <1>2, <2>2, <2>4, <2>6, PlacingKeeps
<1>. QED
  BY <1>3, <1>4

(* A candle: every position is marked, and what it hits is closed.         *)
LEMMA NextBarKeeps ==
  ASSUME PaperInv, NEW price \in Prices, NextBar(price)
  PROVE  PaperInv'
<1>1. PICK now : now = price * Scale
  OBVIOUS
<1>2. now \in Money /\ close' = price /\ bar' = bar + 1 /\ stage' = "order"
  BY <1>1, PaperAssumption, ScaleIsPositive DEF NextBar, Money
<1>3. PICK M : M = {Seen(pos, now) : pos \in positions}
  OBVIOUS
<1>4. M = Marked(now)
  BY <1>3 DEF Marked, Seen
<1>5. PICK hit : hit = {pos \in M : Stopped(pos, now) \/ Reached(pos, now)}
  OBVIOUS
<1>6. PICK exit : exit = [pos \in hit |-> IF Stopped(pos, now) THEN pos.stop ELSE pos.target]
  OBVIOUS
<1>7. positions' = M \ hit /\ ClosePositions(exit)
  BY <1>1, <1>4, <1>5, <1>6 DEF NextBar, UpdatePositionPrices
<1>8. positions \subseteq Position /\ NumberedApart(positions, trades) /\ FilledAsAsked(positions)
  BY DEF PaperInv, PaperTypeOK
<1>9. M \subseteq Position /\ NumberedApart(M, trades) /\ FilledAsAsked(M) /\ Costs(M) = Costs(positions)
  BY <1>2, <1>3, <1>8, MarkingKeeps
<1>10. hit \subseteq M
  BY <1>5
<1>11. \A pos \in hit : pos.stop \in Money /\ pos.target \in Money
  BY <1>9, <1>10 DEF Position
<1>12. exit \in [hit -> Money]
  BY <1>6, <1>11
<1>13. \A pos \in hit : exit[pos] \in {pos.stop, pos.target, pos.entry}
  BY <1>6
<1>14. /\ positions' \subseteq Position /\ FilledAsAsked(positions')
       /\ NumberedApart(positions', trades') /\ TradeTypes(trades') /\ cash' \in Money
       /\ Balanced(cash', positions', trades')
       /\ \A t \in trades' : KeptToLevels(t)
  BY <1>7, <1>9, <1>10, <1>12, <1>13, ClosingKeeps
<1>15. \A pos \in positions' : PricedRight(pos, close' * Scale)
  <2>1. SUFFICES ASSUME NEW pos \in positions' PROVE PricedRight(pos, now)
    BY <1>1, <1>2
  <2>2. pos \in M /\ ~ Stopped(pos, now) /\ ~ Reached(pos, now)
    BY <1>5, <1>7, <2>1
  <2>3. PICK old \in positions : pos = Seen(old, now)
    BY <1>3, <2>2
  <2>4. pos.current = now /\ pos.marked = TRUE
    BY <1>2, <1>8, <2>3, SeenTypes
  <2>. QED
    BY <2>2, <2>4 DEF PricedRight
<1>16. PaperTypeOK'
  <2>1. bar' \in 0..MaxBars
    BY <1>2, PaperAssumption DEF PaperInv, PaperTypeOK, NextBar
  <2>. QED
    BY <1>2, <1>14, <2>1 DEF PaperInv, PaperTypeOK, TradeTypes, NextBar
<1>. QED
  BY <1>2, <1>14, <1>15, <1>16 DEF PaperInv

(* The end: what is left is closed at the price it has.                    *)
LEMMA FinishKeeps ==
  ASSUME PaperInv, Finish
  PROVE  PaperInv'
<1>1. PICK P, exit : P = positions /\ exit = [pos \in P |-> pos.current]
  OBVIOUS
<1>2. positions' = P \ P /\ positions' = {} /\ ClosePositions(exit) /\ UNCHANGED <<bar, close, engine>>
  BY <1>1 DEF Finish
<1>3. /\ P \subseteq Position /\ NumberedApart(P, trades) /\ FilledAsAsked(P)
      /\ Costs(P) = Costs(positions) /\ P \subseteq P
  BY <1>1 DEF PaperInv, PaperTypeOK
<1>4. exit \in [P -> Money]
  <2>1. \A pos \in P : pos.current \in Money
    BY <1>3 DEF Position
  <2>. QED
    BY <1>1, <2>1
<1>5. \A pos \in P : \/ exit[pos] \in {pos.stop, pos.target, pos.entry}
                     \/ ~ Stopped(pos, exit[pos]) /\ ~ Reached(pos, exit[pos])
  <2>1. SUFFICES ASSUME NEW pos \in P
                 PROVE  \/ pos.current = pos.entry
                        \/ ~ Stopped(pos, pos.current) /\ ~ Reached(pos, pos.current)
    BY <1>1
  <2>2. PricedRight(pos, close * Scale)
    BY <1>1 DEF PaperInv
  <2>. QED
    BY <2>2 DEF PricedRight
<1>6. /\ positions' \subseteq Position /\ FilledAsAsked(positions')
      /\ NumberedApart(positions', trades') /\ TradeTypes(trades') /\ cash' \in Money
      /\ Balanced(cash', positions', trades')
      /\ \A t \in trades' : KeptToLevels(t)
  BY <1>2, <1>3, <1>4, <1>5, ClosingKeeps
<1>7. PaperTypeOK'
  BY <1>2, <1>6 DEF PaperInv, PaperTypeOK, TradeTypes, Finish
<1>. QED
  BY <1>2, <1>6, <1>7 DEF PaperInv

LEMMA PaperInvNext == PaperInv /\ [PaperNext]_paperVars => PaperInv'
<1>. SUFFICES ASSUME PaperInv, [PaperNext]_paperVars PROVE PaperInv'
  OBVIOUS
<1>1. CASE \E price \in Prices : NextBar(price)
  BY <1>1, NextBarKeeps
<1>2. CASE \E r \in Requests : Submit(r)
  BY <1>2, SubmitKeeps
<1>3. CASE Finish
  BY <1>3, FinishKeeps
<1>4. CASE Hold \/ Raise
  <2>1. UNCHANGED <<bar, close, cash, positions, trades, engine>> /\ stage' \in {"bar", "raised"}
    BY <1>4 DEF Hold, Raise
  <2>. QED
    BY <2>1 DEF PaperInv, PaperTypeOK
<1>5. CASE UNCHANGED paperVars
  BY <1>5 DEF paperVars, PaperInv, PaperTypeOK
<1>. QED
  BY <1>1, <1>2, <1>3, <1>4, <1>5 DEF PaperNext

LEMMA PaperInvMeans == PaperInv => PaperTypeOK /\ CashExplained /\ LevelsHold
<1>. SUFFICES ASSUME PaperInv PROVE PaperTypeOK /\ CashExplained /\ LevelsHold
  OBVIOUS
<1>1. PaperTypeOK /\ CashExplained
  BY DEF PaperInv, Balanced, Costs, Gains, CashExplained
<1>2. \A t \in trades : KeptToLevels(t)
  BY DEF PaperInv
<1>3. ASSUME NEW pos \in positions, pos.marked
      PROVE  ~ Stopped(pos, close * Scale) /\ ~ Reached(pos, close * Scale)
  BY <1>3 DEF PaperInv, PricedRight
<1>4. ASSUME NEW pos \in positions, Exchanged(pos) PROVE ~ pos.marked
  <2>1. SUFFICES ASSUME pos.marked PROVE FALSE
    OBVIOUS
  <2>2. pos \in Position /\ close * Scale \in Int
    BY PaperAssumption, ScaleIsPositive DEF PaperInv, PaperTypeOK
  <2>3. pos.stop \in Int /\ pos.target \in Int
    BY <2>2 DEF Position, Money
  <2>4. ~ Stopped(pos, close * Scale) /\ ~ Reached(pos, close * Scale)
    BY <1>3, <2>1
  <2>. QED
    BY <1>4, <2>2, <2>3, <2>4 DEF Exchanged, Stopped, Reached
<1>. QED
  BY <1>1, <1>2, <1>3, <1>4 DEF LevelsHold, KeptToLevels

LEMMA PaperInvAlways == PaperSpec => []PaperInv
BY PaperInvInit, PaperInvNext, PTL DEF PaperSpec

\* In every run of run_backtest the account of paper_broker.py holds positions and
\* trades of their types, and run_backtest is at one of its stages.
THEOREM PaperTypesCorrect == PaperSpec => []PaperTypeOK
BY PaperInvAlways, PaperInvMeans, PTL

\* CashExplained, for any candles, requests and rules: however place_order,
\* update_position_prices and close_position follow on each other, the balance is
\* the initial one, with what every closed round trip brought and without what
\* every open position was charged; and a finished backtest leaves none open.
THEOREM CashStaysExplained == PaperSpec => []CashExplained
BY PaperInvAlways, PaperInvMeans, PTL

\* LevelsHold, for any candles, requests and rules: however far the price jumps, what
\* update_position_prices closes is closed within its levels, and what it keeps is
\* between them; one with its levels exchanged, as _apply_default_stops makes
\* them for a sell, does not outlive a candle.
THEOREM LevelsAlwaysHold == PaperSpec => []LevelsHold
BY PaperInvAlways, PaperInvMeans, PTL
=============================================================================
