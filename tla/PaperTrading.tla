---------------------------- MODULE PaperTrading ----------------------------
(***************************************************************************)
(* A backtest: run_backtest of trading_bot/backtest.py, which plays the    *)
(* candles of one symbol through a strategy, the rules of risk_engine.py   *)
(* and the account of paper_broker.py.                                     *)
(*                                                                         *)
(* A price of the market is an integer; money and levels are counted in    *)
(* parts of 1 / Scale of it, so that slippage and default levels, which    *)
(* are shares of a price, are exact, as decimals are in the code.  What    *)
(* the strategy asks for is any of a set of requests.                      *)
(***************************************************************************)
EXTENDS Integers, FiniteSets, FiniteSetsExt

CONSTANTS
  Prices,          \* closing prices of candles
  Asks,            \* prices that a strategy names, other than the close
  Volumes,         \* volumes that a strategy asks for, in the smallest step
  Levels,          \* stops and targets that a strategy names
  Scale,
  Slippage,        \* _slippage_bps, in parts of Scale
  InitialBalance,  \* initial_balance, in prices
  Engines,         \* configurations of the risk engine, and NoEngine
  DefaultStop,     \* default_stop_loss_percent, in parts of Scale
  DefaultTarget,   \* default_take_profit_percent
  MaxExposure,     \* max_exposure_percent
  MaxDailyLoss,    \* max_daily_loss_percent
  MaxOpen,         \* open positions: 10
  MaxBars,         \* bound: candles
  MaxOrders        \* bound: orders that are placed

NoEngine == [method |-> "none"]

ASSUME PaperAssumption ==
  /\ Prices \cup Asks \cup Volumes \cup Levels \subseteq Nat \ {0}
  /\ {Scale, InitialBalance, MaxOpen, MaxBars} \subseteq Nat \ {0}
  /\ {Slippage, DefaultStop, DefaultTarget} \subseteq 0..(Scale - 1)
  /\ {MaxExposure, MaxDailyLoss, MaxOrders} \subseteq Nat
  /\ NoEngine \in Engines
  /\ \A e \in Engines \ {NoEngine} : {e.volume, e.largest} \subseteq Nat

VARIABLES
  bar,        \* the number of the candle
  close,      \* its closing price, 0 before the first
  stage,      \* what run_backtest does next
  cash,       \* _balance
  positions,  \* _positions
  trades,     \* _trades
  engine      \* the risk engine, with the loss that was recorded for the day

paperVars == <<bar, close, stage, cash, positions, trades, engine>>

None  == 0
Sides == {"buy", "sell"}
Money == Int

\* What the strategy may ask for: without a price, the close is filled in.
Requests == [side : Sides, volume : Volumes, price : {close} \cup Asks,
             stop : Levels \cup {None}, target : Levels \cup {None}]

\* price: what the order named.  marked: a candle has been seen since.
Position == [id : Nat, side : Sides, volume : Nat, price : Nat, entry : Money, stop : Money,
             target : Money, current : Money, marked : BOOLEAN]

\* The values of a function together.
Total(f) == MapThenSumSet(LAMBDA x : f[x], DOMAIN f)

-----------------------------------------------------------------------------
(* The account *)

Pnl(pos, exit) == pos.volume * (IF pos.side = "buy" THEN exit - pos.entry ELSE pos.entry - exit)

Unrealized(pos) == IF pos.marked THEN Pnl(pos, pos.current) ELSE 0
Equity          == cash + Total([pos \in positions |-> Unrealized(pos)])

Filled(price, side) == price * (IF side = "buy" THEN Scale + Slippage ELSE Scale - Slippage)
Cost(r)             == r.price * Scale * r.volume

\* Positions are numbered in the order in which they are opened.
Opened(r) ==
  [id |-> Cardinality(positions) + Cardinality(trades), side |-> r.side, volume |-> r.volume,
   price |-> r.price, entry |-> Filled(r.price, r.side), stop |-> r.stop, target |-> r.target,
   current |-> Filled(r.price, r.side), marked |-> FALSE]

\* Mutant: the order costs what it is filled at.
PlaceOrderAtFill(r) ==
  /\ r.volume > 0
  /\ Cost(r) <= cash
  /\ cash' = cash - Filled(r.price, r.side) * r.volume
  /\ positions' = positions \cup {Opened(r)}

\* place_order: it costs the price that was asked, and is filled at another.
PlaceOrder(r) ==
  /\ r.volume > 0
  /\ Cost(r) <= cash
  /\ cash' = cash - Cost(r)
  /\ positions' = positions \cup {Opened(r)}

Trade(pos, exit) == [position |-> pos, exit |-> exit, pnl |-> Pnl(pos, exit)]

\* close_position, for several at once: exit[pos] is the price of each.
ClosePositions(exit) ==
  /\ cash' = cash + Total([pos \in DOMAIN exit |-> pos.entry * pos.volume + Pnl(pos, exit[pos])])
  /\ trades' = trades \cup {Trade(pos, exit[pos]) : pos \in DOMAIN exit}

Stopped(pos, now) ==
  pos.stop # None /\ (IF pos.side = "buy" THEN now <= pos.stop ELSE now >= pos.stop)

Reached(pos, now) ==
  pos.target # None /\ (IF pos.side = "buy" THEN now >= pos.target ELSE now <= pos.target)

Marked(now) == {[pos EXCEPT !.current = now, !.marked = TRUE] : pos \in positions}

\* Mutant: what is stopped is closed at the price of the market.
UpdatePositionPricesAtMarket(now) ==
  LET hit == {pos \in Marked(now) : Stopped(pos, now) \/ Reached(pos, now)} IN
  /\ positions' = Marked(now) \ hit
  /\ ClosePositions([pos \in hit |-> now])

\* update_position_prices: the stop goes before the target, and each is closed
\* at its level, however far the price has jumped.
UpdatePositionPrices(now) ==
  LET hit == {pos \in Marked(now) : Stopped(pos, now) \/ Reached(pos, now)} IN
  /\ positions' = Marked(now) \ hit
  /\ ClosePositions([pos \in hit |-> IF Stopped(pos, now) THEN pos.stop ELSE pos.target])

-----------------------------------------------------------------------------
(* The risk engine *)

HalfUp(n, d) == (2 * n + d) \div (2 * d)

\* _compute_volume: a fixed volume; a share of the balance, by percent or after
\* Kelly; or what was asked for.
Volume(balance, asked) ==
  CASE engine.method = "fixed"               -> Min({engine.volume, engine.largest})
    [] engine.method = "share"               -> Min({HalfUp(balance * engine.volume, 100 * Scale), engine.largest})
    [] engine.method = "volatility_adjusted" -> Min({asked, engine.largest})
    [] OTHER                                 -> asked

Exposure(volume, open) == volume + Total([pos \in open |-> pos.volume])

\* What apply_rules lets pass, beside the positions that it is told to be open; a
\* rule of the caller may refuse as well.
Allowed(volume, balance, open) ==
  /\ volume > 0
  /\ balance > 0
  /\ Exposure(volume, open) * Scale * 100 <= balance * MaxExposure
  /\ engine.daily * Scale * 100 >= - balance * MaxDailyLoss
  /\ Cardinality(open) < MaxOpen

\* _apply_default_stops: the stop below and the target above, for either side.
WithDefaults(r) ==
  [r EXCEPT !.stop   = IF @ = None THEN r.price * (Scale - DefaultStop) ELSE @,
            !.target = IF @ = None THEN r.price * (Scale + DefaultTarget) ELSE @]

-----------------------------------------------------------------------------
(* run_backtest *)

\* The next candle: positions are looked at before the strategy is asked.
NextBar(price) ==
  /\ stage = "bar" /\ bar < MaxBars
  /\ bar' = bar + 1 /\ close' = price
  /\ stage' = "order"
  /\ UpdatePositionPrices(price * Scale)
  /\ UNCHANGED engine

\* No request, or one that a rule or the broker refuses.
Hold ==
  /\ stage = "order"
  /\ stage' = "bar"
  /\ UNCHANGED <<bar, close, cash, positions, trades, engine>>

\* The engine is not told of any open position.
Submit(r) ==
  /\ stage = "order" /\ Cardinality(positions) + Cardinality(trades) < MaxOrders
  /\ IF engine = NoEngine THEN PlaceOrder(r)
     ELSE LET volume == Volume(Equity, r.volume)
          IN  /\ Allowed(volume, Equity, {})
              /\ PlaceOrder(WithDefaults([r EXCEPT !.volume = volume]))
  /\ stage' = "bar"
  /\ UNCHANGED <<bar, close, trades, engine>>

\* The strategy raises: the backtest ends with the positions it has.
Raise ==
  /\ stage = "order"
  /\ stage' = "raised"
  /\ UNCHANGED <<bar, close, cash, positions, trades, engine>>

\* After the last candle what is left is closed at its current price.
Finish ==
  /\ stage = "bar" /\ bar > 0
  /\ stage' = "finished"
  /\ positions' = {}
  /\ ClosePositions([pos \in positions |-> pos.current])
  /\ UNCHANGED <<bar, close, engine>>

PaperInit ==
  /\ bar = 0 /\ close = 0
  /\ stage = "bar"
  /\ cash = InitialBalance * Scale
  /\ positions = {} /\ trades = {}
  /\ engine \in Engines

PaperNext ==
  \/ \E price \in Prices : NextBar(price)
  \/ Hold \/ Raise \/ Finish
  \/ \E r \in Requests : Submit(r)

PaperSpec == PaperInit /\ [][PaperNext]_paperVars

-----------------------------------------------------------------------------
(* Properties *)

PaperTypeOK ==
  /\ bar \in 0..MaxBars /\ close \in Prices \cup {0}
  /\ stage \in {"bar", "order", "raised", "finished"}
  /\ cash \in Money
  /\ positions \subseteq Position
  /\ \A t \in trades : t.position \in Position /\ t.exit \in Money /\ t.pnl \in Money
  /\ engine \in Engines

\* What a round trip brings into the account: slippage costs a buyer nothing and
\* a seller twice, since the order costs what was asked and not what was filled.
Gain(t) ==
  LET asked == t.position.price * Scale
      lost  == t.position.price * Slippage
  IN  t.position.volume * (IF t.position.side = "buy" THEN t.exit - asked ELSE asked - t.exit - 2 * lost)

\* No sequence of orders, stops and targets makes or loses money besides what its
\* round trips bring, and a finished backtest leaves nothing open.
\* (place_order, update_position_prices, close_position)
CashExplained ==
  /\ cash = InitialBalance * Scale + Total([t \in trades |-> Gain(t)])
            - Total([pos \in positions |-> pos.price * Scale * pos.volume])
  /\ stage = "finished" => positions = {}

\* Levels on the sides where they belong.
Sided(pos) ==
  /\ pos.stop # None /\ pos.target # None
  /\ IF pos.side = "buy" THEN pos.stop < pos.entry /\ pos.entry < pos.target
                         ELSE pos.target < pos.entry /\ pos.entry < pos.stop

\* Levels on the wrong sides, as the engine's defaults are for a sell.
Exchanged(pos) ==
  /\ pos.stop # None /\ pos.target # None
  /\ IF pos.side = "buy" THEN pos.target < pos.stop ELSE pos.stop < pos.target

\* A position with both levels where they belong never loses more than its stop
\* allows, nor wins more than its target, however far the price jumps, and is not
\* left open beyond them; one with its levels exchanged is closed by the next
\* candle, whatever it is. (update_position_prices, _apply_default_stops)
LevelsHold ==
  /\ \A t \in trades : LET pos == t.position IN
       Sided(pos) => Pnl(pos, pos.stop) <= t.pnl /\ t.pnl <= Pnl(pos, pos.target)
  /\ \A pos \in positions : Sided(pos) /\ pos.marked => ~ Stopped(pos, close * Scale) /\ ~ Reached(pos, close * Scale)
  /\ \A pos \in positions : Exchanged(pos) => ~ pos.marked
=============================================================================
