------------------------------- MODULE Backtest -------------------------------
(***************************************************************************)
(* The back-test of one symbol (backtest/engine.py): Backtester.run goes   *)
(* through the bars once, and on each fills what was decided on the bar    *)
(* before, then looks for an exit, then for an entry.                      *)
(*                                                                         *)
(* Bars, sessions and the strategy's signals are left open: any of the     *)
(* given ones may come.  Prices are whole, and so are shares; the spread   *)
(* and the slippage are one amount a share, the fee one amount a fill.     *)
(***************************************************************************)
EXTENDS Integers, FiniteSetsExt

CONSTANTS
    Bars,           \* [open, high, low, close]
    Signals,        \* [quantity, entry_price, stop_price, take_profit_price]
    initial_capital,
    Slippage, Fee,
    position_part,  \* the equity divided by it may be in the position,
    risk_part,      \* and divided by this one at risk
    max_holding_bars,
    LastBar

VARIABLES
    sim,            \* cash, position, pending order and exit levels
    session         \* of the bars now coming

vars == <<sim, session>>

NoLevels == [stop |-> 0, tp |-> 0, tp1 |-> 0, at |-> 0]

Init ==
    /\ sim = [bar |-> 0, cash |-> initial_capital, qty |-> 0, entry_price |-> 0,
              entry_bar |-> 0, fee_left |-> 0, partial_done |-> FALSE, levels |-> NoLevels,
              pending |-> {}, pnl |-> 0, close |-> 0, result |-> "none"]
    /\ session = [watched |-> FALSE, early |-> FALSE, closed |-> FALSE]

Running == sim.result = "none"

(***************************************************************************)
(* The steps of one bar, each from what the step before it left.           *)
(***************************************************************************)
FillPrice(b) == b.open + Slippage

(* _cap_entry_fill.                                                        *)
Capped(s, wanted, b) ==
    LET equity == s.cash + s.qty * b.open
        q == Min({wanted, (equity \div position_part) \div FillPrice(b),
                  (equity \div risk_part) \div (FillPrice(b) - s.levels.stop)})
    IN  IF FillPrice(b) * q + Fee <= s.cash THEN q
        ELSE IF s.cash <= Fee THEN 0
        ELSE Min({q, (s.cash - Fee) \div FillPrice(b)})

(* A pending order is filled at the open, or cancelled.                    *)
Filled(s, b) ==
    IF s.pending = {} THEN s
    ELSE LET wanted == CHOOSE q \in s.pending : TRUE
             q == Capped(s, wanted, b)
         IN  IF q <= 0 THEN [s EXCEPT !.pending = {}]
             ELSE [s EXCEPT !.pending = {}, !.cash = s.cash - FillPrice(b) * q - Fee,
                            !.qty = s.qty + q, !.entry_price = FillPrice(b),
                            !.entry_bar = s.bar, !.fee_left = Fee]

(* A mutant of Sold: the entry's fee stays with what is left.               *)
SoldWithoutItsFee(s, q, quote) ==
    LET price == quote - Slippage
        alloc == (s.fee_left * q) \div s.qty
        after == [s EXCEPT !.cash = s.cash + price * q - Fee, !.qty = s.qty - q,
                           !.pnl = s.pnl + (price - s.entry_price) * q - alloc - Fee]
    IN  IF after.qty > 0 THEN after
        ELSE [after EXCEPT !.levels = NoLevels, !.fee_left = 0, !.partial_done = FALSE]

(* A sale takes its part of the entry's fee along.                         *)
Sold(s, q, quote) ==
    LET price == quote - Slippage
        alloc == (s.fee_left * q) \div s.qty
        after == [s EXCEPT !.cash = s.cash + price * q - Fee, !.qty = s.qty - q,
                           !.pnl = s.pnl + (price - s.entry_price) * q - alloc - Fee,
                           !.fee_left = s.fee_left - alloc]
    IN  IF after.qty > 0 THEN after
        ELSE [after EXCEPT !.levels = NoLevels, !.fee_left = 0, !.partial_done = FALSE]

Half(q) == q \div 2

(* The stop first, then the targets, then the holding time.                *)
Exited(s, b) ==
    IF s.qty = 0 \/ s.levels.stop = 0 THEN s
    ELSE IF b.low <= s.levels.stop THEN Sold(s, s.qty, Min({b.open, s.levels.stop}))
    ELSE IF b.high >= s.levels.tp /\ ~s.partial_done THEN Sold(s, s.qty, s.levels.tp)
    ELSE IF b.high >= s.levels.tp1 /\ ~s.partial_done
      THEN LET part == [s EXCEPT !.partial_done = TRUE]
           IN  IF Half(s.qty) = 0 THEN part ELSE Sold(part, Half(s.qty), s.levels.tp1)
    ELSE IF s.bar - s.entry_bar >= max_holding_bars THEN Sold(s, s.qty, b.open)
    ELSE s

Flat(s) == s.qty = 0 /\ s.pending = {}

(* The order waits for the next bar; its levels are kept from now on.       *)
Ordered(s, signal) ==
    [s EXCEPT !.pending = {signal.quantity},
              !.levels = [stop |-> signal.stop_price, tp |-> signal.take_profit_price,
                          tp1 |-> 2 * signal.entry_price - signal.stop_price, at |-> s.bar]]

(***************************************************************************)
(* Backtester.run.                                                         *)
(***************************************************************************)
(* Entries are looked for, and exits, in sessions that begin with their     *)
(* opening bar, and whose previous session's last bar was seen; of those,   *)
(* the ones before the start date only warm up.  Orders do not outlive     *)
(* their session.                                                          *)
NewSession(watched, early) ==
    /\ Running
    /\ sim.bar < LastBar
    /\ watched => session.closed
    /\ session' = [watched |-> watched, early |-> early, closed |-> FALSE]
    /\ sim' = [sim EXCEPT !.pending = {}]

SkippedBar(terminal) ==
    /\ Running /\ ~session.watched /\ ~session.closed
    /\ sim.bar < LastBar
    /\ sim' = [sim EXCEPT !.bar = @ + 1]
    /\ session' = [session EXCEPT !.closed = terminal]

StopAboveFill(b) == sim.pending # {} /\ sim.levels.stop >= FillPrice(b)

(* What the bar makes of the simulation before an entry is looked for.      *)
After(b) == Exited(Filled([sim EXCEPT !.bar = @ + 1, !.close = b.close], b), b)

WatchedBar(b, terminal) ==
    /\ Running /\ session.watched /\ ~session.closed
    /\ sim.bar < LastBar
    /\ ~StopAboveFill(b)
    /\ \/ sim' = After(b)
       \/ /\ Flat(After(b)) /\ ~session.early
          /\ \E signal \in Signals : sim' = Ordered(After(b), signal)
    /\ session' = [session EXCEPT !.closed = terminal]

(* A stop that is not below the fill ends the back-test with an error.      *)
Raise(b) ==
    /\ Running /\ session.watched /\ ~session.closed
    /\ sim.bar < LastBar
    /\ StopAboveFill(b)
    /\ sim' = [sim EXCEPT !.result = "error"]
    /\ UNCHANGED session

(* What is left is sold at the last watched bar's close.                   *)
Finish ==
    /\ Running
    /\ sim' = [(IF sim.qty > 0 THEN Sold(sim, sim.qty, sim.close) ELSE sim)
                 EXCEPT !.result = "done"]
    /\ UNCHANGED session

Next ==
    \/ \E watched, early \in BOOLEAN : NewSession(watched, early)
    \/ \E terminal \in BOOLEAN : SkippedBar(terminal)
    \/ \E b \in Bars, terminal \in BOOLEAN : WatchedBar(b, terminal)
    \/ \E b \in Bars : Raise(b)
    \/ Finish

Spec == Init /\ [][Next]_vars

(***************************************************************************)
(* Properties.                                                             *)
(***************************************************************************)
(* The type invariant.                                                     *)
TypeOK ==
    /\ sim.bar \in 0 .. LastBar /\ sim.qty \in Nat /\ sim.fee_left \in 0 .. Fee
    /\ Cardinality(sim.pending) <= 1 /\ sim.result \in {"none", "done", "error"}
    /\ session \in [watched : BOOLEAN, early : BOOLEAN, closed : BOOLEAN]

(* The trades explain the capital: what was gained by them, what is tied up *)
(* at its entry price, and the part of the entry's fee not yet charged to a *)
(* trade make up the cash, also after partial exits.                       *)
TradesExplainCapital ==
    sim.cash + sim.qty * sim.entry_price + sim.fee_left = initial_capital + sim.pnl

(* A position is that of the signal whose levels guard it, entered on the   *)
(* bar after it, which no signal knew, and its stop is below its price.     *)
PositionIsOfItsSignal ==
    /\ sim.qty > 0 => /\ sim.entry_bar = sim.levels.at + 1
                      /\ 0 < sim.levels.stop /\ sim.levels.stop < sim.entry_price
    /\ sim.pending # {} => sim.levels.at = sim.bar /\ sim.qty = 0

(* The result of a back-test is that of its trades, each entered after the  *)
(* signal it follows.                                                      *)
ResultIsOfItsTrades == TypeOK /\ TradesExplainCapital /\ PositionIsOfItsSignal
=============================================================================
