------------------------------ MODULE EntrySignals ------------------------------
(***************************************************************************)
(* What the strategies of _make_engine ask for (app/strategies: opening    *)
(* range, VWAP reclaim, opening fade, closing momentum, periodicity, and   *)
(* the two for crypto), and how a position they opened is left: by         *)
(* check_exit_conditions of the opening range, whichever strategy it was,  *)
(* which the runner and the position monitor give the same levels.         *)
(*                                                                         *)
(* Prices, rates and returns are in hundredths of a per cent of the day's  *)
(* open, multiples in tenths, quantities in ten thousandths of a share.    *)
(* Levels are rounded down to a unit.  Bars are left out: a rule is told   *)
(* what the indicators may say of those of the session, which for a        *)
(* back-test may be of one minute.  A share costs more than the least      *)
(* price of every rule.  The confidence and the reason of a signal, and    *)
(* the overlay of Kelly, off by default, are left out.                     *)
(***************************************************************************)
EXTENDS Integers, SequencesExt

CONSTANTS
    Levels,     \* prices
    Ranges,     \* average true ranges
    Minutes,    \* minutes of the day, on the clock of a session from 14:30
    Counts,     \* numbers of bars
    Histories,  \* returns of the same slot in earlier sessions
    Setups,     \* the lows and closes of some bars
    Accounts,   \* what an account is worth, and its free cash
    Slips       \* what the fill of an entry differs by from its price

VARIABLES
    signal,     \* the entry signal
    position,   \* the position it opened
    partial,    \* the strategy has made a partial exit of this stock
    look        \* history: the last look at the position

vars == <<signal, position, partial, look>>

Open == 10000
NotKnown == 0 - 1
NoSignal == [strategy |-> "none"]
NoPosition == [quantity |-> 0]
NoLook == [by |-> "none"]

Init == signal = NoSignal /\ position = NoPosition /\ partial = FALSE /\ look = NoLook

(* Decimal.quantize: to the nearest, halves to the even one.               *)
Rounded(a, b) ==
    LET q == a \div b
        r == a % b
    IN  IF 2 * r > b \/ (2 * r = b /\ q % 2 = 1) THEN q + 1 ELSE q

(* The return from one price to another.                                   *)
gap_pct(from, to) ==
    IF to >= from THEN Rounded(10000 * (to - from), from)
    ELSE 0 - Rounded(10000 * (from - to), from)

(***************************************************************************)
(* Indicators.                                                             *)
(***************************************************************************)
(* The regime of a Choppiness Index, which may be missing; a trend needs    *)
(* the slow average.                                                       *)
market_regime(chop, count) ==
    IF chop = NotKnown THEN {"unknown"}
    ELSE IF chop > 61 THEN {"choppy"}
    ELSE IF count < 21 THEN {"neutral"}
    ELSE {"trending_up", "trending_down", "neutral"}

Indices == {NotKnown, 36, 52, 58, 70}

(* Too few bars: no range, no index, and a volume like any other.          *)
atr(count) == IF count < 15 THEN {0} ELSE Ranges \union {0}
choppiness_index(count) == IF count < 15 THEN {NotKnown} ELSE Indices
relative_volume(count) == IF count < 21 THEN {100} ELSE {90, 110, 120, 140, 160}

Markets ==
    UNION {[count : {n}, range : atr(n), rvol : relative_volume(n), chop : {c},
            regime : market_regime(c, n), minute : Minutes, price : Levels,
            prev : Levels \union {NotKnown}] :
               n \in Counts, c \in Indices}

(* What is so of some market; a session has no more bars than minutes.      *)
Consistent(m) == m.chop \in choppiness_index(m.count) /\ m.count < m.minute - 868

(* Not in the first and the last minutes, nor over lunch.                  *)
is_tradeable_time(minute, first, last) ==
    /\ 870 + first <= minute
    /\ minute < 1260 - last
    /\ minute \notin 1020 .. 1109

(***************************************************************************)
(* Signals.                                                                *)
(***************************************************************************)
(* What shapes a signal: the part of the account a trade may risk and a     *)
(* position may be worth, the stop in ranges, what the target must be worth *)
(* in risks, in hundredths, and the least quantity.                        *)
Rule(risk, part, ranges, reward, least) ==
    [risk |-> risk, part |-> part, ranges |-> ranges, reward |-> reward, least |-> least]

DEFAULT_PARAMS == Rule(75, 800, 20, 150, 100)
DEFAULT_VWAP_PARAMS == Rule(50, 600, 15, 150, 100)
DEFAULT_FADE_PARAMS == Rule(50, 600, 15, 150, 100)
DEFAULT_CLOSING_MOMENTUM_PARAMS == Rule(45, 500, 12, 130, 100)
DEFAULT_INTRADAY_PERIODICITY_PARAMS == Rule(35, 400, 11, 125, 100)
RETEST_PARAMS == Rule(50, 600, 20, 200, 1)
HTF_PARAMS == Rule(50, 600, 30, 300, 1)

Rules ==
    [orb |-> DEFAULT_PARAMS, vwap |-> DEFAULT_VWAP_PARAMS, fade |-> DEFAULT_FADE_PARAMS,
     closing |-> DEFAULT_CLOSING_MOMENTUM_PARAMS,
     periodicity |-> DEFAULT_INTRADAY_PERIODICITY_PARAMS,
     retest |-> RETEST_PARAMS, trend_follow |-> HTF_PARAMS]

Distance(strategy, m) == (m.range * Rules[strategy].ranges) \div 10
Part(account, rate) == (account.value * rate) \div 10000

(* To a hundredth of a share, and capped by cash if there is any.           *)
atr_position_size(strategy, m, account) ==
    LET by_risk == Rounded(100 * Part(account, Rules[strategy].risk), Distance(strategy, m))
        by_cash == Rounded(100 * account.cash, m.price)
    IN  100 * (IF account.cash > 0 THEN Min({by_risk, by_cash}) ELSE by_risk)

(* At most the part of the account.                                        *)
Quantity(strategy, m, account) ==
    Min({atr_position_size(strategy, m, account),
         (10000 * Part(account, Rules[strategy].part)) \div m.price})

Signal(strategy, side, m, account, stop, target) ==
    {s \in {[strategy |-> strategy, side |-> side, entry |-> m.price, stop |-> stop,
             target |-> target, quantity |-> Quantity(strategy, m, account),
             account |-> account]} :
        s.quantity >= Rules[strategy].least}

(* A long one whose target is so many risks, in hundredths, above the price. *)
Long(strategy, m, account, stop, risks) ==
    IF m.price <= stop THEN {}
    ELSE Signal(strategy, "buy", m, account, stop,
                m.price + ((m.price - stop) * risks) \div 100)

(***************************************************************************)
(* Opening range.                                                          *)
(***************************************************************************)
_validate_range(high, low) ==
    /\ (high - low) * 10000 >= 15 * Open
    /\ (high - low) * 10000 <= 350 * Open

(* Of a long entry; of a short one with the trend the other way.            *)
_check_filters(m, trend) ==
    /\ is_tradeable_time(m.minute, 5, 30)
    /\ m.prev # NotKnown => gap_pct(m.prev, Open) \in (0 - 200) .. 200
    /\ m.range * 1000 >= 3 * m.price
    /\ m.range * 100 <= 6 * m.price
    /\ m.rvol >= 150
    /\ m.regime \notin {"unknown", "choppy"}
    /\ m.count >= 21 => m.regime = trend

Breakout(m, account, high) ==
    LET stop == Min({m.price - Distance("orb", m), high - high \div 1000})
    IN  Long("orb", m, account, stop, 200)

Breakdown(m, account, low) ==
    LET stop == Max({m.price + Distance("orb", m), low + low \div 1000})
    IN  Signal("orb", "sell", m, account, stop, m.price - 2 * (stop - m.price))

OpeningRangeBreakout(m, account, allow_short) ==
    UNION {IF m.price > r[1]
           THEN IF _check_filters(m, "trending_up") THEN Breakout(m, account, r[1]) ELSE {}
           ELSE IF allow_short /\ m.price < r[2] /\ _check_filters(m, "trending_down")
           THEN Breakdown(m, account, r[2])
           ELSE {} :
              r \in {r \in Levels \X Levels : m.range > 0 /\ _validate_range(r[1], r[2])}}

(***************************************************************************)
(* VWAP reclaim: a close above the average after some below it.             *)
(***************************************************************************)
VWAPReclaim(m, account) ==
    IF /\ m.count >= 20
       /\ is_tradeable_time(m.minute, 60, 30)
       /\ m.rvol >= 150
       /\ m.range > 0
       /\ m.regime \notin {"choppy", "unknown"}
    THEN UNION {Long("vwap", m, account, v - Distance("vwap", m), 150) :
                   v \in {v \in Levels : m.price > v}}
    ELSE {}

(***************************************************************************)
(* Opening fade: back from a gap to the close of the session before.        *)
(***************************************************************************)
_time_in_fade_window(minute) == minute \in 873 .. 915

Worthwhile(risk, reward) == risk > 0 /\ 100 * reward >= Rules.fade.reward * risk

(* The distance to the target is taken without its sign.                   *)
FadeOf(m, account, side, stop) ==
    IF Worthwhile(Max({stop - m.price, m.price - stop}),
                  Max({m.prev - m.price, m.price - m.prev}))
    THEN Signal("fade", side, m, account, stop, m.prev)
    ELSE {}

(* The last closes were on the other side of the open, which is within the  *)
(* session's high and low as the price is.                                 *)
OpeningFade(m, account, allow_short) ==
    IF /\ m.count >= 5
       /\ m.prev # NotKnown
       /\ _time_in_fade_window(m.minute)
       /\ m.range > 0
       /\ m.range * 1000 >= 3 * Open
       /\ m.range * 100 <= 6 * Open
       /\ m.rvol >= 150
       /\ m.chop >= 50
    THEN IF gap_pct(m.prev, Open) \in 150 .. 600 /\ allow_short /\ m.price < Open
         THEN UNION {FadeOf(m, account, "sell", high + Distance("fade", m)) :
                        high \in {l \in Levels : l >= Open}}
         ELSE IF gap_pct(m.prev, Open) \in (0 - 600) .. (0 - 150) /\ m.price > Open
         THEN UNION {FadeOf(m, account, "buy", low - Distance("fade", m)) :
                        low \in {l \in Levels : l <= Open}}
         ELSE {}
    ELSE {}

(***************************************************************************)
(* Closing momentum and periodicity: both above the average, with a stop    *)
(* just below it if that is nearer.                                        *)
(***************************************************************************)
Above(strategy, m, account, v, below) ==
    Long(strategy, m, account,
         Max({m.price - Distance(strategy, m), (v * below) \div 10000}),
         Rules[strategy].reward)

Averages(m) == {v \in Levels : m.price > v}

ClosingMomentum(m, account) ==
    IF /\ m.count >= 24
       /\ m.prev # NotKnown
       /\ m.minute \in 1230 .. 1255
       /\ gap_pct(m.prev, Open) \in (0 - 300) .. 300
       /\ \E opening_close \in Levels : gap_pct(m.prev, opening_close) >= 35
       /\ gap_pct(Open, m.price) >= 25
       /\ m.rvol >= 115
       /\ m.regime \notin {"trending_down", "choppy", "unknown"}
       /\ m.range > 0
    THEN UNION {Above("closing", m, account, v, 9975) : v \in Averages(m)}
    ELSE {}

(* The last five minutes of a half hour.                                   *)
_current_slot_index(minute) ==
    IF minute \in 1050 .. 1200 /\ (minute - 870) % 30 >= 25 THEN (minute - 870) \div 30
    ELSE NotKnown

(* The same half hour of at least four sessions: on average, and in six of  *)
(* ten, upwards.                                                           *)
Persistent(returns) ==
    LET n == Len(returns)
    IN  /\ n >= 4
        /\ Rounded(Max({FoldSeq(+, 0, returns), 0}), n) >= 8
        /\ 10 * Len(SelectSeq(returns, LAMBDA r : r > 0)) >= 6 * n

IntradayPeriodicity(m, account) ==
    IF /\ m.count >= 24
       /\ _current_slot_index(m.minute) # NotKnown
       /\ \E slot_open \in Levels : gap_pct(slot_open, m.price) >= 5
       /\ m.rvol >= 105
       /\ m.regime \notin {"trending_down", "choppy", "unknown"}
       /\ \E returns \in Histories : Persistent(returns)
       /\ m.range > 0
    THEN UNION {Above("periodicity", m, account, v, 9970) : v \in Averages(m)}
    ELSE {}

(***************************************************************************)
(* Crypto: breakout and retest, and trend following.                        *)
(***************************************************************************)
(* A close above the level, and later a low that came back near it with a   *)
(* close that held.                                                        *)
_check_setup(bars, level) ==
    \E i, j \in 1 .. Len(bars) :
        /\ i < j
        /\ bars[i].close > level
        /\ 100 * bars[j].low <= 102 * level
        /\ 100 * bars[j].close >= 98 * level

KrakenBreakoutRetest(m, account) ==
    IF /\ m.count >= 29
       /\ \E level \in Levels, bars \in Setups : _check_setup(bars, level) /\ m.price > level
       /\ m.rvol >= 130
       /\ m.range > 0
    THEN Long("retest", m, account, m.price - Distance("retest", m), 200)
    ELSE {}

(* Above the average of fifty closes and the highs of the twenty bars before. *)
KrakenHTFBreakout(m, account) ==
    IF /\ m.count >= 51
       /\ \E level \in Levels : m.price > level
       /\ m.chop # NotKnown /\ m.chop < 55
       /\ m.rvol >= 130
       /\ m.range > 0
    THEN Long("trend_follow", m, account, m.price - Distance("trend_follow", m), 300)
    ELSE {}

(***************************************************************************)
(* The runner's entry.                                                     *)
(***************************************************************************)
(* The engine the strategy's type names; parameters for selling short are   *)
(* left to a back-test.                                                    *)
generate_signal(m, account, allow_short) ==
    UNION {OpeningRangeBreakout(m, account, allow_short), VWAPReclaim(m, account),
           OpeningFade(m, account, allow_short), ClosingMomentum(m, account),
           IntradayPeriodicity(m, account), KrakenBreakoutRetest(m, account),
           KrakenHTFBreakout(m, account)}

Generate ==
    /\ signal = NoSignal
    /\ \E m \in {m \in Markets : Consistent(m)}, account \in Accounts, allow_short \in BOOLEAN :
          \E s \in generate_signal(m, account, allow_short) : signal' = s
    /\ UNCHANGED <<position, partial, look>>

(* Not traded: of another kind than a purchase, or refused on the way.      *)
Refuse ==
    /\ signal # NoSignal /\ position = NoPosition
    /\ signal' = NoSignal
    /\ UNCHANGED <<position, partial, look>>

(* Bought, in whole, a little beside the price of the signal.              *)
Enter ==
    /\ signal # NoSignal /\ position = NoPosition
    /\ signal.side = "buy"
    /\ \E slip \in Slips :
          position' = [quantity |-> signal.quantity, price |-> signal.entry + slip]
    /\ UNCHANGED <<signal, partial, look>>

(***************************************************************************)
(* The exit.                                                               *)
(***************************************************************************)
trailing_stop_price(price, range, multiple) ==
    Max({signal.stop, price - (range * multiple) \div 10})

(* What is adapted to the range is kept between a floor and a ceiling.      *)
adaptive_atr_multiplier == {15, 25, 40}

(* One risk above the price paid; the monitor takes the target instead if   *)
(* that is not above it.                                                   *)
FirstTarget(by) ==
    IF by = "monitor" /\ position.price <= signal.stop THEN signal.target
    ELSE 2 * position.price - signal.stop

Half == 100 * Rounded(position.quantity, 200)

(* What is sold of a position at a price, given the stop: all at the stop   *)
(* and at the target, and half of it once, at the first target.             *)
Sold(by, price, stop) ==
    IF price <= stop \/ price >= signal.target THEN position.quantity
    ELSE IF ~partial /\ price >= FirstTarget(by) /\ Half >= 100
         THEN Min({Half, position.quantity})
    ELSE 0

(* Each look begins with the stop of the signal.  The monitor wants to know *)
(* the range; the runner does without one.                                 *)
Look(by) ==
    /\ position # NoPosition /\ position.quantity > 0
    /\ \E price \in Levels, range \in Ranges \union {0} :
          /\ by = "monitor" => range > 0
          /\ \E multiple \in adaptive_atr_multiplier :
                LET stop == Max({signal.stop, trailing_stop_price(price, range, multiple)})
                    sold == Sold(by, price, stop)
                IN  /\ look' = [by |-> by, price |-> price, range |-> range, stop |-> stop]
                    /\ position' = [position EXCEPT !.quantity = @ - sold]
                    /\ partial' = (partial \/ sold \in 1 .. position.quantity - 1)
    /\ UNCHANGED signal

(* Nothing is left.                                                        *)
Leave ==
    /\ position # NoPosition /\ position.quantity = 0
    /\ signal' = NoSignal /\ position' = NoPosition /\ look' = NoLook
    /\ UNCHANGED partial

Next ==
    \/ Generate \/ Refuse \/ Enter \/ Leave
    \/ \E by \in {"runner", "monitor"} : Look(by)

Spec == Init /\ [][Next]_vars

(***************************************************************************)
(* Properties.                                                             *)
(***************************************************************************)
(* The stop and the target of a signal are on their sides of the price, and *)
(* the reward is worth the risk.                                           *)
LevelsAreInOrder ==
    signal # NoSignal =>
        LET s == signal
            risk == IF s.side = "buy" THEN s.entry - s.stop ELSE s.stop - s.entry
            reward == IF s.side = "buy" THEN s.target - s.entry ELSE s.entry - s.target
        IN  risk > 0 /\ reward > 0 /\ 100 * (reward + 1) >= Rules[s.strategy].reward * risk

(* A signal costs no more than the part of the account its strategy may     *)
(* use, and than the cash, but for the rounding of its quantity.            *)
CostIsBounded ==
    signal # NoSignal =>
        LET cost == signal.quantity * signal.entry
            account == signal.account
        IN  /\ signal.quantity > 0
            /\ cost <= 10000 * Part(account, Rules[signal.strategy].part)
            /\ account.cash > 0 => cost <= 10000 * account.cash + 50 * signal.entry

(* A look at a price at the stop or the target leaves nothing, and one that *)
(* knows the range and sees a price between them leaves half or all of it.  *)
Bracketed ==
    look # NoLook =>
        IF look.price <= signal.stop \/ look.price >= signal.target
        THEN position.quantity = 0
        ELSE look.range > 0 => position.quantity > 0

(* What the strategies ask for can be traded, and what they hold is left.   *)
SignalsAreSound == LevelsAreInOrder /\ CostIsBounded /\ Bracketed
=============================================================================
