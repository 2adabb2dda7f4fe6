-------------------------- MODULE PortfolioBacktest --------------------------
(***************************************************************************)
(* The back-test of a portfolio (backtest/portfolio_engine.py): when a     *)
(* period begins, the holdings are brought to the strategy's weights at    *)
(* the day's opening prices, first the sales and then the purchases the    *)
(* cash allows, and what is left is rounded to cents.                      *)
(*                                                                         *)
(* Shares come in halves and prices in cents, so that all money is in      *)
(* halves of a cent.  Weights are percentages, left open as prices are.    *)
(***************************************************************************)
EXTENDS Integers, SequencesExt

CONSTANTS
    Stocks,         \* a sequence, in the order they are gone through
    Quotes,         \* opening prices, [stock -> cents]
    Weights,        \* targets, [stock -> per cent]
    initial_capital,
    Slippage, Fee,
    min_history_bars,
    PeriodOf        \* the period of each day

VARIABLES
    day,
    cash, holdings,
    rebalanced,     \* the days of the rebalances
    flow            \* history: what all trades brought less what they cost

vars == <<day, cash, holdings, rebalanced, flow>>

Tickers == ToSet(Stocks)
Days == DOMAIN PeriodOf

Init ==
    /\ day = 0
    /\ cash = initial_capital
    /\ holdings = [t \in Tickers |-> 0]
    /\ rebalanced = <<>>
    /\ flow = 0

(* _rebalance_due.                                                         *)
Due(today) == ~(rebalanced # <<>> /\ PeriodOf[Last(rebalanced)] = PeriodOf[today])

Total(weights) == FoldLeft(LAMBDA sum, t : sum + weights[t], 0, Stocks)

(* Weights above the whole are scaled down to it.                          *)
Normal(weights) ==
    IF Total(weights) > 100
    THEN [t \in Tickers |-> (weights[t] * 100) \div Total(weights)] ELSE weights

Equity(open) == FoldLeft(LAMBDA sum, t : sum + holdings[t] * open[t], cash, Stocks)

(* How many shares short of the target, or over it; 0.2% are kept back.     *)
Short(p, t, open, weights) ==
    LET target == Equity(open) * 998 * weights[t]
        missing == target - p.holdings[t] * open[t] * 100000
    IN  IF missing >= 0 THEN missing \div (open[t] * 100000)
        ELSE -((-missing) \div (open[t] * 100000))

Sell(p, t, open, weights) ==
    LET q == -Short(p, t, open, weights)
        proceeds == q * (open[t] - Slippage) - Fee
    IN  IF q <= 0 THEN p
        ELSE [cash |-> p.cash + proceeds, flow |-> p.flow + proceeds,
              holdings |-> [p.holdings EXCEPT ![t] = @ - q]]

(* What the fill and its fee leave to be bought.                           *)
Affordable(p, q, price) ==
    IF q * price + Fee <= p.cash THEN q
    ELSE IF p.cash <= Fee THEN 0 ELSE (p.cash - Fee) \div price

Buy(p, t, open, weights) ==
    LET wanted == Min({Short(p, t, open, weights), p.cash \div open[t]})
        q == IF wanted <= 0 THEN 0 ELSE Affordable(p, wanted, open[t] + Slippage)
        cost == q * (open[t] + Slippage) + Fee
    IN  IF q <= 0 THEN p
        ELSE [cash |-> p.cash - cost, flow |-> p.flow - cost,
              holdings |-> [p.holdings EXCEPT ![t] = @ + q]]

(* quantize(Decimal("0.01")): half a cent goes to the even cent.            *)
Rounded(halves) ==
    IF halves % 2 = 0 THEN halves
    ELSE IF (halves \div 2) % 2 = 0 THEN halves - 1 ELSE halves + 1

(* _rebalance_portfolio.                                                   *)
_rebalance_portfolio(open, weights) ==
    LET p == [cash |-> cash, holdings |-> holdings, flow |-> flow]
        sold == FoldLeft(LAMBDA acc, t : Sell(acc, t, open, weights), p, Stocks)
    IN  FoldLeft(LAMBDA acc, t : Buy(acc, t, open, weights), sold, Stocks)

Rebalance(open, weights) ==
    /\ day + 1 \in Days /\ day + 1 > min_history_bars
    /\ Due(day + 1)
    /\ LET p == _rebalance_portfolio(open, Normal(weights))
       IN  /\ cash' = Rounded(p.cash)
           /\ holdings' = p.holdings
           /\ flow' = p.flow
    /\ rebalanced' = Append(rebalanced, day + 1)
    /\ day' = day + 1

(* A day of the warm-up, or of a period that was rebalanced.               *)
Hold ==
    /\ day + 1 \in Days
    /\ day + 1 <= min_history_bars \/ ~Due(day + 1)
    /\ day' = day + 1
    /\ UNCHANGED <<cash, holdings, rebalanced, flow>>

Next == Hold \/ \E open \in Quotes, weights \in Weights : Rebalance(open, weights)

Spec == Init /\ [][Next]_vars

(***************************************************************************)
(* Properties.                                                             *)
(***************************************************************************)
(* The type invariant.                                                     *)
TypeOK == day \in {0} \union Days /\ cash \in Int /\ flow \in Int
             /\ holdings \in [Tickers -> Int] /\ rebalanced \in Seq(Days)

(* Nothing is bought on credit or sold short, whatever the prices do from   *)
(* one rebalance to the next.                                              *)
NothingIsBorrowed == cash >= 0 /\ \A t \in Tickers : holdings[t] >= 0

(* The cash is what the trades left of the capital, but for the rounding,   *)
(* which makes or takes half a cent with each rebalance and no more.        *)
OnlyRoundingDrifts ==
    LET drift == cash - (initial_capital + flow)
    IN  -Len(rebalanced) <= drift /\ drift <= Len(rebalanced)

(* Each period after the warm-up is rebalanced once, on its first day.     *)
OncePerPeriod ==
    \A i \in DOMAIN rebalanced : \A d \in Days :
        PeriodOf[d] = PeriodOf[rebalanced[i]] /\ d > min_history_bars => d >= rebalanced[i]

(* A back-tested portfolio has only the money it was given.                *)
PortfolioAddsUp == TypeOK /\ NothingIsBorrowed /\ OnlyRoundingDrifts /\ OncePerPeriod
=============================================================================
