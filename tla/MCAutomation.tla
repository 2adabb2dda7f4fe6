----------------------------- MODULE MCAutomation -----------------------------
(***************************************************************************)
(* The two kinds of automatic strategy, what is admitted of what those of  *)
(* the second kind ask for, and how a strategy is promoted, each on its    *)
(* own: a behaviour is one of PortfolioRebalance, StrategyTrading,         *)
(* EntryAdmission or StrategyPromotion.                                    *)
(*                                                                         *)
(* Rebalance: one share to sell and two to buy with the cash for one of    *)
(* them, over a period of two days and one of a single day.  Two orders    *)
(* are enough: a plan has two lines, and no run plans while an earlier     *)
(* order is kept.                                                          *)
(*                                                                         *)
(* Trading: two bars and three orders, enough for an entry and two exits,  *)
(* or for entries on both bars and an exit.                                *)
(*                                                                         *)
(* Admission: one trade a day, two manual requests beside the run and four  *)
(* orders, one more than may pass the check together; caps that fit both   *)
(* tickers, the larger of them, or the smaller, by the regime.             *)
(* Promotion: two sessions beside the promotion flow, three decisions.     *)
(***************************************************************************)
EXTENDS PortfolioRebalance, StrategyTrading, EntryAdmission, StrategyPromotion, TLC

VARIABLE which

MCCandidates ==
    {[ticker |-> 1, strategy |-> "vwap_reclaim", notional |-> 1, risk |-> 1, live |-> TRUE],
     [ticker |-> 1, strategy |-> "orb", notional |-> 1, risk |-> 1, live |-> FALSE],
     [ticker |-> 2, strategy |-> "vwap_reclaim", notional |-> 2, risk |-> 2, live |-> TRUE]}

EitherInit ==
    /\ which \in {"rebalance", "trading", "admission", "promotion"}
    /\ RebalanceInit /\ TradingInit /\ AdmissionInit /\ PromotionInit

Others(own) ==
    /\ which = own
    /\ UNCHANGED which
    /\ own # "rebalance" => UNCHANGED rebalance_vars
    /\ own # "trading" => UNCHANGED trading_vars
    /\ own # "admission" => UNCHANGED admission_vars
    /\ own # "promotion" => UNCHANGED promotion_vars

EitherNext ==
    \/ Others("rebalance") /\ RebalanceNext
    \/ Others("trading") /\ TradingNext
    \/ Others("admission") /\ AdmissionNext
    \/ Others("promotion") /\ PromotionNext

EitherSpec ==
    EitherInit /\ [][EitherNext]_<<which, rebalance_vars, trading_vars, admission_vars,
                                   promotion_vars>>

(* A dry run and an order are not under way at once: a dry run outdates a   *)
(* run as an edit of the strategy does, and edits come at any time.  While   *)
(* stocks are traded, automatic trading is off only under the kill switch,  *)
(* which stops all that it stops, for as long as there is a run to stop,    *)
(* and not together with an entry whose run died before it was saved; at    *)
(* most one run dies so, and the third order is of the second bar.  Of the  *)
(* admitted, one trade ends and one order comes to nothing, and the switch  *)
(* is set while something is on its way.  One session works with the row of *)
(* a strategy, and another enables or disables it meanwhile.               *)
WritersAt(doing) == {w \in Sessions : IsBusy(w, doing)}

FewAtOnce ==
    /\ dry = NoRun \/ Used = {}
    /\ controls.auto \/ controls.kill
    /\ controls.kill => cut_short = {} /\ (runner # NoTask \/ monitor # NoTask)
    /\ Cardinality(cut_short) <= 1
    /\ bar = 1 => Len(stock_orders) <= 2
    /\ Len(day_trades) <= 1
    /\ Cardinality({i \in DayIds : day_orders[i].status = "ended"}) <= 1
    /\ \/ switches.auto
       \/ /\ switches.kill
          /\ \/ entry_run # NoEntryRun
             \/ \E q \in ManualRequests : manual_entries[q] # NoEntryRun
    /\ Cardinality(WritersAt({"scan", "dry run", "run", "plan"})) <= 1
    /\ \/ Cardinality(WritersAt({"run", "plan"})) = 1
       \/ Cardinality(WritersAt({"enable"})) <= IF strategy_row.enabled THEN 0 ELSE 1

(* Each of the parts has model values of its own.                          *)
Symmetric == Permutations(Slots) \union Permutations(Sessions) \union Permutations(ManualRequests)

MCInitial == <<1, 0>>
MCTarget == <<0, 2>>
MCPeriodOf == <<1, 1, 2>>
=============================================================================
