----------------------------- MODULE MCBackground -----------------------------
(***************************************************************************)
(* What works beside the orders of the other models, each on its own: a    *)
(* behaviour is one of TaskDelivery, DemoReconciliation, DemoSchedule,     *)
(* DcaSchedule, ResearchData, EntrySignals, BrokerRecord, Backtest,        *)
(* PortfolioBacktest or WalkForward.                                       *)
(*                                                                         *)
(* Tasks: two periods, two messages and two workers, so that a redelivered *)
(* run meets the lock of its dead one or of the next period's.  Demo: two  *)
(* demo runs and the task over two orders of two shares; leases outlast    *)
(* runs by a tick.  Schedule: the loop and an operator, a heartbeat and    *)
(* that of the flatten, of which two are at work.  Purchases: two plans    *)
(* over three days, an account that has nothing or enough for the smaller  *)
(* one.  Data: a back-test of one request and one of a portfolio that      *)
(* shares it, of two ranges each, and a revision of the data or a file     *)
(* lost or rewired.                                                        *)
(* Signals: prices on both sides of the open within the gaps and     *)
(* ranges the rules ask for, an hour of each rule, a rich account, one     *)
(* with little cash and a small one whose cash is not known.  Records: an  *)
(* order of three shares that fill at two prices.  Back-tests: six bars,   *)
(* six days, and up to ten sessions of two or three bars.                  *)
(***************************************************************************)
EXTENDS TaskDelivery, DemoReconciliation, DemoSchedule, DcaSchedule, ResearchData, TLC

CONSTANTS NotStated, None

VARIABLES
    which,
    e_signal, e_position, e_partial, e_look,
    rec_order, rec_reading, rec_verdict, rec_ack,
    bt_sim, bt_session,
    pf_day, pf_cash, pf_holdings, pf_rebalanced, pf_flow,
    wf_groups, wf_warmup, wf_windows

e_vars == <<e_signal, e_position, e_partial, e_look>>
rec_vars == <<rec_order, rec_reading, rec_verdict, rec_ack>>
bt_vars == <<bt_sim, bt_session>>
pf_vars == <<pf_day, pf_cash, pf_holdings, pf_rebalanced, pf_flow>>
wf_vars == <<wf_groups, wf_warmup, wf_windows>>

MCBatch == <<"o1", "o2">>
MCEntryOf == [w \in Writers |-> "heartbeats"]
MCPolicies == {[base |-> 1, cadence |-> 1], [base |-> 2, cadence |-> 2]}
MCSnapshots == {[cash |-> 0, value |-> 0], [cash |-> 1, value |-> 2]}
MCRequestsOf == [single |-> <<"r1">>, portfolio |-> <<"r1", "r2">>]

Entries == INSTANCE EntrySignals
    WITH Levels <- {9600, 9800, 9960, 10000, 10040, 10300}, Ranges <- {40, 150},
         Minutes <- {905, 935, 1165, 1235}, Counts <- {14, 20, 24, 55},
         Histories <- {<<10, 12, 0 - 4, 20>>},
         Setups <- {<<[low |-> 9900, close |-> 10000], [low |-> 9700, close |-> 9850]>>},
         Accounts <- {[value |-> 100000, cash |-> 100000], [value |-> 100000, cash |-> 400],
                      [value |-> 1500, cash |-> 0]},
         Slips <- {0 - 30, 0, 20},
         signal <- e_signal, position <- e_position, partial <- e_partial, look <- e_look

Record == INSTANCE BrokerRecord
    WITH order <- rec_order, reading <- rec_reading, verdict <- rec_verdict, ack <- rec_ack,
         Qty <- 3, Prices <- {1, 7}

Bar(open, high, low, close) == [open |-> open, high |-> high, low |-> low, close |-> close]

Test == INSTANCE Backtest
    WITH sim <- bt_sim, session <- bt_session,
         Bars <- {Bar(4, 4, 4, 4), Bar(4, 4, 2, 3), Bar(3, 3, 3, 3), Bar(4, 5, 4, 5),
                  Bar(6, 6, 5, 6), Bar(2, 2, 2, 2)},
         Signals <- {[quantity |-> q, entry_price |-> 4, stop_price |-> 3,
                      take_profit_price |-> tp] : q \in {1, 2}, tp \in {5, 6}},
         initial_capital <- 24, Slippage <- 1, Fee <- 2, position_part <- 2, risk_part <- 4,
         max_holding_bars <- 2, LastBar <- 6

Portfolio == INSTANCE PortfolioBacktest
    WITH day <- pf_day, cash <- pf_cash, holdings <- pf_holdings, rebalanced <- pf_rebalanced,
         flow <- pf_flow, Stocks <- <<1, 2>>, Quotes <- [{1, 2} -> {3, 4, 7}],
         Weights <- {<<50, 50>>, <<100, 100>>, <<0, 100>>, <<60, 0>>, <<33, 67>>},
         initial_capital <- 60, Slippage <- 1, Fee <- 2, min_history_bars <- 1,
         PeriodOf <- <<1, 1, 2, 2, 3, 4>>

Walk == INSTANCE WalkForward
    WITH session_groups <- wf_groups, warmup_group <- wf_warmup, windows <- wf_windows,
         Sizes <- {2, 3}, MaxSessions <- 10, in_sample_bars <- 3, out_sample_bars <- 2,
         step_bars <- 9

EitherInit ==
    /\ which \in {"tasks", "demo", "schedule", "dca", "research", "signals", "record", "test",
                  "portfolio", "walk"}
    /\ TaskInit /\ OwnerInit /\ ScheduleInit /\ DcaInit /\ ResearchInit
    /\ Entries!Init /\ Record!Init /\ Test!Init /\ Portfolio!Init /\ Walk!Init

Others(own) ==
    /\ which = own
    /\ UNCHANGED which
    /\ own # "tasks" => UNCHANGED task_vars
    /\ own # "demo" => UNCHANGED owner_vars
    /\ own # "schedule" => UNCHANGED schedule_vars
    /\ own # "dca" => UNCHANGED dca_vars
    /\ own # "research" => UNCHANGED research_vars
    /\ own # "signals" => UNCHANGED e_vars
    /\ own # "record" => UNCHANGED rec_vars
    /\ own # "test" => UNCHANGED bt_vars
    /\ own # "portfolio" => UNCHANGED pf_vars
    /\ own # "walk" => UNCHANGED wf_vars

EitherNext ==
    \/ Others("tasks") /\ TaskNext
    \/ Others("demo") /\ OwnerNext
    \/ Others("schedule") /\ ScheduleNext
    \/ Others("dca") /\ DcaNext
    \/ Others("research") /\ ResearchNext
    \/ Others("signals") /\ Entries!Next
    \/ Others("record") /\ Record!Next
    \/ Others("test") /\ Test!Next
    \/ Others("portfolio") /\ Portfolio!Next
    \/ Others("walk") /\ Walk!Next

EitherSpec == EitherInit /\ [][EitherNext]_<<which, task_vars, owner_vars, schedule_vars, dca_vars,
                                             research_vars, e_vars, rec_vars, bt_vars, pf_vars, wf_vars>>

(* The first period's run comes first.  The second demo order is untouched *)
(* or as the first.  One plan keeps the smaller policy and buys once.  Time *)
(* passes for the schedule once a run is on record; once all are, one      *)
(* session is at work, as after a race unless one of two has the lock of   *)
(* the run.  The provider's data are revised or a file is damaged, not both. *)
Scheduling == Cardinality({s \in ScheduleSessions : sch_session[s] # AtRest})

FewAtOnce ==
    /\ published # {2}
    /\ book["o2"] \in {book["o1"], [status |-> "working", filled |-> 0]}
    /\ dca_config[2].base < 2
    /\ Len(dca_audit[2]) <= 1 /\ Len(dca_audit[1]) + Len(dca_audit[2]) <= 2
    /\ Scheduling <= IF sch_extra.scheduler.runs = 2 THEN 1 ELSE 2
    /\ sch_raced => Scheduling = 1 \/ (Scheduling = 2 /\ sch_run_lock # Nobody)
    /\ sch_meant.scheduler.runs = 0 => sch_now = 0
    /\ damages = 0 \/ provider = 1
    /\ which # "record" => ~ rec_order.reused

SymmetricRuns == {f @@ g : f \in Permutations(Messages), g \in Permutations(Workers)}

(* What is computed for others holds.  An entry: the stop of its signal and *)
(* its target are on their sides of the price, the reward is worth the     *)
(* risk, the cost is within the strategy's part of the account and the     *)
(* cash, and a look at its position leaves nothing at the stop or the      *)
(* target and, where the range is known, something between them.  A final  *)
(* state that is accepted of the broker is that of the order.  The result  *)
(* of a back-test is that of its trades, each entered after its signal; of *)
(* a portfolio, that of its money; and a validation tests on nothing it    *)
(* chose by.  And whatever it runs on is named in its report and stays.    *)
ResultsAreSound ==
    /\ which = "research" => ResearchIsSound
    /\ which = "signals" => Entries!SignalsAreSound
    /\ which = "record" => Record!RecordsAreTrue
    /\ which = "test" => Test!ResultIsOfItsTrades
    /\ which = "portfolio" => Portfolio!PortfolioAddsUp
    /\ which = "walk" => Walk!WindowsAreApart
=============================================================================
