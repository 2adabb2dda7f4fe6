---------------------------- MODULE EntryAdmission ----------------------------
(***************************************************************************)
(* What an entry must pass before it is sent: the allocator of one run     *)
(* (services/signal_allocator.py) and the checks of risk/engine.py and     *)
(* risk/correlation.py, as the strategy runner and the manual order route  *)
(* go through them.                                                        *)
(*                                                                         *)
(* A run decides about many signals on one reading of the account, and     *)
(* keeps what it has allocated itself.  The checks are made against the    *)
(* database at each entry, and nothing is locked between them and the      *)
(* dispatch, so any number of manual requests may pass them together, with *)
(* the run and with each other, and trades may end in between.             *)
(*                                                                         *)
(* Values are parts of the account's total.  One UTC day is looked at.     *)
(***************************************************************************)
EXTENDS Integers, Sequences, FiniteSets

CONSTANTS
    EntryTickers,
    EntryCandidates,    \* signals: [ticker, strategy, notional, risk, live]
    ManualRequests,     \* those served at a time; the code sets them no limit
    Regimes,            \* of the market
    FreeCash,           \* the free cash the broker may report
    BASE_GROSS_EXPOSURE, VOLATILE_GROSS_EXPOSURE, RISK_OFF_GROSS_EXPOSURE,
    TRENDING_DOWN_GROSS,        \* 40 %, a number of the code
    MAX_SYMBOL_EXPOSURE, MAX_RUN_RISK,
    RISK_OFF_RUN_RISK, VOLATILE_RUN_RISK,   \* 0.50 % and 1.00 %, of the code
    max_sector,         \* of one sector; every ticker is of one sector
    max_position_size, max_portfolio_heat, max_open_positions, max_trades_per_day,
    max_daily_loss, stop_after_consecutive_losses,
    MaxDayOrders

ASSUME CandidatesAndCaps ==
    /\ IsFiniteSet(EntryTickers) /\ IsFiniteSet(ManualRequests)
    /\ EntryCandidates \subseteq [ticker : EntryTickers, strategy : STRING, notional : Nat,
                                  risk : Nat, live : BOOLEAN]
    /\ {BASE_GROSS_EXPOSURE, VOLATILE_GROSS_EXPOSURE, RISK_OFF_GROSS_EXPOSURE,
        TRENDING_DOWN_GROSS, MAX_RUN_RISK, RISK_OFF_RUN_RISK, VOLATILE_RUN_RISK,
        max_trades_per_day} \subseteq Nat

VARIABLES
    switches,       \* kill switch and automatic trading
    worth,          \* the value the broker holds of each ticker
    day_orders,     \* today's orders
    day_trades,     \* today's closed trades, the latest first
    entry_run,      \* the runner, if it is running
    manual_entries  \* the manual request each of ManualRequests serves, if any

admission_vars == <<switches, worth, day_orders, day_trades, entry_run, manual_entries>>

NoEntryRun == [phase |-> "none"]

AdmissionInit ==
    /\ switches = [kill |-> FALSE, auto |-> TRUE]
    /\ worth = [t \in EntryTickers |-> 0]
    /\ day_orders = <<>>
    /\ day_trades = <<>>
    /\ entry_run = NoEntryRun
    /\ manual_entries = [q \in ManualRequests |-> NoEntryRun]

DayIds == 1 .. Len(day_orders)
HeldTickers(held) == {t \in EntryTickers : held[t] > 0}

(* The total of what each of some things counts.                            *)
Total(counts) == Cardinality(UNION {{x} \X (1 .. counts[x]) : x \in DOMAIN counts})

_gross_exposure(held) == Total(held)

(***************************************************************************)
(* RiskEngine.                                                             *)
(***************************************************************************)
check_kill_switch == ~switches.kill
check_auto_trading_enabled == switches.auto

check_cash_guard(entry, free) == entry.notional <= free

check_duplicate_order(t) ==
    \A i \in DayIds :
        day_orders[i].ticker = t /\ day_orders[i].side = "buy" => day_orders[i].status # "working"

realized_loss_today == Total([i \in DOMAIN day_trades |-> day_trades[i].loss])

check_daily_loss_limit == realized_loss_today < max_daily_loss
check_max_open_positions(open) == open < max_open_positions
check_position_size(entry) == entry.notional <= max_position_size

(* A mutant of check_max_trades_today: only what filled is a trade.         *)
CountsTheFilled ==
    Cardinality({i \in DayIds : day_orders[i].status = "filled"}) < max_trades_per_day

check_max_trades_today ==
    Cardinality({i \in DayIds : day_orders[i].status # "ended"}) < max_trades_per_day

check_consecutive_losses ==
    stop_after_consecutive_losses > 0 /\ Len(day_trades) >= stop_after_consecutive_losses =>
        \E i \in 1 .. stop_after_consecutive_losses : day_trades[i].loss = 0

(* The cooldown is as long as the day here.                                *)
check_symbol_cooldown(t) == \A i \in DOMAIN day_trades : day_trades[i].ticker # t

(* The positions carry no risk of their own, so only the new one counts.   *)
check_portfolio_heat(entry) == entry.risk <= max_portfolio_heat

(* run_all_checks of a buy: open is the number of positions the caller read *)
run_all_checks(entry, free, open, stop_known) ==
    /\ check_kill_switch /\ check_auto_trading_enabled
    /\ check_cash_guard(entry, free)
    /\ check_duplicate_order(entry.ticker)
    /\ check_daily_loss_limit
    /\ check_max_open_positions(open)
    /\ check_position_size(entry)
    /\ check_max_trades_today
    /\ check_consecutive_losses
    /\ check_symbol_cooldown(entry.ticker)
    /\ stop_known => check_portfolio_heat(entry)

(* check_sector_exposure: the positions' values are looked for under names  *)
(* the broker does not use, so only the new one counts.                    *)
check_sector_exposure(entry) == entry.notional <= max_sector

(* The strategies a regime rules out.                                      *)
_strategy_policy(regime) ==
    CASE regime = "trending_up" -> {"opening_fade"}
      [] regime \in {"trending_down", "risk_off", "unsafe"} ->
            {"orb", "closing_momentum", "intraday_periodicity"}
      [] regime = "unknown" -> {}
      [] OTHER -> {"closing_momentum"}

trusted_regimes ==
    {"trending_up", "trending_down", "ranging", "risk_off", "unsafe", "high_volatility"}

(* The state of the feed, of the symbol's feed and of the catalysts is left *)
(* open: an entry they block is a signal the run does not have.            *)
check_market_conditions(entry, regime) ==
    /\ regime # "unknown"
    /\ regime \in trusted_regimes
    /\ regime # "high_volatility"
    /\ entry.strategy \notin _strategy_policy(regime)

(***************************************************************************)
(* SignalAllocator.                                                        *)
(***************************************************************************)
LesserOf(base, cap) == IF base < cap THEN base ELSE cap

_regime_gross_cap(regime) ==
    CASE regime \in {"unsafe", "low_liquidity"} -> 0
      [] regime = "risk_off" -> RISK_OFF_GROSS_EXPOSURE
      [] regime \in {"volatile", "news_driven"} -> VOLATILE_GROSS_EXPOSURE
      [] regime = "trending_down" -> LesserOf(VOLATILE_GROSS_EXPOSURE, TRENDING_DOWN_GROSS)
      [] OTHER -> BASE_GROSS_EXPOSURE

_regime_run_risk_cap(regime) ==
    CASE regime \in {"unsafe", "low_liquidity"} -> 0
      [] regime = "risk_off" -> LesserOf(MAX_RUN_RISK, RISK_OFF_RUN_RISK)
      [] regime \in {"volatile", "news_driven", "trending_down"} ->
            LesserOf(MAX_RUN_RISK, VOLATILE_RUN_RISK)
      [] OTHER -> MAX_RUN_RISK

(* The score is left open: a signal that does not reach the threshold is    *)
(* one the run does not have.                                              *)
_decide(entry) ==
    /\ entry.notional <= entry_run.free
    /\ entry.ticker \notin entry_run.accepted
    /\ _gross_exposure(entry_run.seen) + entry_run.value + entry.notional
         <= _regime_gross_cap(entry_run.regime)
    /\ entry_run.seen[entry.ticker] + entry.notional <= MAX_SYMBOL_EXPOSURE
    /\ entry_run.risk + entry.risk <= _regime_run_risk_cap(entry_run.regime)

(* A mutant of Allocated: every strategy starts from nothing.               *)
PerStrategy(entry) == entry_run

(* allocate_one: what was allocated stays so, whatever the checks say.     *)
Allocated(entry) ==
    [entry_run EXCEPT !.accepted = @ \union {entry.ticker}, !.value = @ + entry.notional,
                !.risk = @ + entry.risk]

(***************************************************************************)
(* The runner.                                                             *)
(***************************************************************************)
(* run_all_enabled: the gates, the regime, and one reading of the account.  *)
ReadForEntries(free, regime) ==
    /\ entry_run = NoEntryRun
    /\ check_kill_switch /\ check_auto_trading_enabled
    /\ entry_run' = [phase |-> "read", seen |-> worth, free |-> free, regime |-> regime,
                     first |-> Len(day_orders) + 1, for |-> {}, accepted |-> {},
                     value |-> 0, risk |-> 0]
    /\ UNCHANGED <<switches, worth, day_orders, day_trades, manual_entries>>

(* A ticker that is held is looked at for exits only.                      *)
Signalled(entry) ==
    /\ entry_run.phase = "read"
    /\ entry_run.seen[entry.ticker] = 0
    /\ check_market_conditions(entry, entry_run.regime)

Passes(entry) ==
    /\ run_all_checks(entry, entry_run.free, Cardinality(HeldTickers(entry_run.seen)), TRUE)
    /\ check_sector_exposure(entry)

(* Allocated, and passed by every check, or a dry run's.                   *)
Admit(entry) ==
    /\ Signalled(entry)
    /\ _decide(entry)
    /\ entry.live => Passes(entry)
    /\ entry_run' = IF entry.live
                    THEN [Allocated(entry) EXCEPT !.phase = "admitted", !.for = {entry}]
                    ELSE Allocated(entry)
    /\ UNCHANGED <<switches, worth, day_orders, day_trades, manual_entries>>

(* Allocated and then refused by a check.                                  *)
RiskBlock(entry) ==
    /\ Signalled(entry)
    /\ entry.live
    /\ _decide(entry)
    /\ ~Passes(entry)
    /\ entry_run' = Allocated(entry)
    /\ UNCHANGED <<switches, worth, day_orders, day_trades, manual_entries>>

(* Dispatched, or blocked there by the kill switch.                        *)
Placed(entry, by) ==
    /\ Len(day_orders) < MaxDayOrders
    /\ day_orders' = Append(day_orders,
           [ticker |-> entry.ticker, side |-> "buy", notional |-> entry.notional,
            risk |-> entry.risk, by |-> by,
            status |-> IF check_kill_switch THEN "working" ELSE "ended"])

SubmitEntry ==
    /\ entry_run.phase = "admitted"
    /\ \E entry \in entry_run.for : Placed(entry, "runner")
    /\ entry_run' = [entry_run EXCEPT !.phase = "read", !.for = {}]
    /\ UNCHANGED <<switches, worth, day_trades, manual_entries>>

(* Refused when its order is made, for the cash that open orders claim, for *)
(* an order like it that stands, or by the policy: allocated, never sent.  *)
(* An order that then ends in error is left out: nothing was sent, and it  *)
(* only counts against later entries.                                      *)
EntryRefused ==
    /\ entry_run.phase = "admitted"
    /\ entry_run' = [entry_run EXCEPT !.phase = "read", !.for = {}]
    /\ UNCHANGED <<switches, worth, day_orders, day_trades, manual_entries>>

EndEntryRun ==
    /\ entry_run # NoEntryRun
    /\ entry_run' = NoEntryRun
    /\ UNCHANGED <<switches, worth, day_orders, day_trades, manual_entries>>

(***************************************************************************)
(* The manual orders: each has its own reading and passes the same checks,  *)
(* without the allocator.                                                  *)
(***************************************************************************)
ManualAdmit(q, entry, free) ==
    /\ manual_entries[q] = NoEntryRun
    /\ entry.live
    /\ run_all_checks(entry, free, Cardinality(HeldTickers(worth)), FALSE)
    /\ manual_entries' = [manual_entries EXCEPT ![q] = [phase |-> "admitted", for |-> {entry}]]
    /\ UNCHANGED <<switches, worth, day_orders, day_trades, entry_run>>

ManualSubmit(q) ==
    /\ manual_entries[q].phase = "admitted"
    /\ \E entry \in manual_entries[q].for : Placed(entry, "manual")
    /\ manual_entries' = [manual_entries EXCEPT ![q] = NoEntryRun]
    /\ UNCHANGED <<switches, worth, day_trades, entry_run>>

(* Refused as a run's entry is, or the request ended before its order.     *)
ManualRefused(q) ==
    /\ manual_entries[q].phase = "admitted"
    /\ manual_entries' = [manual_entries EXCEPT ![q] = NoEntryRun]
    /\ UNCHANGED <<switches, worth, day_orders, day_trades, entry_run>>

(***************************************************************************)
(* The broker, the exits, and the operator.                                *)
(***************************************************************************)
EntryFills(i) ==
    /\ day_orders[i].status = "working"
    /\ day_orders' = [day_orders EXCEPT ![i].status = "filled"]
    /\ worth' = [worth EXCEPT ![day_orders[i].ticker] = @ + day_orders[i].notional]
    /\ UNCHANGED <<switches, day_trades, entry_run, manual_entries>>

CancelOrReject(i) ==
    /\ day_orders[i].status = "working"
    /\ day_orders' = [day_orders EXCEPT ![i].status = "ended"]
    /\ UNCHANGED <<switches, worth, day_trades, entry_run, manual_entries>>

(* An exit is an order of the day and ends a trade.                        *)
PositionExits(t, loss) ==
    /\ worth[t] > 0
    /\ Len(day_orders) < MaxDayOrders
    /\ day_orders' = Append(day_orders,
           [ticker |-> t, side |-> "sell", notional |-> worth[t],
            risk |-> 0, by |-> "exit", status |-> "filled"])
    /\ worth' = [worth EXCEPT ![t] = 0]
    /\ day_trades' = <<[ticker |-> t, loss |-> loss]>> \o day_trades
    /\ UNCHANGED <<switches, entry_run, manual_entries>>

SetSwitches(kill, auto) ==
    /\ kill => ~auto
    /\ switches' = [kill |-> kill, auto |-> auto]
    /\ switches' # switches
    /\ UNCHANGED <<worth, day_orders, day_trades, entry_run, manual_entries>>

AdmissionNext ==
    \/ \E free \in FreeCash, regime \in Regimes : ReadForEntries(free, regime)
    \/ \E entry \in EntryCandidates :
          \/ Admit(entry) \/ RiskBlock(entry)
          \/ \E q \in ManualRequests, free \in FreeCash : ManualAdmit(q, entry, free)
    \/ SubmitEntry \/ EntryRefused \/ EndEntryRun
    \/ \E q \in ManualRequests : ManualSubmit(q) \/ ManualRefused(q)
    \/ \E i \in DayIds : EntryFills(i) \/ CancelOrReject(i)
    \/ \E t \in EntryTickers, loss \in {0, 1} : PositionExits(t, loss)
    \/ \E kill, auto \in BOOLEAN : SetSwitches(kill, auto)

AdmissionSpec == AdmissionInit /\ [][AdmissionNext]_admission_vars

(***************************************************************************)
(* Properties.                                                             *)
(***************************************************************************)
(* The type invariant.                                                     *)
AdmissionTypeOK ==
    /\ switches \in [kill : BOOLEAN, auto : BOOLEAN]
    /\ worth \in [EntryTickers -> Nat]
    /\ \A i \in DayIds : day_orders[i] \in
          [ticker : EntryTickers, side : {"buy", "sell"}, notional : Nat, risk : Nat,
           by : {"runner", "manual", "exit"}, status : {"working", "filled", "ended"}]
    /\ \A i \in DOMAIN day_trades : day_trades[i] \in [ticker : EntryTickers, loss : {0, 1}]
    /\ entry_run.phase \in {"none", "read", "admitted"}
    /\ \A q \in ManualRequests : manual_entries[q].phase \in {"none", "admitted"}

EntryBuys(by) == {i \in DayIds : day_orders[i].side = "buy" /\ day_orders[i].by = by}

(* What one run sends, together, with what it saw to be held, stays within  *)
(* the caps of its regime, although each signal is decided on its own, some *)
(* are refused after they were allocated, and orders fill meanwhile.       *)
RunStaysWithinCaps ==
    entry_run # NoEntryRun =>
        LET sent == {i \in EntryBuys("runner") : i >= entry_run.first}
            notional == Total([i \in sent |-> day_orders[i].notional])
            risk == Total([i \in sent |-> day_orders[i].risk])
        IN  /\ notional > 0 =>
                 _gross_exposure(entry_run.seen) + notional <= _regime_gross_cap(entry_run.regime)
            /\ risk <= _regime_run_risk_cap(entry_run.regime)
            /\ \A i, j \in sent : day_orders[i].ticker = day_orders[j].ticker => i = j

(* Over a day, all its runs and all its requests, entries exceed the day's  *)
(* number by no more than passed the check together, which with the run is *)
(* one for each request served at a time: the excess comes of overlapping  *)
(* and does not grow with what is asked for one after another.             *)
DayStaysWithinTrades ==
    Cardinality({i \in EntryBuys("runner") \union EntryBuys("manual") :
                   day_orders[i].status # "ended"})
        <= max_trades_per_day + Cardinality(ManualRequests)

(* The limits hold for what is admitted together.                          *)
LimitsHoldTogether == AdmissionTypeOK /\ RunStaysWithinCaps /\ DayStaysWithinTrades
=============================================================================
