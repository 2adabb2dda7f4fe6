---------------------------- MODULE StrategyTrading ----------------------------
(***************************************************************************)
(* Automated trading of one stock by one live strategy: the runner that    *)
(* enters and exits (services/strategy_runner.py), the position monitor    *)
(* that exits (services/position_monitor.py), and the orders they send     *)
(* through the execution engine.                                           *)
(*                                                                         *)
(* Each task runs alone under its lock, but the two run at the same time,  *)
(* each on its own reading of the broker's positions, and each in one      *)
(* session: what a run has decided is saved only with the commit of a      *)
(* dispatch or at the run's end.  What stands between them and a second    *)
(* order are three identities kept in the database: a signal per decision, *)
(* an order per signal, and the active order of the same side.             *)
(*                                                                         *)
(* Prices are left out: at each look the strategy may or may not want to   *)
(* enter, and any exit rule may apply.  Orders fill completely or not at   *)
(* all.                                                                    *)
(***************************************************************************)
EXTENDS Integers, Sequences, FiniteSets, FiniteSetsExt

CONSTANTS
    LastBar,        \* five-minute bars, 1 .. LastBar
    EntryShares,    \* shares an entry asks for
    MaxOrders       \* orders at most

ASSUME BarsAndShares == LastBar \in Nat \ {0} /\ EntryShares \in Nat \ {0} /\ MaxOrders \in Nat

Bars == 1 .. LastBar
ExitTypes == {"partial_exit", "stop"}   \* a stop stands for every full exit

VARIABLES
    controls,       \* kill switch and automatic trading
    bar,            \* the last complete bar
    signals,        \* the saved signals
    stock_orders,   \* the orders, in the order of their intents
    runner,         \* the runner's task, if it is running
    monitor,        \* the monitor's task, if it is running
    held,           \* the shares the broker holds for the account
    cut_short       \* history: entries whose run died before it was saved

trading_vars == <<controls, bar, signals, stock_orders, runner, monitor, held, cut_short>>

NoTask == [phase |-> "none"]
ActiveRows == {"pending_intent", "submission_unknown", "submitted"}

TradingInit ==
    /\ controls = [kill |-> FALSE, auto |-> TRUE]
    /\ bar = 1
    /\ signals = [entries |-> [b \in Bars |-> "none"], exits |-> {}, partial |-> FALSE]
    /\ stock_orders = <<>>
    /\ runner = NoTask
    /\ monitor = NoTask
    /\ held = 0
    /\ cut_short = {}

(***************************************************************************)
(* Reading the positions.                                                  *)
(***************************************************************************)
Ids == 1 .. Len(stock_orders)
OpenSells == {i \in Ids : stock_orders[i].at = "open" /\ stock_orders[i].side = "sell"}

(* The shares that open sells claim, each with its order.                  *)
Claimed == Cardinality(UNION {{i} \X (1 .. stock_orders[i].quantity) : i \in OpenSells})

(* The position as the broker reports it: quantity, and maxSell without     *)
(* what open sells already claim.                                          *)
Position == [held |-> held, max_sell |-> held - Claimed]

(* The gates of run_all_enabled and of run.                                *)
Allowed == ~controls.kill /\ controls.auto

RunnerReads ==
    /\ runner = NoTask
    /\ Allowed
    /\ runner' = [phase |-> "read", seen |-> Position]
    /\ UNCHANGED <<controls, bar, signals, stock_orders, monitor, held, cut_short>>

MonitorReads ==
    /\ monitor = NoTask
    /\ Allowed
    /\ held > 0
    /\ monitor' = [phase |-> "read", seen |-> Position]
    /\ UNCHANGED <<controls, bar, signals, stock_orders, runner, held, cut_short>>

(***************************************************************************)
(* Orders of the engine.                                                   *)
(***************************************************************************)
(* An order is made for a decision: the runner's entry or exit on a bar, or *)
(* the monitor's exit of the entry on a bar.                               *)
Decision(by, type, b) == [by |-> by, type |-> type, bar |-> b]

Order(d, side, quantity, row, at) ==
    [of |-> d, side |-> side, quantity |-> quantity, row |-> row, at |-> at]

(* Dispatched: the row says submission_unknown before anything is sent.    *)
Dispatched(d, side, quantity) ==
    /\ Len(stock_orders) < MaxOrders
    /\ stock_orders' = Append(stock_orders, Order(d, side, quantity, "submission_unknown", "sent"))

(***************************************************************************)
(* The runner: entries.                                                    *)
(***************************************************************************)
Deciding == runner.phase = "read"

(* No usable bars, market conditions, no signal, a venue gate, or a signal  *)
(* that was already made: nothing is done.                                 *)
RunnerPasses ==
    /\ Deciding
    /\ runner' = NoTask
    /\ UNCHANGED <<controls, bar, signals, stock_orders, monitor, held, cut_short>>

(* A mutant of NewEntry: what was decided before is not looked up.          *)
AnySignal == TRUE

(* _create_signal_once.                                                    *)
NewEntry == signals.entries[bar] = "none"

(* A mutant of NoActiveBuy: an unknown order is not counted as active.      *)
KnownActiveOnly ==
    \A i \in Ids : stock_orders[i].side = "buy" =>
                    stock_orders[i].row \notin ActiveRows \ {"submission_unknown"}

(* check_duplicate_order.                                                  *)
NoActiveBuy == \A i \in Ids : stock_orders[i].side = "buy" => stock_orders[i].row \notin ActiveRows

(* Refused by the allocator, a risk check, or for cash: the signal says so  *)
(* when the run is saved.                                                  *)
RefuseEntry ==
    /\ Deciding
    /\ runner.seen.held = 0
    /\ NewEntry
    /\ runner' = [phase |-> "refused", bar |-> bar, status |-> "rejected"]
    /\ UNCHANGED <<controls, bar, signals, stock_orders, monitor, held, cut_short>>

(* The signal is saved, still pending, with the commit of the dispatch.     *)
DispatchEntry ==
    /\ Deciding
    /\ runner.seen.held = 0
    /\ NewEntry
    /\ Allowed
    /\ NoActiveBuy
    /\ Dispatched(Decision("runner", "entry", bar), "buy", EntryShares)
    /\ signals' = [signals EXCEPT !.entries[bar] = "pending"]
    /\ runner' = [phase |-> "sent", of |-> Decision("runner", "entry", bar)]
    /\ UNCHANGED <<controls, bar, monitor, held, cut_short>>

(* The kill switch is found at the dispatch: the order is closed.           *)
BlockEntry ==
    /\ Deciding
    /\ runner.seen.held = 0
    /\ NewEntry
    /\ controls.kill
    /\ NoActiveBuy
    /\ runner' = [phase |-> "refused", bar |-> bar, status |-> "error"]
    /\ signals' = [signals EXCEPT !.entries[bar] = "pending"]
    /\ Len(stock_orders) < MaxOrders
    /\ stock_orders' = Append(stock_orders, Order(Decision("runner", "entry", bar), "buy",
                                                  EntryShares, "ended", "none"))
    /\ UNCHANGED <<controls, bar, monitor, held, cut_short>>

(***************************************************************************)
(* The exit rules both tasks apply.                                        *)
(***************************************************************************)
Executed == {b \in Bars : signals.entries[b] = "executed"}

(* check_exit_conditions: a partial exit once, a stop at any time.          *)
Applies(type) == type = "partial_exit" => ~signals.partial

SellQuantity(type, seen) ==
    IF type = "partial_exit" THEN seen.max_sell \div 2 ELSE seen.max_sell

(***************************************************************************)
(* The runner: exits.                                                      *)
(***************************************************************************)
DispatchExit(type) ==
    LET d == Decision("runner", type, bar)
    IN  /\ Deciding
        /\ runner.seen.held > 0
        /\ Executed # {}
        /\ Applies(type)
        /\ SellQuantity(type, runner.seen) > 0
        /\ ~controls.kill
        /\ d \notin signals.exits
        /\ Dispatched(d, "sell", SellQuantity(type, runner.seen))
        /\ signals' = [signals EXCEPT !.exits = @ \union {d}]
        /\ runner' = [phase |-> "sent", of |-> d]
        /\ UNCHANGED <<controls, bar, monitor, held, cut_short>>

(***************************************************************************)
(* The answers, and the end of the run.                                    *)
(***************************************************************************)
Last(d) == Max({i \in Ids : stock_orders[i].of = d})

(* Accepted, refused or unknown: the row is committed, the signal not yet.  *)
AnswerRows == {"submitted", "ended", "submission_unknown"}

Answer(task, row) ==
    LET i == Last(task.of)
    IN  /\ task.phase = "sent"
        /\ row = "submitted" => stock_orders[i].at # "sent"
        /\ row = "ended" => stock_orders[i].at = "sent"
        /\ stock_orders' = [stock_orders EXCEPT
                               ![i].row = row, ![i].at = IF row = "ended" THEN "gone" ELSE @]

(* A mutant of RunnerAnswer: an unknown outcome is an error of the signal. *)
UnknownIsAnError(row) ==
    IF row = "submission_unknown" /\ runner.of.type = "entry"
    THEN [phase |-> "refused", bar |-> runner.of.bar, status |-> "error"]
    ELSE [phase |-> "answered", of |-> runner.of]

RunnerAnswer(row) == [phase |-> "answered", of |-> runner.of]

RunnerAnswered ==
    /\ \E row \in AnswerRows : Answer(runner, row) /\ runner' = RunnerAnswer(row)
    /\ UNCHANGED <<controls, bar, signals, monitor, held, cut_short>>

(* The task's commit.  An entry that was dispatched is executed whatever    *)
(* its outcome; so is an exit.                                             *)
RunnerSaves ==
    /\ runner.phase \in {"refused", "answered"}
    /\ signals' =
          IF runner.phase = "refused" THEN [signals EXCEPT !.entries[runner.bar] = runner.status]
          ELSE IF runner.of.type = "entry"
               THEN [signals EXCEPT !.entries[runner.of.bar] = "executed"]
               ELSE [signals EXCEPT !.partial = @ \/ runner.of.type = "partial_exit"]
    /\ runner' = NoTask
    /\ UNCHANGED <<controls, bar, stock_orders, monitor, held, cut_short>>

RunnerDies ==
    /\ runner # NoTask
    /\ cut_short' = cut_short \union
          (IF runner.phase \in {"sent", "answered"} THEN {runner.of.bar} ELSE {})
    /\ runner' = NoTask
    /\ UNCHANGED <<controls, bar, signals, stock_orders, monitor, held>>

(***************************************************************************)
(* The monitor.                                                            *)
(***************************************************************************)
Watching == monitor.phase = "read"

(* No executed entry, no price, or no exit rule applies.                   *)
MonitorPasses ==
    /\ Watching
    /\ monitor' = NoTask
    /\ UNCHANGED <<controls, bar, signals, stock_orders, runner, held, cut_short>>

ExitWanted(type) ==
    /\ Watching
    /\ Executed # {}
    /\ Applies(type)
    /\ SellQuantity(type, monitor.seen) > 0

(* The order of this entry's exit, whichever exit it was made for.          *)
MonitorDecision == Decision("monitor", "exit", Max(Executed))

(* A mutant of Standing: only an order of the same size stands.             *)
SameSize(type) ==
    {i \in Ids : stock_orders[i].of = MonitorDecision
                   /\ stock_orders[i].quantity = SellQuantity(type, monitor.seen)}

(* create_order_intent: an order of this entry's exit that exists, of       *)
(* whatever size.                                                          *)
Standing(type) == {i \in Ids : stock_orders[i].of = MonitorDecision}

(* A standing order that was never sent is sent now, in its own size.       *)
MonitorDispatches(type) ==
    /\ ExitWanted(type)
    /\ ~controls.kill
    /\ IF Standing(type) = {}
       THEN Dispatched(MonitorDecision, "sell", SellQuantity(type, monitor.seen))
       ELSE \E i \in Standing(type) :
               /\ stock_orders[i].row = "pending_intent"
               /\ stock_orders' = [stock_orders EXCEPT
                                      ![i].row = "submission_unknown", ![i].at = "sent"]
    /\ monitor' = [phase |-> "sent", of |-> MonitorDecision, type |-> type]
    /\ UNCHANGED <<controls, bar, signals, runner, held, cut_short>>

(* Blocked by the kill switch: a sell keeps its intent.                    *)
MonitorBlocked(type) ==
    /\ ExitWanted(type)
    /\ controls.kill
    /\ Standing(type) = {}
    /\ Len(stock_orders) < MaxOrders
    /\ stock_orders' = Append(stock_orders,
                               Order(MonitorDecision, "sell", SellQuantity(type, monitor.seen),
                                     "pending_intent", "none"))
    /\ monitor' = NoTask
    /\ UNCHANGED <<controls, bar, signals, runner, held, cut_short>>

(* An unknown exit is recorded as no exit at all.                          *)
MonitorAnswered ==
    /\ \E row \in AnswerRows :
          /\ Answer(monitor, row)
          /\ monitor' = IF row = "submission_unknown" THEN NoTask
                        ELSE [monitor EXCEPT !.phase = "answered"]
    /\ UNCHANGED <<controls, bar, signals, runner, held, cut_short>>

MonitorSaves ==
    /\ monitor.phase = "answered"
    /\ signals' = [signals EXCEPT !.partial = @ \/ monitor.type = "partial_exit"]
    /\ monitor' = NoTask
    /\ UNCHANGED <<controls, bar, stock_orders, runner, held, cut_short>>

MonitorDies ==
    /\ monitor # NoTask
    /\ monitor' = NoTask
    /\ UNCHANGED <<controls, bar, signals, stock_orders, runner, held, cut_short>>

(***************************************************************************)
(* The broker, the reconciliation, the operator, and time.                 *)
(***************************************************************************)
(* A sell needs shares no other open sell claims.                          *)
OrderArrives(i) ==
    /\ stock_orders[i].at = "sent"
    /\ stock_orders[i].side = "sell" => stock_orders[i].quantity <= Position.max_sell
    /\ stock_orders' = [stock_orders EXCEPT ![i].at = "open"]
    /\ UNCHANGED <<controls, bar, signals, runner, monitor, held, cut_short>>

Fills(i) ==
    /\ stock_orders[i].at = "open"
    /\ stock_orders' = [stock_orders EXCEPT ![i].at = "gone"]
    /\ held' = IF stock_orders[i].side = "buy" THEN held + stock_orders[i].quantity
               ELSE held - stock_orders[i].quantity
    /\ UNCHANGED <<controls, bar, signals, runner, monitor, cut_short>>

(* Cancelled, expired, or lost on the way.                                 *)
Ends(i) ==
    /\ stock_orders[i].at \in {"sent", "open"}
    /\ stock_orders' = [stock_orders EXCEPT ![i].at = "gone"]
    /\ UNCHANGED <<controls, bar, signals, runner, monitor, held, cut_short>>

BeingSent(i) ==
    \E task \in {runner, monitor} : task.phase = "sent" /\ i = Last(task.of)

Reconcile(i) ==
    /\ ~BeingSent(i)
    /\ stock_orders[i].row \in {"submission_unknown", "submitted"}
    /\ stock_orders[i].at = "gone"
    /\ stock_orders' = [stock_orders EXCEPT ![i].row = "ended"]
    /\ UNCHANGED <<controls, bar, signals, runner, monitor, held, cut_short>>

SetTradingControls(kill, auto) ==
    /\ kill => ~auto
    /\ controls' = [kill |-> kill, auto |-> auto]
    /\ controls' # controls
    /\ UNCHANGED <<bar, signals, stock_orders, runner, monitor, held, cut_short>>

NextBar ==
    /\ bar < LastBar
    /\ bar' = bar + 1
    /\ UNCHANGED <<controls, signals, stock_orders, runner, monitor, held, cut_short>>

TradingNext ==
    \/ RunnerReads \/ RunnerPasses \/ RefuseEntry \/ DispatchEntry \/ BlockEntry
    \/ RunnerAnswered \/ RunnerSaves \/ RunnerDies
    \/ MonitorReads \/ MonitorPasses \/ MonitorAnswered \/ MonitorSaves \/ MonitorDies
    \/ \E type \in ExitTypes :
          \/ DispatchExit(type) \/ MonitorDispatches(type) \/ MonitorBlocked(type)
    \/ \E i \in Ids : OrderArrives(i) \/ Fills(i) \/ Ends(i) \/ Reconcile(i)
    \/ \E kill, auto \in BOOLEAN : SetTradingControls(kill, auto)
    \/ NextBar

TradingSpec == TradingInit /\ [][TradingNext]_trading_vars

(***************************************************************************)
(* Properties.                                                             *)
(***************************************************************************)
Decisions == [by : {"runner", "monitor"}, type : ExitTypes \union {"entry", "exit"}, bar : Bars]

(* The type invariant; an order that is still an intent has not been sent,  *)
(* and the account never sells what it does not hold.                      *)
TradingTypeOK ==
    /\ controls \in [kill : BOOLEAN, auto : BOOLEAN]
    /\ bar \in Bars
    /\ signals.entries \in [Bars -> {"none", "pending", "rejected", "error", "executed"}]
    /\ signals.exits \subseteq Decisions
    /\ \A i \in Ids : stock_orders[i] \in
          [of : Decisions, side : {"buy", "sell"}, quantity : Nat \ {0},
           row : ActiveRows \union {"ended"}, at : {"none", "sent", "open", "gone"}]
    /\ \A i \in Ids : stock_orders[i].row = "pending_intent" => stock_orders[i].at = "none"
    /\ held \in Nat
    /\ runner.phase \in {"none", "read", "refused", "sent", "answered"}
    /\ monitor.phase \in {"none", "read", "sent", "answered"}

(* One order for one decision: runs that are killed and run again on the    *)
(* same bar, and a monitor that looks every minute, never send a second     *)
(* order for an entry, an exit of a bar, or the exit of an entry.           *)
OneOrderPerDecision ==
    \A i, j \in Ids : stock_orders[i].of = stock_orders[j].of => i = j

(* An entry is sent only when every earlier entry has ended at the broker:  *)
(* not while one works there, nor while nobody knows what became of it.     *)
EarlierEntriesAreOver ==
    Len(stock_orders') > Len(stock_orders) /\ stock_orders'[Len(stock_orders')].at = "sent"
            /\ stock_orders'[Len(stock_orders')].side = "buy" =>
        \A i \in Ids : stock_orders[i].side = "buy" => stock_orders[i].at \in {"none", "gone"}

NoEntryOverAnother == [][EarlierEntriesAreOver]_trading_vars

(* A position that an entry may have opened is watched: the entry's signal  *)
(* is executed, so that both tasks find its stop, unless the run that sent  *)
(* it is not saved yet or died before that.                                *)
SentEntriesAreWatched ==
    \A i \in Ids :
        LET d == stock_orders[i].of
        IN  d.type = "entry" /\ stock_orders[i].at # "none" =>
               \/ d.bar \in Executed
               \/ d.bar \in cut_short
               \/ runner.phase \in {"sent", "answered"} /\ runner.of = d

(* What runner and monitor decided is done once and kept track of.          *)
DecisionsAreKept == TradingTypeOK /\ OneOrderPerDecision /\ SentEntriesAreWatched
=============================================================================
