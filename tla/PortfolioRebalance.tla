-------------------------- MODULE PortfolioRebalance --------------------------
(***************************************************************************)
(* The scheduled rebalance of one portfolio strategy                       *)
(* (services/portfolio_execution_service.py, workers/tasks.py              *)
(* run_portfolio_rebalance, the dry run of api/v1/routes/strategies.py).   *)
(*                                                                         *)
(* A run reads the broker's cash and positions once, and then sends its    *)
(* orders one after the other, each in a committed dispatch of its own.    *)
(* It records that the period is done only at its very end, so a run that  *)
(* is killed, or whose record is refused because the strategy was edited,  *)
(* leaves orders behind and a period that is still due.  What keeps the    *)
(* next run from asking for the same shares again is the broker's account  *)
(* and a wait until it can be trusted to show those orders.                *)
(*                                                                         *)
(* Every share costs 1.  Time passes in ticks; the age of a row saturates. *)
(* Only one scheduled run exists at a time (its task lock outlives its     *)
(* hard limit).  Other strategies appear as claims on the cash.            *)
(***************************************************************************)
EXTENDS Integers, Sequences, FiniteSets, FiniteSetsExt

CONSTANTS
    Tickers,        \* the strategy's universe, a set of numbers, in the
                    \* order in which their names sort
    InitialShares, TargetShares,    \* [Tickers -> Nat]
    InitialCash,
    Slots,          \* orders that may be under way or not yet forgotten
    Claims,         \* what other strategies may have claimed of the cash
    PeriodOf,       \* the period (month, quarter) of each trading day
    MAX_CASH_BLOCKED_ATTEMPTS,
    ORDER_SETTLE_TIME,
    CLOCK_TOLERANCE,
    RunLimit,       \* the run's time limit
    Lag             \* how long the broker's account may lag behind a row that
                    \* records an order's end

(* What ORDER_SETTLE_TIME is for: an order that ended that long before a    *)
(* run looks was shown when the run read the account.                       *)
ASSUME SettledOrdersAreShown ==
    /\ {RunLimit, Lag, ORDER_SETTLE_TIME, CLOCK_TOLERANCE} \subseteq Nat
    /\ MAX_CASH_BLOCKED_ATTEMPTS \in Nat
    /\ RunLimit + Lag <= ORDER_SETTLE_TIME

ASSUME TickersAreOrdered == Tickers \subseteq Nat

ASSUME SharesAndCash ==
    /\ InitialShares \in [Tickers -> Nat] /\ TargetShares \in [Tickers -> Nat]
    /\ InitialCash \in Nat /\ Claims \subseteq Nat
    /\ IsFiniteSet(Slots)

ASSUME PeriodsFollow ==
    /\ PeriodOf \in Seq(Nat \ {0}) /\ Len(PeriodOf) > 0
    /\ \A d, e \in 1 .. Len(PeriodOf) : d <= e => PeriodOf[d] <= PeriodOf[e]

VARIABLES
    settings,   \* kill switch and automatic trading, in app_settings
    day,        \* the last complete trading session, the decision date
    strategy,   \* the strategy's saved state: the period recorded as done and
                \* the cash-blocked attempts
    run,        \* the scheduled run, if one is under way
    dry,        \* an operator's dry run, if one is under way
    orders,     \* the strategy's real orders: their rows and what became of them
    shown       \* what the broker's account shows: positions and free cash

rebalance_vars == <<settings, day, strategy, run, dry, orders, shown>>

NoOrder == [row |-> "none"]
NoRun == [phase |-> "none"]
Old == ORDER_SETTLE_TIME + 1
Active == {"transmitting", "working", "submission_unknown"}
Used == {o \in Slots : orders[o] # NoOrder}

RebalanceInit ==
    /\ settings = [kill |-> FALSE, auto |-> TRUE]
    /\ day = 1
    /\ strategy = [mark |-> 0, attempts_on |-> 0, attempts |-> 0]
    /\ run = NoRun
    /\ dry = NoRun
    /\ orders = [o \in Slots |-> NoOrder]
    /\ shown = [shares |-> InitialShares, cash |-> InitialCash]

(* The row of the strategy has got a version this session did not load.    *)
Outdated(r) == IF r = NoRun THEN NoRun ELSE [r EXCEPT !.fresh = FALSE]

(***************************************************************************)
(* The run: gates, one reading of the account, the strategy's checks.      *)
(***************************************************************************)
(* run_all_enabled up to the reading, with the strategy loaded.            *)
ReadAccount ==
    /\ run = NoRun
    /\ ~settings.kill
    /\ settings.auto
    /\ run' = [phase |-> "read", elapsed |-> 0, shares |-> shown.shares, cash |-> shown.cash,
               on |-> day, loaded |-> strategy, fresh |-> TRUE, locked |-> FALSE,
               todo |-> {}, cash_blocks |-> FALSE, halt_blocks |-> FALSE,
               unconfirmed |-> FALSE, excused |-> {}]
    /\ UNCHANGED <<settings, day, strategy, dry, orders, shown>>

(* _rebalance_due.                                                         *)
Due(loaded, on) == loaded.mark # PeriodOf[on]

(* A mutant of InFlight: what has ended is not in flight.                   *)
OnlyActive == \E o \in Used : orders[o].row \in Active

(* _has_orders_in_flight.                                                  *)
InFlight == \E o \in Used : orders[o].row \in Active \/ orders[o].age <= ORDER_SETTLE_TIME

(* _build_rebalance_plan: sells first, then by ticker.                     *)
Side(t) == IF TargetShares[t] > run.shares[t] THEN "buy" ELSE "sell"
Quantity(t) ==
    IF Side(t) = "buy" THEN TargetShares[t] - run.shares[t] ELSE run.shares[t] - TargetShares[t]

_build_rebalance_plan == {t \in Tickers : Quantity(t) > 0}
ComesBefore(t, u) == IF Side(t) = Side(u) THEN t < u ELSE Side(t) = "sell"

(* What a run that makes no order saves: the state it loaded, and perhaps   *)
(* the period.  Like every record it needs the version it loaded.           *)
RecordUnplanned(marks) ==
    /\ run.phase = "read"
    /\ run.fresh
    /\ strategy' = IF marks THEN [run.loaded EXCEPT !.mark = PeriodOf[run.on]] ELSE run.loaded
    /\ run' = NoRun
    /\ dry' = Outdated(dry)
    /\ UNCHANGED <<settings, day, orders, shown>>

(* Market closed, market data that is missing, delayed or does not line up; *)
(* not due; or orders in flight.                                           *)
Skip == RecordUnplanned(FALSE)

(* A history that is too short and a strategy that is not promoted leave    *)
(* the decision date behind: the period counts as done.                    *)
SkipAndMark ==
    /\ run.phase = "read"
    /\ Due(run.loaded, run.on)
    /\ RecordUnplanned(TRUE)

(* The plan is made, and the first flush of the session writes the          *)
(* strategy's row: it must be the version that was loaded, and stays locked *)
(* until the first dispatch commits.                                        *)
MakePlan ==
    /\ run.phase = "read"
    /\ Due(run.loaded, run.on)
    /\ ~InFlight
    /\ _build_rebalance_plan # {}
    /\ run.fresh
    /\ run' = [run EXCEPT !.phase = "lines", !.todo = _build_rebalance_plan, !.locked = TRUE]
    /\ UNCHANGED <<settings, day, strategy, dry, orders, shown>>

(* Nothing to trade: the period is recorded at once.                       *)
AlreadyAligned ==
    /\ run.phase = "read"
    /\ Due(run.loaded, run.on)
    /\ ~InFlight
    /\ _build_rebalance_plan = {}
    /\ RecordUnplanned(TRUE)

(***************************************************************************)
(* One line of the plan.                                                   *)
(***************************************************************************)
AtLine == run.phase = "lines" /\ run.todo # {}
Line == CHOOSE t \in run.todo : \A u \in run.todo \ {t} : ComesBefore(t, u)
Halted == settings.kill \/ ~settings.auto

(* The allocator or a risk limit refuses a buy.  Sells pass both.           *)
RefuseForGood ==
    /\ AtLine
    /\ Side(Line) = "buy"
    /\ run' = [run EXCEPT !.todo = @ \ {Line}, !.excused = @ \union {Line}]
    /\ UNCHANGED <<settings, day, strategy, dry, orders, shown>>

(* A mutant of RefuseForHalt: any refusal counts alike.                     *)
HaltIsARefusal ==
    /\ AtLine
    /\ Side(Line) = "buy"
    /\ Halted
    /\ run' = [run EXCEPT !.todo = @ \ {Line}]
    /\ UNCHANGED <<settings, day, strategy, dry, orders, shown>>

(* A buy is refused because trading was halted after the run began.        *)
RefuseForHalt ==
    /\ AtLine
    /\ Side(Line) = "buy"
    /\ Halted
    /\ run' = [run EXCEPT !.todo = @ \ {Line}, !.halt_blocks = TRUE]
    /\ UNCHANGED <<settings, day, strategy, dry, orders, shown>>

(* The sum of the shares of each order: all shares, each with its order.   *)
Sum(shares) == Cardinality(UNION {{o} \X (1 .. shares[o]) : o \in DOMAIN shares})

(* Cash admission of create_order_intent: the cash as the run read it, less *)
(* every buy that reading cannot show.                                      *)
Unseen == {o \in Used : /\ orders[o].side = "buy"
                        /\ \/ orders[o].row \in Active
                           \/ orders[o].age <= run.elapsed + CLOCK_TOLERANCE}
Promised == Sum([o \in Unseen |-> orders[o].quantity])

(* A mutant of Admitted: the sales of this run are counted as cash.         *)
OnTheEstimate(claims) ==
    LET sold == {o \in Used : orders[o].side = "sell" /\ orders[o].row \in Active}
    IN  Quantity(Line) + Promised + claims
          <= run.cash + Sum([o \in sold |-> orders[o].quantity])

Admitted(claims) == Quantity(Line) + Promised + claims <= run.cash

RefuseForCash ==
    /\ AtLine
    /\ Side(Line) = "buy"
    /\ ~Halted
    /\ \E claims \in Claims : ~Admitted(claims)
    /\ run' = [run EXCEPT !.todo = @ \ {Line}, !.cash_blocks = TRUE]
    /\ UNCHANGED <<settings, day, strategy, dry, orders, shown>>

NewOrder(o, row, at) ==
    orders' = [orders EXCEPT ![o] =
        [row |-> row, ticker |-> Line, side |-> Side(Line), quantity |-> Quantity(Line),
         filled |-> 0, unshown |-> 0, at |-> at, age |-> 0]]

(* submit_order commits the dispatch.                                      *)
Dispatch(o) ==
    /\ AtLine
    /\ \A p \in Used : orders[p].row # "transmitting"
    /\ o \notin Used
    /\ Side(Line) = "buy" => ~Halted /\ \E claims \in Claims : Admitted(claims)
    /\ ~settings.kill
    /\ NewOrder(o, "transmitting", "sent")
    /\ run' = [run EXCEPT !.phase = "sending", !.locked = FALSE]
    /\ UNCHANGED <<settings, day, strategy, dry, shown>>

(* SafetyPolicyViolation: the kill switch was thrown before the dispatch.   *)
(* The row is closed and the strategy's run fails.                          *)
SubmitBlocked(o) ==
    /\ AtLine
    /\ o \notin Used
    /\ settings.kill
    /\ NewOrder(o, "ended", "gone")
    /\ run' = NoRun
    /\ UNCHANGED <<settings, day, strategy, dry, shown>>

(* The answer.  A refusal and an error are counted like an order accepted.  *)
Transmitting(o) == run.phase = "sending" /\ orders[o].row = "transmitting"

Accepted(o) ==
    /\ Transmitting(o)
    /\ orders[o].at # "gone"
    /\ orders' = [orders EXCEPT ![o].row = "working", ![o].at = IF @ = "sent" THEN "open" ELSE @,
                                ![o].age = 0]
    /\ run' = [run EXCEPT !.phase = "lines", !.todo = @ \ {Line}]
    /\ UNCHANGED <<settings, day, strategy, dry, shown>>

Refused(o) ==
    /\ Transmitting(o)
    /\ orders[o].at \in {"sent", "gone"}
    /\ orders[o].filled = 0
    /\ orders' = [orders EXCEPT ![o].row = "ended", ![o].at = "gone", ![o].age = 0]
    /\ run' = [run EXCEPT !.phase = "lines", !.todo = @ \ {Line},
                          !.excused = @ \union {orders[o].ticker}]
    /\ UNCHANGED <<settings, day, strategy, dry, shown>>

(* A mutant of NoAnswer: the rest of the plan goes on.                      *)
GoesOn(o) ==
    /\ Transmitting(o)
    /\ orders' = [orders EXCEPT ![o].row = "submission_unknown", ![o].age = 0]
    /\ run' = [run EXCEPT !.phase = "lines", !.todo = @ \ {Line}, !.unconfirmed = TRUE]
    /\ UNCHANGED <<settings, day, strategy, dry, shown>>

NoAnswer(o) ==
    /\ Transmitting(o)
    /\ orders' = [orders EXCEPT ![o].row = "submission_unknown", ![o].age = 0]
    /\ run' = [run EXCEPT !.phase = "lines", !.todo = {}, !.unconfirmed = TRUE,
                          !.excused = @ \union run.todo]
    /\ UNCHANGED <<settings, day, strategy, dry, shown>>

(***************************************************************************)
(* The end of the run.                                                     *)
(***************************************************************************)
(* _cash_blocked_attempts, and the run itself: attempts of another decision *)
(* date do not count.  Counted up to one more than the limit (a run that    *)
(* was halted as well goes past it).                                        *)
CashBlockedAttempts ==
    IF ~run.cash_blocks THEN 0
    ELSE Min({MAX_CASH_BLOCKED_ATTEMPTS + 1,
              1 + (IF run.loaded.attempts_on = run.on THEN run.loaded.attempts ELSE 0)})

ToBeContinued ==
    run.halt_blocks \/ (CashBlockedAttempts > 0 /\ CashBlockedAttempts < MAX_CASH_BLOCKED_ATTEMPTS)

(* The task's commit at the end writes the state as this run computed it    *)
(* from what it loaded.  The row's version must still be the one it knows;  *)
(* otherwise nothing is recorded, whatever was sent.                        *)
Finished == run.phase = "lines" /\ run.todo = {}

Record ==
    /\ Finished
    /\ run.fresh
    /\ strategy' = [mark |-> IF ToBeContinued THEN run.loaded.mark ELSE PeriodOf[run.on],
                    attempts_on |-> IF CashBlockedAttempts > 0 THEN run.on ELSE 0,
                    attempts |-> CashBlockedAttempts]
    /\ run' = NoRun
    /\ dry' = Outdated(dry)
    /\ UNCHANGED <<settings, day, orders, shown>>

(* The process dies, a limit is reached, or the version check refuses.      *)
RunLost ==
    /\ run # NoRun
    /\ run' = NoRun
    /\ UNCHANGED <<settings, day, strategy, dry, orders, shown>>

(***************************************************************************)
(* The operator.                                                           *)
(***************************************************************************)
Unlocked == run # NoRun => ~run.locked

(* Any edit of the strategy: the row gets a new version.                   *)
EditStrategy ==
    /\ Unlocked
    /\ \E r \in {run, dry} \ {NoRun} : r.fresh
    /\ run' = Outdated(run)
    /\ dry' = Outdated(dry)
    /\ UNCHANGED <<settings, day, strategy, orders, shown>>

(* POST /strategies/{id}/run-dry: forced, with no real order; the kill      *)
(* switch alone stops it.                                                   *)
BeginDryRun ==
    /\ dry = NoRun
    /\ ~settings.kill
    /\ dry' = [loaded |-> strategy, on |-> day, fresh |-> TRUE]
    /\ UNCHANGED <<settings, day, strategy, run, orders, shown>>

(* A mutant of DryRunWrites: no version is compared.                        *)
WritesAnyway ==
    /\ dry # NoRun
    /\ Unlocked
    /\ \E halted \in {FALSE, settings.kill} :
          strategy' = [mark |-> IF halted THEN dry.loaded.mark ELSE PeriodOf[dry.on],
                       attempts_on |-> 0, attempts |-> 0]
    /\ dry' = NoRun
    /\ run' = Outdated(run)
    /\ UNCHANGED <<settings, day, orders, shown>>

(* It records the period like a real run.                                  *)
DryRunWrites ==
    /\ dry # NoRun
    /\ dry.fresh
    /\ Unlocked
    /\ \E halted \in {FALSE, settings.kill} :
          strategy' = [mark |-> IF halted THEN dry.loaded.mark ELSE PeriodOf[dry.on],
                       attempts_on |-> 0, attempts |-> 0]
    /\ dry' = NoRun
    /\ run' = Outdated(run)
    /\ UNCHANGED <<settings, day, orders, shown>>

DryRunLost ==
    /\ dry # NoRun
    /\ dry' = NoRun
    /\ UNCHANGED <<settings, day, strategy, run, orders, shown>>

SetControls(kill, auto) ==
    /\ settings' = [kill |-> kill, auto |-> auto]
    /\ settings' # settings
    /\ kill => ~auto
    /\ UNCHANGED <<day, strategy, run, dry, orders, shown>>

(***************************************************************************)
(* The broker, and the reconciliation that reads its orders.               *)
(***************************************************************************)
Arrives(o) ==
    /\ o \in Used
    /\ orders[o].at = "sent"
    /\ orders' = [orders EXCEPT ![o].at = "open"]
    /\ UNCHANGED <<settings, day, strategy, run, dry, shown>>

IsLost(o) ==
    /\ o \in Used
    /\ orders[o].at = "sent"
    /\ orders[o].row = "submission_unknown" \/ run.phase # "sending"
    /\ orders' = [orders EXCEPT ![o].at = "gone"]
    /\ UNCHANGED <<settings, day, strategy, run, dry, shown>>

Fill(o) ==
    /\ o \in Used
    /\ orders[o].at = "open"
    /\ orders' = [orders EXCEPT ![o].filled = @ + 1, ![o].unshown = @ + 1,
           ![o].at = IF orders[o].filled + 1 = orders[o].quantity THEN "gone" ELSE "open"]
    /\ UNCHANGED <<settings, day, strategy, run, dry, shown>>

(* Cancelled or expired before it was filled completely.                   *)
EndShort(o) ==
    /\ o \in Used
    /\ orders[o].at = "open"
    /\ orders' = [orders EXCEPT ![o].at = "gone"]
    /\ run' = IF run = NoRun THEN NoRun
              ELSE [run EXCEPT !.excused = @ \union {orders[o].ticker}]
    /\ UNCHANGED <<settings, day, strategy, dry, shown>>

(* The account shows what was filled.                                      *)
Show(o) ==
    LET sign == IF orders[o].side = "buy" THEN 1 ELSE -1
    IN  /\ o \in Used
        /\ orders[o].unshown > 0
        /\ orders' = [orders EXCEPT ![o].unshown = 0]
        /\ shown' = [shares |-> [shown.shares EXCEPT
                                    ![orders[o].ticker] = @ + sign * orders[o].unshown],
                     cash |-> shown.cash - sign * orders[o].unshown]
        /\ UNCHANGED <<settings, day, strategy, run, dry>>

(* The row is given the end the order had, whatever it said before.         *)
Settle(o) ==
    /\ o \in Used
    /\ orders[o].row \in Active
    /\ orders[o].row # "transmitting" \/ run.phase # "sending"
    /\ orders[o].at = "gone"
    /\ orders' = [orders EXCEPT ![o].row = "ended", ![o].age = 0]
    /\ UNCHANGED <<settings, day, strategy, run, dry, shown>>

(***************************************************************************)
(* Time.  An order whose row ended long ago, shown in full, is forgotten.  *)
(***************************************************************************)
Older(order) ==
    IF order = NoOrder THEN NoOrder
    ELSE IF order.row = "ended" /\ order.age = ORDER_SETTLE_TIME /\ order.unshown = 0 THEN NoOrder
    ELSE [order EXCEPT !.age = IF order.row # "ended" \/ @ = Old THEN @ ELSE @ + 1]

RebalanceTick ==
    /\ \A o \in Used : orders[o].row = "ended" /\ orders[o].age >= Lag => orders[o].unshown = 0
    /\ run # NoRun => run.elapsed < RunLimit
    /\ orders' = [o \in Slots |-> Older(orders[o])]
    /\ run' = IF run = NoRun THEN NoRun ELSE [run EXCEPT !.elapsed = @ + 1]
    /\ run # NoRun \/ Used # {}
    /\ UNCHANGED <<settings, day, strategy, dry, shown>>

NextDay ==
    /\ day < Len(PeriodOf)
    /\ day' = day + 1
    /\ UNCHANGED <<settings, strategy, run, dry, orders, shown>>

RebalanceNext ==
    \/ ReadAccount \/ Skip \/ SkipAndMark \/ MakePlan \/ AlreadyAligned
    \/ RefuseForGood \/ RefuseForHalt \/ RefuseForCash
    \/ \E o \in Slots :
          \/ Dispatch(o) \/ SubmitBlocked(o)
          \/ Accepted(o) \/ Refused(o) \/ NoAnswer(o)
          \/ Arrives(o) \/ IsLost(o) \/ Fill(o) \/ EndShort(o) \/ Show(o) \/ Settle(o)
    \/ Record \/ RunLost
    \/ EditStrategy \/ BeginDryRun \/ DryRunWrites \/ DryRunLost
    \/ \E kill, auto \in BOOLEAN : SetControls(kill, auto)
    \/ RebalanceTick \/ NextDay

RebalanceSpec == RebalanceInit /\ [][RebalanceNext]_rebalance_vars

(***************************************************************************)
(* Properties.                                                             *)
(***************************************************************************)
OrderRecords ==
    [row : Active \union {"ended"}, ticker : Tickers, side : {"buy", "sell"}, quantity : Nat,
     filled : Nat, unshown : Nat, at : {"sent", "open", "gone"}, age : 0 .. Old]

(* The type invariant, with what an order's row and its fills may say of    *)
(* each other.                                                              *)
RebalanceTypeOK ==
    /\ settings \in [kill : BOOLEAN, auto : BOOLEAN]
    /\ day \in 1 .. Len(PeriodOf)
    /\ strategy.mark \in {0} \union Range(PeriodOf)
    /\ strategy.attempts \in 0 .. MAX_CASH_BLOCKED_ATTEMPTS + 1
    /\ strategy.attempts = 0 <=> strategy.attempts_on = 0
    /\ \A o \in Used :
          /\ orders[o] \in OrderRecords
          /\ orders[o].unshown <= orders[o].filled /\ orders[o].filled <= orders[o].quantity
    /\ shown.shares \in [Tickers -> Nat] /\ shown.cash \in Nat

Outstanding(o) ==
    orders[o].unshown + (IF orders[o].at = "gone" THEN 0
                         ELSE orders[o].quantity - orders[o].filled)

OfTicker(t, side) == {o \in Used : orders[o].ticker = t /\ orders[o].side = side}
AllOf(os) == Sum([o \in os |-> Outstanding(o)])

(* Whatever runs were killed, edited away, cash-blocked or left with an     *)
(* unknown outcome, all orders together never take a position past its      *)
(* target: nothing is bought or sold twice because an account did not show  *)
(* it yet.                                                                  *)
NeverOvershoots ==
    \A t \in Tickers :
        /\ shown.shares[t] + AllOf(OfTicker(t, "buy"))
             <= Max({InitialShares[t], TargetShares[t]})
        /\ shown.shares[t] - AllOf(OfTicker(t, "sell"))
             >= Min({InitialShares[t], TargetShares[t]})

(* The strategy's buys that the account does not show yet never cost more   *)
(* than the free cash it shows: a sale pays for a buy only once it is paid. *)
BuysAreCovered ==
    AllOf({o \in Used : orders[o].side = "buy"}) <= shown.cash

(* Orders stay within the target and within the cash.                       *)
StaysWithinBounds == RebalanceTypeOK /\ NeverOvershoots /\ BuysAreCovered

(* While the outcome of one order is unknown the strategy sends no other.   *)
UnknownHoldsTheStrategy ==
    \A o, p \in Slots :
        orders[o].row = "submission_unknown" /\ orders[p] = NoOrder
            => orders'[p].row # "transmitting"

(* What the account will hold once everything under way has filled.         *)
Coming(t) ==
    shown.shares[t] + AllOf(OfTicker(t, "buy")) - AllOf(OfTicker(t, "sell"))

(* A run with a plan records its period only if what it holds and has sent  *)
(* is the target, but for lines refused for good, ended at the broker or    *)
(* left behind an unknown outcome, and buys whose cash stayed claimed in    *)
(* as many runs as are allowed.  A halt never uses a period up.             *)
ClosedMeansDone ==
    ((Record \/ AlreadyAligned) /\ strategy'.mark # run.loaded.mark) =>
        \A t \in Tickers \ run.excused :
            Coming(t) = TargetShares[t] \/ (run.cash_blocks /\
                strategy'.attempts >= MAX_CASH_BLOCKED_ATTEMPTS)

(* No record, of a run or of a dry run, takes back a period recorded since  *)
(* it loaded the strategy.                                                  *)
MarkNeverGoesBack == strategy'.mark >= strategy.mark

(* A period is traded to its end, once.                                     *)
PeriodsAreTraded ==
    [][UnknownHoldsTheStrategy /\ ClosedMeansDone /\ MarkNeverGoesBack]_rebalance_vars
=============================================================================
