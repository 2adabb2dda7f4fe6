# Formal model of T212 CashGuard Trader

TLA+ modules of the parts of this program that are hard to test, TLC
configurations that check them on small instances, and TLAPS proofs of the
results that matter most for every size of instance. Paths below are relative
to `src/apps/api/app/` unless they start with `docs/`.

The rule for every definition: it is read off the code, one action per
operation with all the state it changes. Prices, wording, logging and the layout
of records are left out; every guard, early return, commit and lock is kept.

## 1. The system

A FastAPI process, Celery workers and an in-process scheduler share one
PostgreSQL database and one Redis, and talk to a broker (Trading 212) over HTTP.
Everything that matters is in database rows; processes hold copies of them
between statements, and any process can stop at any point.

| Component | State it keeps | Operations | Hard because of | Correct when |
|---|---|---|---|---|
| **Order submission** `execution/engine.py`, `state_machine.py` | `orders`, `order_submission_attempts`, `order_events`, `risk_events` | `submit_order`, the outcome recorders, `reconcile_order`, `reconcile_unknown_submission` | a request whose answer is lost; a crash between dispatch and answer; an answer later than reconciliation; orders that look alike | a request goes out at most once and only on record; an order is called ended only when it has ended; nothing stays unknown in silence |
| **Cash admission** `execution/cash_reservation.py` | `orders` rows as reservations, an advisory lock | `_admit_against_cash` inside `create_order_intent` | figures read before other orders ended; clocks that differ; overlapping transactions; savepoints | open buys never cost more than the account has |
| **Order cancellation** `execution/engine.py`, `cancellation.py` | order rows, `cancel_request_accepted` events, row locks | `cancel_order`, `request_cancel`, `confirm_cancel`, `cancel_many` | an accepted request is not a cancelled order; fills in between; one failure in a batch; batches locking many rows | no live order is hidden, no accepted request forgotten, the report is true, everyone gets through |
| **Scheduled reconciliation** `services/scheduled_reconciliation.py`, `reconciliation_*.py` | `retry_count`, `last_reconciled_at`, the account scopes, a Redis lease | one run: bind connections, queue, lock, read, settle, commit | back-off; accounts that fail; orders and connections without an account on record | every due order is asked about; nothing is settled from another account; what goes wrong is reported |
| **Demo reconciliation** `services/demo_*reconciliation*.py` | the same rows, scheduler state | worker runs, ticks, time limit | no row locks; a stalled process whose lease has ended | what is on record is never taken back |
| **Broker records** `execution/broker_record.py`, `acknowledgement.py` | none | field-by-field checks | records that leave facts out, contradict each other, or are one of several | a final state that is believed is the order's |
| **End-of-day flatten** `services/eod_flatten.py` | `eod_flatten_operations` | `run`, claim, submit, synchronise | crash between claim and submission; other sellers of the same holding | one sell per strategy, session and ticker; no oversell by itself; what is unresolved blocks later sessions |
| **Paper ledger** `execution/paper_engine.py`, `paper_operations.py` | paper account, snapshots, receipts | execute, fill, look up, replay | repeated requests; concurrent fills; a lost acknowledgement of a commit | exactly once per operation id; account and orders agree |
| **System control** `services/system_control.py`, `telegram_control.py`, `operations/recovery.py` | `app_settings`, pending confirmations | halt, clear, pause, resume, flatten-all, confirm | the settings row is read without a lock; duplicate webhook delivery; a reply before the commit | after a halt nothing is started but what had already looked; a confirmation acts once; the report is true |
| **Live dispatch** `services/live_*.py`, `broker/live_guard.py` | connections, unlock flag, evidence snapshots | connect, test, record evidence, unlock, authorize, last-mile checks | permission spread over three rows that change while a request waits | nothing live goes out on a permission withdrawn before its last check |
| **Portfolio execution** `services/portfolio_execution_service.py` | the period marked as done, attempts | scheduled run, dry run | a run that dies after its orders and before its record; an account that shows them late | targets are not passed; a period is closed only when it was traded |
| **Strategy runner, position monitor** `services/strategy_runner.py`, `position_monitor.py` | signals, orders | enter, exit, watch | two tasks on their own reading of positions; death between two commits | one order per decision; what may be open is watched |
| **Risk engine, allocator** `risk/`, `services/signal_allocator.py` | none of their own | checks of an entry | figures read without a lock | entries admitted together stay within the caps |
| **Strategy promotion** `services/strategy_promotion.py` | JSON in the strategy's row | promote, demote, revoke, review | everybody else writes the same JSON as a whole | a decision is neither lost nor comes back |
| **Celery infrastructure** `workers/*`, `core/redis.py` | task locks, dead letters | lock, run, retry, record | leases without fencing; redelivery | one run at a time; no run lost with its worker |
| **Scheduled purchases** `workers/tasks_dca.py` | plans, states, audit | configure, evaluate, commit | one commit for all plans, errors caught inside | books, audit and report agree |
| **Back-tests** `backtest/` | none shared | one symbol, portfolio, walk-forward | long accumulations; windows | the trades explain the capital; nothing is chosen on what it is tested on |
| **Back-test data** `backtest/data_fetcher.py`, `dataset_cache.py`, `routes/backtest.py` | datasets, manifests and references as files; jobs in memory | run a job, load, fetch, publish | three files to a dataset; jobs that fetch the same one; damaged files | a back-test ran on what it reports, and that stays |
| Market data, scanner, indicators, circuit breaker, start-up, attribution, alerts, routes, web client, scripts | — | calculations, I/O, presentation | — | see section 8 |

How they interact: strategies and routes ask the **risk engine** and
**cash admission** for an intent (an order row), **order submission** dispatches
it (in live mode after **live dispatch** has authorized it), **reconciliation**
settles what submission could not, **cancellation**, the **end-of-day flatten**, the
**runner**, the **monitor** and the **rebalance** act on the same rows, and all of them meet
at four points only: the row lock and version of an order (or of a strategy), the
advisory lock of an account's admissions, the settings row, and the Redis task locks.

## 2. The modules

| Module | Models | Properties are |
|---|---|---|
| `OrderStates` | the order states and transitions (`state_machine.py`) | — |
| `OrderSubmission`, `MCOrderSubmission` | submission, its outcome, late answers, reconciliation by id and by history | proved; liveness checked |
| `CashReservation`, `MCCashReservation` | admission of buy orders against cash | proved |
| `OrderCancellation`, `MCOrderCancellation` | cancellation by one caller or in a batch, the reconciler | proved; liveness checked |
| `EodFlatten`, `MCEodFlatten` | the end-of-day flatten, its orders, and the other sellers | proved |
| `PaperOperations`, `MCPaperOperations` | the paper ledger and its identified commands | proved |
| `PaperOnce` | abstract: an identified command takes effect once | refined by `PaperOperations`, proved |
| `SystemControl`, `MCSystemControl` | switches, emergency exits, Telegram, offline block | proved |
| `LiveDispatch`, `MCLiveDispatch` | from the evidence to the last look before a real order leaves | proved |
| `LivePermission` | abstract: a grant is given by its owner's action and is otherwise only lost | refined by `LiveDispatch`, proved |
| `Reconciliation`, `MCReconciliation` | the scheduled reconciler's queue, scopes, turns and back-off | proved; liveness checked |
| `PortfolioRebalance` | one portfolio strategy's scheduled runs | proved |
| `StrategyTrading` | runner and monitor on one stock | proved |
| `EntryAdmission`, `AdmissionInvariant` | what an entry must pass, and the inductive invariant of it | proved |
| `StrategyPromotion` | promotion beside every other writer of the strategy's row | proved |
| `MCAutomation` | the last four, each on its own | — |
| `TaskDelivery` | delivery, lock, retry and loss of a periodic task | proved |
| `DemoReconciliation` | the owners of reconciliation under one lease | proved |
| `DemoSchedule` | the demo scheduler's ticks, and the settings' JSON with its other writers | proved |
| `DcaSchedule` | scheduled purchases | proved |
| `ResearchData` | back-test jobs, the provider, and the content-addressed cache | proved |
| `BrokerRecord` | what is believed of the broker's records and answers | checked |
| `EntrySignals` | what the strategies ask for, and when a position is left | checked |
| `Backtest`, `PortfolioBacktest`, `WalkForward` | the three back-testing loops | checked |
| `MCBackground` | the last ten, each on its own | — |
| `…Proofs` | theorems about the modules they are named after; `PermissionProofs` is about `LiveDispatch`, `StrategyPromotion`, `DemoSchedule` and `ResearchData`, and `ScheduledTasksProofs` about `TaskDelivery`, `Reconciliation`, `PortfolioRebalance`, `DemoReconciliation`, `StrategyTrading`, `EntryAdmission` and `DcaSchedule` | — |

An `MC` module that composes independent modules (`MCAutomation`, `MCBackground`)
chooses one of them at the start, and every other one's variables keep their initial
values. Nothing is shared between them: they are in one run because each is small.

### 2.1 OrderSubmission

A **session** is one run of `submit_order`. It loads its order row (`Load`),
returns early or simulates (`BlockedByPolicy`, `SimulateFill`, `CannotPrepare`),
commits the dispatch (`CommitDispatch`: status `submission_unknown`, an attempt
row), sends (`Transmit`, `NotTransmitted`), receives (`ReceiveAcknowledgement`,
`ReceiveRefusal`, `ReceiveContradiction`, `AnswerUnusable`) and records
(`RecordAcknowledgement`, `RecordNoOrder`, `RecordUnknownOutcome`,
`AcknowledgementNotSaved`). Each recorder first re-reads the status under the row
lock (`_resolved_elsewhere`); if it has changed, the outcome is only evidence
(`RecordLate`). `fresh` says whether the session's copy of the row is the current
one: writing from a stale copy fails on `orders.version` (`StaleWrite`). A session
dies at any point (`SessionDies`).

A **clerk** is one transaction of the reconciler on one order without a broker id:
`LookUp` locks the row (skipping one that is held) and raises the missing alarm,
`ReadHistory` takes the matching records of the moment, `DropLinked` and
`Claimable` are the two queries that protect an adoption, and `Identify`,
`Settle` or `LeaveUnresolved` commits. The two queries and the commit are
separate steps because other sessions commit in between. Orders with an id are
settled by `RecordFinalState`, `RecordStillOpen` and `ReadRefused`.
`CancelLocally` is the cancellation of an order that was never sent.

The **broker** is external: a request on the way (`wire`) is taken, refused or
lost, whether or not the session still waits, and orders fill, end, or are placed
by hand (`OrderFromOutside`). `LookAlikes` is the set of orders (and possibly the
outsider) whose records a history search cannot tell apart: same instrument,
side, quantity and time window.

`WrongIdentityShows` says what becomes of a wrong adoption. The list of linked ids is
read before the adopted id is written, so two rows *can* carry one broker id; if the
broker order belongs to `p`, then `p` has that link too, or `p` is itself linked to a
third one's order. And where the answer on record names another id than the row, the
conflict is on record. An order can take one that was placed by hand and looks the same:
nothing in its record says otherwise.

### 2.2 CashReservation

A **run** reads an account's cash once (`ReadCash`, with the time of the reading,
a missing time, or a clock that is ahead), and asks for any number of orders
with that one figure: `Ask`, `TakeTurn` (`pg_try_advisory_xact_lock`) or `GiveUp`
(`ADMISSION_WAIT`), then `FindStanding`, `Admit` or `Refuse`. `Admit` compares the
cost with the figure less `PromisedElsewhere`, the sum in
`cash_promised_elsewhere`. The row becomes visible and the turn is given back at
`Commit`; `Leave` is the end, failure or lost connection of the run.
`TurnAfterSavepoint` is the savepoint rule of `_admit_against_cash`.

Money is counted in *coins*, pairs of an order and a number up to its cost, so
that a sum of costs is the cardinality of a set. A partial fill takes one coin
(`BrokerTakesCash`).

Limits: costs are the estimates the code itself reserves (a market order can fill
above its estimate; that gap is the risk engine's buffer, not this mechanism's);
deposits and proceeds of sales are left out, because they only add cash. Rows
count per account and venue as `_same_account` says, also rows and callers
without an account.

### 2.3 OrderCancellation

A **session** is one caller of `cancel_order` (`Singles`) or of `cancel_many` (the
others): the cancel route, cancel-all, the emergency stop, the timed-out-order
task. It works through a list in one transaction. `fate[s][o]` is the place of an
order in the `CancelBatch`. `AskForRow` waits for the row lock, then one of
`FindEnded`, `BlockUnknown`, `CancelLocally`, `FindAccepted`, `SendTaken`,
`SendFails`; the reads are `ReadFinal`, `ReadOpen`, `ReadNothing`, `ReadFails`,
`NotSaved` (the savepoint of one order is undone), `NotRead`; then
`AskAgainTaken`, `AskAgainFails`, `NotAskedAgain`; then `Commit`, or at any point
`Abort` or `DeadlockVictim`. `draft` is the row as the lock holder sees it; `row` is
the committed one. The order in which a batch takes its rows is left open, because
the queries behind the lists have no `ORDER BY`.

`BrokerTakesRequest` lets the broker take a request at once, later, or in name only
(the order works on), and `SendFails` includes a request that was taken and whose
answer was lost. The reconciler (`ReconcilerSettles`, `ReconcilerSeesWorking`) takes
up rows nobody has locked.

"Committed" and "reported" are one step (`Commit`): the cancel route's report is
sent before its transaction commits, so a commit that fails then is outside what
`ReportIsTrue` says.

### 2.4 EodFlatten

A **worker** is one run of `check_eod_flatten` for one ticker. `Begin` takes the due
strategies; for each of them `Synchronize` promotes the operations whose order has
ended, `Weigh` computes the net quantity (or `CannotWeigh` hands it to a person), and
one of `FindCompleted`, `FindStopped`, `FindUnderWay`, `Blocked`, `RefuseNegative`,
`BecomeCandidate` decides. Deciding reads the operation and `Mark` writes it, with other
steps in between, because no version or lock protects it. Then one look at the broker
for all candidates (`ReadPosition`, `ReadFails`), `Check`, and either `Refuse` for each or
`ClaimWithOrderIntent` (operation and intent in one commit, under the unique key) or
`ClaimLost`. A claimed sell goes through `GateRefuses` (the switch is read again),
`Dispatch`, `Transmit` or `NotTransmitted`, `Answer` or `NoAnswer`, and `Conclude`. `Die`
can come at any of these points, and `End` forgets all a worker held in memory.

`op[s][d]` is the operation of strategy `s` and session `d`, `row[s][d]` and `size[s][d]` its
order, `book[s][d]` what the broker has of that order and how often it was sent. The
rest is the surroundings: the broker, the reconciler (`Reconcile`), cancel-all and the
timed-out-order task (`CancelIntent`), buys, the switch, the calendar, and the position
monitor (`StartExit`, `EndExit`), which sells under a strategy's entry up to the whole
position, so that shares held by hand or by another strategy can be among them.

Two workers may overlap: the Redis lock is a lease of 150 seconds, and
`docs/SAFETY_MODEL.md` calls the rows "the correctness boundary". A run never lasts into
the next session (`NextDay`), because the task is killed after 120 seconds.

`disturbed` is a history variable, read by properties only. A strategy is disturbed once
workers have overlapped, or one of its exits began or ended while a run relied on its
figures. For those strategies the flatten *can* sell more than the strategy has:
nothing ties the quantities weighed, the position read and the claim together. This is
why `SellsWhatIsAttributed` and `ReentryIsReal` (together `FollowsTheRecords`) name the
exception. `ReentryIsReal` has a second one: a run that weighed the strategy as oversold
writes `reentry_blocked` as well, even if a buy has made the net zero meanwhile.

Limits: demo mode (the paper and live modes refuse before any of this); one ticker; which
strategies are due is a choice (`eod_due_window` is calendar arithmetic); the steps
between two commits that nobody else can tell apart are one step.

### 2.5 PaperOperations and PaperOnce

A **request** is one database transaction of one user on one ticker: an order with an
operation identity, one without, a follow-up fill, or a look-up. An identified one
takes the user's row (`TakeUser`), reads the receipt and answers from it
(`ReadReceipt`), makes sure there is a paper account (`CreateConnection`), locks it
(`LockPaperConnection`) and executes (`Execute`: fill policy, risk checks, staged order,
ledger effects and receipt). `FillPartialOrder` fills the rest of an order;
a refusal of it is first written to the audit on another connection
(`PersistRejection`). `Commit` may succeed without the client being told
(`Reconcile` and `Lookup` are how it asks), and a request fails or dies anywhere (`Fail`,
`Die`). `Switch` is the halt, which waits for those who share the settings row
(`ShareSettings`). Quantities, fees and cash are whole numbers, kept exactly.

`stranded[r]` is a history variable: what the order of `r` recorded when its fill was
staged and the ledger refused the effects. `LedgerAddsUp` compares the account with the
orders' fills *less* those: the route without identities commits an order it could not
book (section 5).

`PaperOnce` promises that an identity takes effect once, that its receipt never changes,
and that whoever is told an outcome is told the receipt's.

### 2.6 SystemControl

A **request** is one session of the web or of Telegram: `FromTheWeb`, `Dispatch` (queue,
confirm or drop a Telegram request) or `BlockControls` (the offline recovery). `ReadForHalt`,
`CommitHalt`, `ConcludeHalt`, `DeactivateKillSwitch`, `PauseAutoTrading` and
`ResumeAutoTrading` are the switches; the flatten is `ReadPositions`, then for each position
`FindStanding` or `CreateIntent`, `SubmissionAllowed` or `SubmissionRefused`, `SubmitExit`,
and `Flattened`. What a session changed is `staged` until `Flush`, where it writes only the columns it
changed and takes the rows' locks, and `Commit`; for Telegram the reply goes out in between, and a
reply that fails (`Fails`) undoes what was not yet committed. `met` and `unheeded` are history
variables: which sessions were open together, and the exits sent after a halt that the sender
had not read. `Other` is the end-of-day flatten with intents of its own.

### 2.7 LiveDispatch and LivePermission

`BeginConnect`/`ConnectStores` and `BeginTest`/`TestRecords` are the two requests that ask
the broker between reading and writing the connection (`Unchanged` compares the credentials'
revision); `Record` is an owner's evidence, `lock_live` and `Halt` take it back, `Expire`
makes everything older. An order is authorized under all three row locks with its dispatch,
looks again without locks (account before settings), waits for the rate limit, looks once more, and
is sent. `withdrawn` is the history of what was taken from it while it was on its way.
Uuids are numbers that no record still holds (`Unused`).

`LivePermission` promises that evidence is granted by its owner's action and is otherwise
only ever lost, and that one owner at a time has any. The refinement is of the evidence
that *counts now* (`FreshEvidence`), not of what is stored.

### 2.8 Reconciliation

One run: `StartRun` opens the active connections (credentials that cannot be read switch
theirs off), binds one connection to each account and forms the queues; `Attempt` is one
order in one transaction (`ReconcileOne`, a locked row, a failed read, a failed commit),
`EndRun` writes the report, `Killed` is the time limit. `Tick` lets waits pass, `OtherWriter` is
anybody else who settles or locks a row, `ChangeConnection` the users between runs. `line` is each
order's place by `last_reconciled_at` (an attempt moves it to the end), `level` and `wait` the back-off with the broker's `Retry-After`.

Limits: attempts dated in the future, orders without an environment and legacy orders
without an id are only counted by the code and are left out.

### 2.9 The parts of MCAutomation

*Rebalance*: a run reads the account once (`ReadAccount`), skips or plans (`Skip`,
`SkipAndMark`, `MakePlan`, `AlreadyAligned`), and takes its lines one by one: refused
(`RefuseForGood`, `RefuseForHalt`, `RefuseForCash`), dispatched, accepted, refused, or without an
answer. The lines still to do are a set of tickers, of which `Line` is the next: sells first, then by
ticker, as the plan sorts them. `Record` closes the period or counts an attempt, unless the strategy's row has changed
(`EditStrategy`); `RunLost` is the death of a run. The broker shows a fill in the account later (`Show`).
*Trading*: the runner and the monitor, each in one session (`RunnerReads` … `RunnerSaves`,
`MonitorReads` … `MonitorSaves`, or `…Dies`), with a signal per decision, an order per signal,
and the active order of the same side between them.
*Admission*: a run reads the account once (`ReadForEntries`) and keeps account of what it has allocated since
(`_decide`, `Allocated`); an allocated entry passes the risk checks (`Admit`) or stays allocated without an order (`RiskBlock`),
and is sent (`SubmitEntry`), or refused when its order is made (`EntryRefused`). The regime decides which strategies may enter
(`check_market_conditions`) and under which caps. Manual requests (`ManualRequests`, any number of them) pass the same checks beside it and
beside each other (`ManualAdmit`, `ManualSubmit`, `ManualRefused`): nothing is locked between a request's checks and its dispatch. The buys of a
rebalance and the paper engine's orders call `run_all_checks` in the same way and are such requests here. Fills, cancellations,
exits and the switches come in between.
*Promotion*: the row of a strategy (`strategy_row`) and the copies of it that sessions hold, the row lock or the version check of
every writer of the JSON (`Decide` makes every other copy stale), runs that commit entries, and the decisions made (`activity`).

### 2.10 The parts of MCBackground

`TaskDelivery`: a message a period, delivered, taken again from a lost worker, the lease
lock, skip, retry and dead letter. `DemoReconciliation`: demo runs and the scheduled task
under the lease; processes stall past it; row versions and row locks. `DemoSchedule`: a tick decides
(`should_run_now`, `Begin`), runs the worker, reads the record of the last run and writes its own
(`ReadPrevious`, `PersistResult`, `Flush`, `Commit`), while heartbeats, operators and the market monitor write the same JSON
value; `sch_raced` is set when a commit meets an older reading made without the row's lock. While it is
not, every entry is what its writers made of it (`EntriesAreKept`) and no run is due or at work in a
back-off (`BackoffIsHeeded`); the record agrees with itself even then (`RecordAddsUp`), and one run works at a time (`RunsAlone`). `DcaSchedule`: plans in
one session, with failing statements (which abort the transaction silently) and failing
flushes: a plan's state is the sum of its audit trail (`BooksAgree`), no window is bought twice (`OncePerWindow`),
and a run that returns has saved what it reports (`ReportedIsSaved`). `BrokerRecord`:
the open order, then the account's newest records, then the instrument's, against a broker that
fills in between. `Backtest`, `PortfolioBacktest`, `WalkForward`: the loops over bars, rebalances
and windows, with integer money.

`EntrySignals`: one operator per strategy (`OpeningRangeBreakout` … `KrakenHTFBreakout`) over what the
indicators may say of a session's bars (`Markets`), the sizes and levels in whole numbers
(`Generate`), the entry a little beside its price (`Enter`), and the looks of the runner and
the monitor, which both start from the stop of the signal (`Look`). `LevelsAreInOrder`: stop and target
are on their sides and the reward is worth the risk. `CostIsBounded`: the strategy's part of the account and the
cash, but for rounding. `Bracketed`: at the stop or the target nothing is left, and between them
something is, if the range is known.

`ResearchData`: a **job** (`StartJob`) takes its requests one after the other. Where there is a reference for a request, the
manifest and the object it names are read and compared (`LoadDataset`, whose refusals end in `FailJob`). Where there is none, the provider is asked
range by range (`AskProvider`, `FetchRange`), and what it gave, unless it holds no bar of a session, is published by three
writes (`PublishDataset`, `WriteFile`, in `WriteOrder`). The process holds its event loop between these writes, but it can die
there (`ProcessDies`): its jobs are then unknown, and their files stay, or go with the container. The files are
named by the hash of what is in them, so that an object and its content, a manifest and its fields, are one thing in the
model, and a file that no longer is what its name says is refused like one that is gone (`LoseFile`). A reference is named by its
request alone, and so can be wired to other files (`Rewire`). A manifest carries the time of its retrieval: it is one
publication's. `RunsOnWhatItReports` holds whatever happens to the files; `EvidenceStays` while nothing is damaged.

## 3. What each run checks

| Run | Properties | Instance | Shows |
|---|---|---|---|
| `submission` | `TransmittedOnceOnRecord`, `OutcomesAreTrue`, `UnknownIsAlarmed`, `WrongIdentityShows`, `KnownOnEvidence` | a live buy and a dry-run order; two live orders that look alike to each other and to one placed by hand; 3 sessions, 2 clerks, 2 broker ids | sessions race for an intent while others and the reconcilers interfere, with crashes and lost and late answers anywhere; wrong adoptions |
| `submission_live` | `DispatchesConclude` | one order, 2 sessions, 1 clerk, orders placed by hand that do not look like it | an unknown outcome is alarmed or becomes known; what the broker took and ended is settled |
| `cash` | `PromisesAreCovered`, `TurnIsKeptForARow` | two runs, two orders of cost 1 and 2, cash 2, tolerance 1, skew 1, clock to 2 | cash is never promised twice; the turn goes with its row |
| `cancel` | `NoLiveOrderIsHidden`, `ReportIsTrue`, `NobodyAsksTwice` | two orders of quantity 2, a batch and a single cancellation | the safety of cancellation |
| `cancel_live` | `CancellationsConclude` | two batches over two rows | nobody waits for ever, because the database breaks the lock cycle; unconfirmed orders are settled |
| `flatten` | `SoldOncePerSession`, `UnresolvedBlocksLater`, `FollowsTheRecords` | two strategies, two workers, two sessions, up to two shares bought, one held by hand | one sell per strategy and session; what is unresolved blocks; no oversell by the flatten alone; late fills are not new positions |
| `paper` | `LedgerAddsUp`, `RefusalIsOnRecord`, `HaltStopsFills`, `TakesEffectOnce` | three requests of any kind, one identity, five commands | the ledger is the orders' fills; a halt stops fills; `PaperOnce` is implemented |
| `control` | `HaltIsHeeded`, `CompleteIsTrue`, `ConfirmationsAreTrue` | three requests, two positions, one of them with an intent of the end-of-day flatten | what a halt can be too late for; a flatten's report; confirmations delivered twice |
| `live` | `OnlyPermittedOrdersLeave`, `ImplementsPermission` | two administrators, a request each, one order, one review beside test and unlock | no order leaves on a withdrawn permission; `LivePermission` is implemented |
| `recon` | `SettledAtHome`, `AttemptsAreKept`, `NothingIsOverlooked`, `KeepsAsking` | two connections, three orders, one unknown, one connection and one order perhaps without an account | whose orders are asked about where, in which order, how often, and what is said of it |
| `automation` | `StaysWithinBounds`, `DecisionsAreKept`, `LimitsHoldTogether`, `PromotionHolds`, `PeriodsAreTraded`, `NoEntryOverAnother` | below | rebalance runs; the runner with the monitor; limits; promotion |
| `background` | `RunsAreKept`, `OwnersWorkAlone`, `KnownIsNotTakenBack`, `PlanKeepsItsBooks`, `ScheduleIsTrue`, `ResultsAreSound` | below | what works beside the orders, each part on its own |

Several of the properties are conjunctions of named parts, some with the type invariant among them (`OutcomesAreTrue ==
FinalStatesAreTrue /\ AttemptsAreTrue`, `HaltIsHeeded`, `ReportIsTrue`, …); the parts carry
the comments.

**Bounds.** Two orders are enough for every interaction between orders (a wrong
adoption, a lock cycle, two buys on one cash figure): each is between a pair. Three
sessions on one order let one die after the dispatch, one hold a stale copy and one arrive
late. Quantity 2 gives unfilled, partly and wholly filled. Sessions, clerks and workers may act
again after they have finished, so the number of runs is not bounded by their number.
Constraints keep the graphs small, in safety runs only:

- `submission` (`FewAtOnce`): either the plain and the dry-run order move or the two that look
  alike. The former with every session and clerk; the latter with two at work at once, of which
  at most one a clerk; where an order placed by hand is like them, with one session, and the
  second of the two only after the first is linked.
- `cash`: the clock stops at 2; with a tolerance of 1 a row can end before, at and after the
  edge of the tolerance of a figure.
- `flatten` (`SecondIsBrief`, `ExitsAreFew`): the second strategy takes part on the first
  day, with one share, while no workers overlap; exits of up to two shares per strategy, and
  none in behaviours whose workers overlap, for which the properties that exits matter to say
  nothing. Two sessions let an operation be met again in a later one; the share held by hand is the
  smallest that can be sold by mistake.
- `paper` (`FewAtOnce`): two of three requests overlap and the third runs before, between or after
  them. The cash is just enough for one order, so that both cash refusals and a sell
  whose fee cannot be paid occur.
- `control` (`FewAtOnce`): two requests open at once, one flatten; it may be confirmed twice where
  there is one position. Flattens of the web and of Telegram are not in one behaviour.
- `live`: the second administrator only gets in the way (`FewAtOnce`), and states that agree on
  every comparison of uuids are one state (`VIEW Compared`): uuids are only ever
  compared. The ages are fresh or expired (`MaxAge` 0).
- `recon`: two back-off steps, two orders a run, one failed read ends an account's turn.
- `automation`: one share to sell and two to buy with the cash for one of them, a
  period of two days and one of a single day; two order slots (a plan has two lines, and no run
  plans while an earlier order is kept). Two bars and three orders for runner and monitor.
  One entry a day (`max_trades_per_day`), two manual requests beside the run, so that three entries may pass the check
  together, and a fourth order (`MaxDayOrders`), so that the bound on the day's entries could be exceeded; caps for both tickers, the
  larger or only the smaller, by the regime; one order that ends in nothing and one trade that closes. Two sessions beside the promotion flow
  and three decisions.
- `background`: two periods, messages and workers (the demo worker's runs share the
  workers' names); demo orders of two shares, the second untouched or as the
  first; a loop, an operator and two heartbeats over two runs and three times, two of them at work; two plans over three days; an order of three shares at two prices;
  six bars, six days, ten sessions. For signals, a few prices on both sides of the open, ranges, minutes in and outside of
  every strategy's window, and bar counts on both sides of every minimum, so that each of the seven strategies signals. Two
  back-test jobs overlap on one request, and the portfolio goes on to its second one; two ranges let the provider revise its data within
  one retrieval, so that a dataset holds both versions; a lost file or a rewired reference (`MaxDamages` 1) and a revision are not in
  one behaviour. The header of `MCBackground` says each.

The theorems of section 6 have none of these bounds and constraints.

**Deadlock** checking is off in every run but `recon`: each system may come to rest (every
order ended, nobody asking, the clock at its bound). That nobody is stuck is stated
as liveness instead.

**Symmetry** is used in safety runs only, over names that appear in no constant that
tells them apart.

## 4. Fairness

- *Reconciliation of one order* (`submission_live`, `cancel_live`): the scheduled task runs every
  30 seconds and takes every due order in turn, so an order that is due again and
  again is taken up (strong fairness of the look-up and of settling, since a row can
  be held by somebody else when the task comes by). Reads fail, but not for ever
  (`<>[]` without `ClerkFails`, strong fairness of `ReadHistory`), and a transaction
  that has begun goes on (weak fairness of `ClerkStep`).
- *The broker* (`submission_live`): a request on its way arrives or is lost; what it
  took it fills or ends. Nothing is assumed of a session: it may die or hang.
- *Cancellation*: a session goes on whenever it is not waiting for a row lock
  (strong fairness of `GoOn`; PostgreSQL queues lock requests, every holder's
  transaction is bounded by its task's or request's time limit), and PostgreSQL ends
  one transaction of a deadlock (`DeadlockVictim`).
- *The scheduled run* (`recon`): beat starts a run every 30 seconds, a run that is started goes on
  (`WF` of `StartRun`, `EndRun`, `Attempt`), time passes, runs are not killed for ever, and an order that
  comes up again and again is not found locked every time (`SF` of `ReconcileOne`): other
  writers hold a row for one statement. That each account has a turn in every run is the
  assumption `EveryoneHasATurn`, which the code's limits satisfy for the connections it is meant for.

Nothing waits for the holder of an admission turn: `take_admission_turn` polls and gives up
(`GiveUp`), so there is nothing to state about it. The flatten has no liveness property:
what is left open is left to a person. The other modules state safety only.

## 5. Noticed

Disagreements and weaknesses met while modelling. No run is expected to fail; where a
property names an exception, it is one of these.

*Submission.* The list of linked broker ids is read before an adopted id is written, so two rows can
carry one id (`reconcile_unknown_submission`); an order identified but not yet settled has its
adopted id replaced by a late answer without a conflict being looked for
(`_resolved_elsewhere`). `WrongIdentityShows` says what still holds.

*Cancellation.* `docs/RECONCILIATION_OWNERSHIP.md` knows of no lock cycle between order rows, but two
batches of `cancel_many` can wait for each other (PostgreSQL undoes one, `cancel_live`).
`docs/troubleshooting.md` says an accepted cancellation is recorded without the part already filled;
`confirm_cancel` records it.

*Flatten.* `docs/SAFETY_MODEL.md` says linked orders that later fill are promoted; an operation
left at `intent_persisted` by a worker that died is passed over by
`_synchronize_strategy_operations` and blocks the next session that has shares. `reentry_blocked`
is also written for an oversold strategy.

*System control.* `docs/SAFETY_MODEL.md` (lines 75 and 77) and the emergency route ("in one atomic
action") do not know of the race in which a resume reads the switch as clear beside a halt
and automation stays on.

*Live.* A halt set and released within the wait for the rate limit does not stop the order.

*Paper.* A sell that fills partly, is the account's last cash, and whose fee exceeds its proceeds is
staged as an order before the ledger refuses it (`paper_engine.py`, "Paper cash guard blocks a
negative"); the route without identities commits it. A follow-up fill then books the rest, and
the account differs from the orders by the stranded part.

*Rebalance.* Skips for a promotion or a short history record the decision date; an operator's dry run
closes the period for the live strategy; orders the broker rejected count as submitted; a run's
record is lost (`StaleDataError`) if the strategy is edited after the dispatch; attempts can
exceed their limit by one when halted and cash-blocked. The module assumes `SettledOrdersAreShown`
(`RunLimit + Lag <= ORDER_SETTLE_TIME`), while the task's hard limit alone is 300 s and the wait five minutes.

*Runner and monitor.* An entry signal gets one monitor exit order ever; a monitor sell the switch
blocked stays `pending_intent` and is sent later in its old size; a run that dies between the
dispatch commit and its own leaves an entry nobody watches; positions are read once a run, so a second entry
is possible when an earlier one filled and was settled after the reading; `check_duplicate_order` is a
`SELECT` without a lock.

*Risk.* The day's number of trades is counted without a lock, and nothing bounds how many manual requests are between their
check and their dispatch (`routes/orders.py:427-463`), so that N overlapping requests beside a run exceed the number by up to N (a rebalance's
buys likewise): what is checked and proved is that the excess comes of such overlap only. An order that ended in error
counts as a trade of the day. Portfolio heat never counts open positions (nothing sets `riskDollars`); the sector check
reads `current_price` where the broker says `currentPrice`; the correlation check never blocks;
the number of open positions is fixed for a run; a dry-run strategy uses up the allocator's caps of live ones;
`apply_drawdown_sizing`, `get_drawdown_size_factor` and `check_cfd_limits` are called by no order path.

*Promotion.* `demote_to_dry_run` keeps later approvals, and a new promotion keeps old reviews, so that an old live
approval is valid again after a second promotion to demo; after a revocation, orders in live mode count as demo evidence.

*Records.* An acknowledgement of a cancelled or rejected order that omits the filled quantity is taken
as no fill, while a record must say zero.

*Demo worker.* A locally partly filled order that still works maps to `accepted`, which the state machine refuses,
and the whole batch is rolled back in every run; missing or failed reads do not move an order
in the queue.

*The settings' JSON.* `app_settings.extra` is read and written as a whole by four writers, three of them without the row's
lock: a tick that is skipped because another one runs may write back what it read before that one's
record, and so forget its back-off. `record_worker_heartbeat` reads under the lock, but a locking read does not refresh a
row the session already holds (`populate_existing` is not set there, as it is elsewhere): `check_eod_flatten` holds the
settings row since it began, so its heartbeat writes back the JSON of before the flatten, and with it older heartbeats of
other tasks. The scheduler's lock ends with the flush of its record, before the caller's commit.

*Signals and exits.* The runner (`_check_exit`) and the monitor build the opening range's state with the stop of the entry at
every look, so a trailing stop is that of one look alone and does go down, against `orb_production.py` ("For longs the
stop only moves up"), `position_monitor.py`, `celery_app.py` and the test of `check_exit_conditions`, which keeps the state between
looks. The runner looks without a range for the session's first 15 bars: the trail's distance is then 0, the stop is
the price, and a position held over night is sold at any price as a trailing stop; the monitor returns in that
case. `partial_exit_done` is looked up by strategy and ticker, not by entry: there is one partial exit ever. The opening
fade needs 21 bars for a volume other than 1 within 45 minutes of the open, which five-minute bars do not give; its
comment names a choppiness of 61.8, its parameter is 50. `atr_position_size` does not cap by cash when there is
none, and rounds to the nearest, so that a signal may cost half a hundredth of a share more than the cash; sizes are taken by the range
although the stop of the opening range, the reclaim and the fade may be farther.

*Tasks and purchases.* An exception in a task that has retries left which nobody makes is not
dead-lettered; Redis being unavailable counts as "held"; the DCA task takes the lock without its redelivery
rule. A plan's dip-enhanced amount is not checked against its cap, cash is not decremented between plans, and an
aborted transaction commits as a silent rollback.

*Back-tests.* Bars of a session without its opening bar are skipped, so a stop is not looked at there; a partial
exit of one smallest unit marks the position partial without selling; `engine.run`'s limit-order branch is unreachable.

*Back-test data.* A published dataset is replaced at its request's reference by whichever of two overlapping retrievals writes last, also
when it is the older one; both stay on disk. A reference whose files are damaged fails every later job of its request, until somebody
removes it (`clear_cache` removes everything, and nothing calls it). A dataset is published, and from then on used, also where most of its
sessions are missing: the manifest says so. Results are in memory, so a restart forgets the jobs and their reports.

*Circuit breaker.* No production path calls it (`docs/implementation-roadmap.md` says so too). "After `recovery_timeout` seconds, one test call is
allowed (HALF_OPEN)" (`broker/circuit_breaker.py`, line 39): `call` rejects only what finds the circuit open, so every call that
comes before the first test has ended goes through. A test that is cancelled leaves the circuit half open.
The activation of the kill switch is tried once for an opening: when it fails it is logged, and the circuit alone holds the calls back.

## 6. What is proved

All proofs are checked by TLAPS from nothing but the named assumptions on the
constants, and are for any number of orders, sessions, clerks, runs, requests, strategies and
accounts, and any quantities. Every invariant and action property of the runs
`submission`, `cash`, `cancel`, `flatten`, `paper`, `control`, `live`, `recon` and `automation` is proved, and of
`background` those of the delivery of tasks, the owners of reconciliation, the scheduled purchases, the demo
worker's schedule and the data of back-tests. Each
property follows from an inductive invariant that TLC had checked on the run's instance first.

**`OrderSubmissionProofs`.** `TypeCorrect`, `TransmittedOnce`, `OutcomesAreAlwaysTrue`,
`UnknownIsAlwaysAlarmed`, `WrongIdentityAlwaysShows`, `KnownOnlyOnEvidence`.
*Transmission:* that the attempt exists is not enough to know that a second session will not
send; the invariant (`OnceInv`) adds that a session which has committed its dispatch and not yet sent
is the only one, that before the dispatch nothing was sent, and that a session
with a current copy of a `pending_intent` row has none committed beside it (the
version check). *Truth* (`WhatIsBelievedIsTrue`, `TruthInv`): an outcome is written long after it was
learnt, so the invariant says of each holder of knowledge that it is right: the broker's own
book (`BookInv`); what a session has been answered (`SessionInv`), with one carrier of a dispatch at a
time; what a clerk has read under its row lock (`ClerkInv`: a record may since have grown, but not have
been another order's, unless both look alike); and the row (`StageInv`, `AttemptInv`, `IdentityInv`,
`EndInv`, `AlarmInv`). The identity part is what look-alikes make hard: an id is adopted on a list of linked ids that
may be stale, and it is the *owner's* row that shows it. `KnownOnlyOnEvidence` is then read off
each step. Assumptions: `NamesAreApart`, `SubsetsAreSubsets`, `QtyPositive`.

**`CashReservationProofs`.** `CashIsNeverPromisedTwice` from `FiguresStayExplained`, and
`TurnIsNeverLeftBehind`. That the cash covers the
promises says nothing about the *old* figure the next admission will use, so
`IInv` adds `FiguresAreExplained`: a run's figure is at most today's cash less what
open orders may still take, plus the coins they may still take and those taken since the figure was read
(`unseen`); and `UnseenIsRecent`: every such coin belongs to an order that is still
active or was stamped no earlier than the reading less skew and lag, and therefore is
counted by `NotShown`. `TurnsExclude` gives that only the run with the turn has
uncommitted rows. Assumptions: `CostsAreBounded`, `NoneIsApart`, and
`TimesAreBounded`, which says `Skew + ReadLag <= Tolerance`: the clocks of two
processes and the database differ, and a read that settles an order lasts, by no more than
`CLOCK_TOLERANCE` (60 s) together. This is the condition under which the
reservation is sound, and the code can only assume it.

**`OrderCancellationProofs`.** `NothingLiveIsHidden`, `WhatIsReportedIsOnRecord`,
`NothingIsAskedTwice` from `DraftsAreHeldUntilReported`. The properties speak of committed rows, while a session
decides on its uncommitted drafts: `OrderInv` ties draft, row and broker together (a row nobody holds is
as committed; a held one has only gained; what is known of a fill is no more than the
broker's), `OpenInv` says that an open session holds the row of every order it has come to and
that each fate is in the draft, and `OverInv` that each reported fate is in the row. Assumptions:
`SinglesAreSessions`, `QtyIsPositive`, `NoneIsNobody`.

**`EodFlattenProofs`.** `OneSellEver` and `UnresolvedAlwaysBlocks` from `RunsStayApart`;
`TypeCorrect` (with `OneSellEver`: `SoldOnceEver`) and `RecordsAreFollowed` from `FiguresAreRight`. A worker decides long before it sends. `IInv`
says that two workers that send
have different keys and have sent nothing yet (`ClaimsAreExclusive`), that a candidate's
earlier sessions are resolved (`CandidatesAreFree`), and, because verdicts are
written without a version, that a verdict on an earlier session is only ever written on
an operation a stopped worker left (`VerdictsAreOnRows`); `RunsAreOfToday` makes "earlier"
mean settled days only. `FiguresInv` is about the quantities: an order fills up to its size and its row is
final only when it is (`OrdersAreKept`); a run remembers no more than could be bought (`RunsAreKept`);
overlapping runs disturb everybody (`OverlapDisturbs`); unless a strategy is disturbed, what a run has weighed of
it is still there (`WeighedIsThere`), and an order that may still fill is the only one and leaves the strategy no
less than it has (`OrdersAreCovered`). The account's `Held` is the sum of what the strategies and the hand hold, which is why `TypeOK`
needs it. The 27 actions of a worker are first shown to be of seven kinds (`WorkerIsOfAKind`); the invariants
are preserved kind by kind. Assumptions: `DaysAndShares`, `NoneIsNoStrategy`, `StrategiesAreFinite`.

**`PaperOperationsProofs`.** `OneAccountEver`, `RefusalIsAlwaysOnRecord`, `HaltAlwaysStopsFills` and the refinement
`IdentifiedTakeEffectOnce` from `StagedWorkIsCurrent`; `LedgerAlwaysAddsUp`. What a request has staged is
applied to the account only at its commit, so the invariant says that it is still right then: who holds which row
(`LockInv`), that the only account is the one it may be creating (`ConnectionInv`), and that staged
figures rest on the account and the switch as they are (`StagedInv`). For the ledger,
`OrderInv` says that what is staged moves the account and its order by the same amounts or records what was refused, and
`SumsInv` is the equation itself. The refinement maps the variables by name; each step is a `PaperOnce` step
or a stutter. Assumptions: `CommandsAreTyped`, `NoneIsNothing`, `RequestsAreFinite`, `Prices`.

**`SystemControlProofs`.** `TypesAreKept`, `HaltIsAlwaysHeeded`, `CompleteIsAlwaysTrue`, `ConfirmationsAreAlwaysTrue` from
`OpenSessionsAreAccountedFor`. Sessions that are open together know of each other (`MeetInv`); what a session has yet to write, and
what it read before, is accounted for (`ColumnsInv`), so that automation beside an active switch, on record
or about to be, has a halt and a resume that met (`RaceInv`); a flatten that has counted a position has an
exit at the broker and closes only its own intents (`FlattenInv`); a confirmation that had its effect is marked, on
record or in what its session will flush, and any other one of the same request met it and was lost
or will be (`WordInv`, `ActedInv`, `ExecutedInv`). Assumption: `OtherIsNoRequest`.

**`PermissionProofs`.** Four components that share nothing, a part each.

*Real orders.* `OnlyPermittedEverLeave` from `WithdrawalIsAlwaysSeen`; the refinement `PermissionIsImplemented`. What was withdrawn
must be found at a look that is still to come: `WithdrawnIsSeen` names the place (another evidence, the
switch, the account's revision, activity or test, or what the order has already read); `TestsAreHonest` and
`AccountsAreOwn` make the comparison of revisions sound. Uuids are fresh because finitely
many are in use (`RowsAreFinite`: a table has finitely many rows). Assumptions: `MaxAgeIsANumber`, `RowsAreFinite`.

*Promotion.* `PromotionAlwaysHolds` from `PromotionIsKept`. A session writes what it read before; the invariant says that a copy that may
still be written is the row, and that a run that holds one may make entries (`CopyKept`). Orders in live mode rest on enough demo orders
even after the approval they were made under is revoked, and only what was demoed before an approval counts for it, which later
decisions do not change (`EvidenceKept`). Assumption: `EvidenceIsCounted`.

*Schedule.* `ScheduleIsAlwaysTrue` from `ScheduleIsKept`. What a session writes rests on what it read long before; the invariant
(`ScheduleKept`) says that, unless there was a race, what it has read of the record, and the value it will write, is what
it would make of the row now (`ReadingKept`), because who has flushed has the row locked and who reads under the lock has
flushed at once (`LocksKept`, `RoleKept`). A session whose run is not flushed has the lock of the run (`HasRun`), and no run begins beside a result
that is flushed and not committed (`RunsApart`): that window is why a back-off could be missed without any reading being outdated, and
the model counts it as a race. Assumption: `SessionsAndTimes` (ticks and writers are different sessions; a back-off is at least one
unit, by default 300 s, because in the model the time 0 stands for none).

*Data of back-tests.* `ResearchIsAlwaysSound` from `ResearchKept`. A dataset is believed because of what its reference
names, so the invariant says that every manifest on disk is of a complete retrieval (whoever damages files makes no new ones), what
a job has written so far of a publication (`StageKept`), and that its report names what it used (`ReportKept`). While nothing is damaged
files only grow in number, or all go together with the jobs that report them. Assumption: `JobsHaveRequests`.

**`ScheduledTasksProofs`.** Seven components that share nothing but lemmas about sums, a part each.

*Delivery.* `RunsStayKept` from `DeliveriesKept`. That two runs of a task never overlap follows
from `LeaseOutlivesBody`: the lease still to run and the time a body has used together never fall below
the lease's full length, so with `LeaseOutlivesLimit` a body ends before its lock does. That no run is lost is not
inductive: a message may meet the lock that a dead run of its own period left behind, and be dropped for it.
`PeriodsArePending` says that a period without an end on record has a message whose run is not over, and
`LockedIsPending` that one such message of the locked period outlives the lock (it is delivered again, waits for at
least the lease, or is being worked on). Assumptions: `LeaseOutlivesLimit` (the `time_limit` of each exclusive task is below its
`exclusive_ttl_seconds`, as all of `tasks.py` are), `NoOneIsNobody`.

*Reconciliation.* `RunsKeepTheirBounds`, and from it `AlwaysSettledAtHome`, `AttemptsAreAlwaysKept` and
`NothingIsEverOverlooked`: `Kept` says that a row was settled from its own account, or that neither the row's account nor
the connection's is on record (`FromHome`), that the wait covers what the broker asked for (`WaitCovers`), that the rows
stand in one line, each at a place of its own (`Lined`), and that a run keeps to its bound accounts and its batch and
reports exactly what it has saved (`Runs`). Assumptions: `EveryoneHasATurn`, `StepsGrow`, `Quantities`, `EachOnce`,
`NoneIsNoAccount`.

*Rebalance.* `RebalancesKeepTheirBooks`, and from it `OrdersStayWithinBounds` and `PeriodsAreAlwaysTraded`.
`NeverOvershoots` rests on the account a run has read: if no order was late at the reading, the account is still what the
run counts with (`ReadKept`); a line not sent yet has no order and is shown as it was read
(`Untouched`), a line that was sent comes to its target unless an excuse is on record (`OnTheWay`), and the cash a run
counts on is there beside what its buys may still cost (`Afforded`). While orders are sent every other order is over
(`Rowed`), which is what makes an unknown outcome hold the strategy; and no period is recorded that has not come
(`MarksKept`). Sums over the orders change by one summand per step. Assumptions: `SettledOrdersAreShown` (a run and
the delay until a fill shows last no longer than `ORDER_SETTLE_TIME`; the code waits that long and can only assume that
it is enough), `TickersAreOrdered`, `SharesAndCash`, `PeriodsFollow`.

*Owners.* `OwnersAlwaysWorkAlone` and `RecordsAreNeverTakenBack` from `OwnersAreKept`. That a run not suspended holds the
lock is inductive only with `HasTheLease`: what is left of the lease and the time the run has taken together never fall
below the whole lease. A demo run locks nothing while it reads, so the invariant says what its readings are worth:
the fill it read is no more than the broker's and, while no other commit has met its copy, the row is as it read
it (`DemoReading`); what it is about to save goes on from the row as it is, because the row is locked from then on
(`ChangeKept`), and the task's reading is of a row it has locked (`TaskReading`); no two runs have one row locked. No circle of waiting
runs follows from `Behind`: what a demo run has locked lies behind it in the batch, so whom it waits for is
further on than itself, and the task waits only when it has nothing locked. Assumption: `LeaseOutlivesRun`, that a
candidate is selected once and that `reconciliation_owner_lease_seconds` exceeds `reconciliation_run_limit_seconds`, as
the code computes it.

*Trading.* `DecisionsAreAlwaysKept` and `EntriesWaitForEachOther` from `TradingIsKept`. That a decision has one order is
not inductive: `TradingKept` adds that it is on record before its order (`OnRecord`: the signal of an entry, the key of an
exit; the monitor's decisions are named by the entry itself), so that a new decision has no order yet. That entries wait
for each other is said of the broker's side and guarded by the rows, so the invariant says what a row is worth: an order
is an intent only before it is sent, and ended only after it is over at the broker or was never sent (`RowIsTrue`). That nothing is sold that
is not held follows from `Claimed <= held`: open sells together claim no more than there is, a sum that changes by one order at a
step. An entry that is refused was never sent, and a task that waits for an answer has its order (`TasksKept`). Assumption:
`BarsAndShares`, that an entry asks for at least one share.

*Admission.* `LimitsAlwaysHoldTogether` from `AdmissionIsKept`. The caps are said of what was sent, while a run decides by what
it has allocated; the invariant ties the two (`RunAddsUp`): what the run has sent, and the entry it is about to send, is part of what it
allocated, every ticker it sent is among the accepted and was accepted once, and the allocated stays within the caps of its regime. Fills, exits
and refusals only move the run's orders, so the sums change by one summand where it sends and not at all elsewhere. For the day, `DayAddsUp`
adds to the orders that stand those that are about to be: once the day's number is reached nothing is admitted any more, so that only what is admitted
already, one entry of the run and one for each manual request, goes beyond it, and a request that ends makes room for no other. The set of
requests is any finite set; that it is finite is all that is assumed of it, as the code sets no number. Assumption: `CandidatesAndCaps` (finitely many
tickers and requests; values and caps are natural numbers).

*Purchases.* `PlanAlwaysKeepsItsBooks` from `PlansStayBooked`. A run decides plan by plan and writes everything at its one commit, while
configurations are edited and days pass beside it; so the invariant (`BooksKept`) adds that a decision to buy is still due when the run commits, by
the row it was made of (`DecidedIsDue`). State and audit trail are then carried on by the same buys or not at all, whichever
statement or flush fails, and the total, which is a cardinality, grows by the last amount. Assumption: `PlansAndPolicies` (a plan's
amount and cadence and the multiplier of a dip are natural numbers).

**Sums and induction.** Induction over finite sets is not available as a schema here. `PaperOperationsProofs`
proves it for the recursive sum of the ledger from the least element of a set of natural numbers (the least size at
which the claim fails), and `ScheduledTasksProofs` works with sums that are cardinalities of sets of shares and
with the library's facts about finite sets.

**Only model-checked, and why.**

- Liveness (`DispatchesConclude`, `CancellationsConclude`, `KeepsAsking`): fairness and `ENABLED` are out of this prover's reach.
- The rest of `ResultsAreSound`, in which `MCBackground` puts together `ResearchIsSound` (proved) and the results of `EntrySignals`, `BrokerRecord`, `Backtest`, `PortfolioBacktest` and
  `WalkForward`. These are instances with fixed constants; these modules compute by folds and recursion over records, bars and
  indicators, and what those compute for every input is an induction over data.

## 7. How the models are kept honest

Each property of each run has a mutant: a definition that models code is replaced by one with a plausible bug
("A mutant of …" in the modules), and TLC must find the property violated. The mutants are defined
beside what they change, and no other definition uses them.

## 8. What is not modelled, and why

- *Market data, scanner, indicators over real bars, portfolio scores, metrics:* numerical code over
  price series without shared state. `EntrySignals` takes what indicators may say as given.
- *Demo scheduler:* its audit trail and statuses are shown only. *Snapshots, the purge
  and the morning scan's contents* likewise; that the scan writes a strategy's row is in `StrategyPromotion`.
- *Circuit breaker:* called by nothing.
- *Back-test data:* what the bars hold, and the sessions a calendar expects; `ingest_research_dataset.py`, which publishes to a directory of its own by
  the same writes; `clear_cache`, called by nothing.
- *Start-up and recovery:* the review that refuses to serve while automation is saved as on and the offline block are
  in `SystemControl`; the rest are checks made once.
- *Attribution, execution quality, news:* reports of committed rows.
- *Alerts, telemetry, logging, routes, web client, scripts:* input, output and
  presentation. Whether an alert was *raised* is in `OrderSubmission`; its delivery is not.
- *The runner's error path after a dispatch* (`strategy_runner.py:1318`): an exception between a dispatch and the commit of its signal
  marks the signal as failed although its order is at the broker. `StrategyTrading` has the death of the run there, not this.
- *Regime classification:* `EntryAdmission` takes any regime and models what it allows; that the feed is stale, a symbol's feed invalid or
  a catalyst fresh is a signal the run does not have.
- *Allocator's score, correlation, drawdown sizing, CFD limits:* left open in `EntryAdmission`, or called by no order path.

## 9. Plan

Attribution and the mock broker, if they are to be modelled at all.
