-------------------------- MODULE CashReservation --------------------------
(***************************************************************************)
(* Admitting buy orders against an account's cash                          *)
(* (app/execution/cash_reservation.py, _admit_against_cash in engine.py).  *)
(*                                                                         *)
(* A run (a manual request, a strategy run, a rebalance) reads the free    *)
(* cash once and may ask for several orders with that one figure.  An      *)
(* admission takes the turn of its environment and venue, counts what the  *)
(* other rows of the account may still cost, and inserts its own row; the  *)
(* turn is kept until the transaction ends, which is also when the row     *)
(* becomes visible.  Nothing else reserves anything: the row is the        *)
(* reservation, while it is active and for one clock tolerance after the   *)
(* last time stamped on it.                                                *)
(*                                                                         *)
(* Money is counted in coins, a coin being a pair of an order and a number *)
(* up to its cost, so that a sum of costs is the cardinality of a set.     *)
(***************************************************************************)
EXTENDS Integers, FiniteSets

CONSTANTS
  Accounts,     \* broker accounts of one environment and venue
  Runs,         \* callers of create_order_intent
  Keys,         \* real buy orders, named by their client_order_key
  Cost,         \* the estimated cost of each order
  Highest,      \* no order costs more
  Funds,        \* the cash each account starts with
  Tolerance,    \* CLOCK_TOLERANCE
  Skew,         \* how far two clocks really differ, at most
  ReadLag,      \* how long a read that settles an order may take after its time was noted
  UndatedAge,   \* UNDATED_CASH_FIGURE_AGE
  MaxNow,       \* bound: the clock stops here
  None

ASSUME CostsAreBounded ==
  /\ IsFiniteSet(Keys)
  /\ Highest \in Nat
  /\ Cost \in [Keys -> 0..Highest]
  /\ Funds \in Nat

ASSUME NoneIsApart == None \notin Accounts \cup Runs \cup Keys \cup Int

\* The tolerance covers what the clocks and a slow read can hide between them.
ASSUME TimesAreBounded ==
  /\ Skew \in Nat /\ ReadLag \in Nat /\ UndatedAge \in Nat /\ MaxNow \in Nat
  /\ Tolerance \in Nat
  /\ Skew + ReadLag <= Tolerance

VARIABLES
  now,                                  \* true time
  cash, paid, lastPaid, over,           \* the broker: cash, coins taken, when, order ended
  row, account, scope, endedAt,         \* orders: status group, account, recorded scope, last time
  turn,                                 \* the run that holds the advisory lock, or None
  pc, figure, wants, staged,            \* run: its cash figure, the order asked for, uncommitted rows
  unseen                                \* history: coins taken since the run's figure was read

brokerVars == <<cash, paid, lastPaid, over>>
rowVars    == <<row, account, scope, endedAt>>
runVars    == <<turn, pc, figure, wants, staged>>
vars       == <<now, brokerVars, rowVars, runVars, unseen>>

-----------------------------------------------------------------------------
Times == (0 - ReadLag)..(MaxNow + Skew)

\* A figure: the account it is of, the scope the caller knows it by (or None), the
\* amount, when it really was read, and the time handed over with it.  A time that
\* is missing, without a zone or too far in the future is None.
Figure == [of: Accounts, scope: Accounts \cup {None}, amount: Int,
           readAt: 0..MaxNow, stamp: (0..(MaxNow + Skew)) \cup {None}]

AllCoins == Keys \X (1..Highest)

TypeOK ==
  /\ now \in 0..MaxNow
  /\ cash \in [Accounts -> Int]
  /\ paid \in [Keys -> 0..Highest]
  /\ lastPaid \in [Keys -> 0..MaxNow]
  /\ over \in [Keys -> BOOLEAN]
  /\ row \in [Keys -> {"none", "active", "ended"}]
  /\ account \in [Keys -> Accounts \cup {None}]
  /\ scope \in [Keys -> Accounts \cup {None}]
  /\ endedAt \in [Keys -> Times]
  /\ turn \in Runs \cup {None}
  /\ pc \in [Runs -> {"idle", "ready", "waiting", "turn"}]
  /\ figure \in [Runs -> Figure \cup {None}]
  /\ \A r \in Runs : pc[r] # "idle" => figure[r] \in Figure
  /\ wants \in [Runs -> Keys \cup {None}]
  /\ \A r \in Runs : pc[r] \in {"waiting", "turn"} => wants[r] \in Keys
  /\ staged \in [Runs -> SUBSET Keys]
  /\ unseen \in [Runs -> SUBSET AllCoins]

Init ==
  /\ now = 0
  /\ cash = [a \in Accounts |-> Funds]
  /\ paid = [k \in Keys |-> 0]
  /\ lastPaid = [k \in Keys |-> 0]
  /\ over = [k \in Keys |-> FALSE]
  /\ row = [k \in Keys |-> "none"]
  /\ account = [k \in Keys |-> None]
  /\ scope = [k \in Keys |-> None]
  /\ endedAt = [k \in Keys |-> 0]
  /\ turn = None
  /\ pc = [r \in Runs |-> "idle"]
  /\ figure = [r \in Runs |-> None]
  /\ wants = [r \in Runs |-> None]
  /\ staged = [r \in Runs |-> {}]
  /\ unseen = [r \in Runs |-> {}]

-----------------------------------------------------------------------------
(* What an admission counts. *)

\* Everything the orders in S cost.
CoinsOf(S) == {coin \in S \X (1..Highest) : coin[2] <= Cost[coin[1]]}

\* _same_account: a row without an account may be of any, and so may a caller.
SameAccount(r, k) ==
  figure[r].scope = None \/ scope[k] \in {figure[r].scope, None}

\* reading_time_or_assumed, by this process's own clock.
ReadingTime(r, present) ==
  IF figure[r].stamp # None /\ figure[r].stamp <= present + Tolerance
  THEN figure[r].stamp
  ELSE present - UndatedAge

\* Mutant: the comparison with the reading time is strict.
ShownAtTheBoundary(r, k, present) ==
  \/ row[k] = "active" \/ k \in staged[r]
  \/ row[k] = "ended" /\ endedAt[k] > ReadingTime(r, present) - Tolerance

\* _not_shown_in_a_reading_from, for a row the transaction can see.
NotShown(r, k, present) ==
  \/ row[k] = "active" \/ k \in staged[r]
  \/ row[k] = "ended" /\ endedAt[k] >= ReadingTime(r, present) - Tolerance

\* The orders cash_promised_elsewhere adds up.
PromisedElsewhere(r, present) ==
  {k \in Keys : SameAccount(r, k) /\ NotShown(r, k, present)}

Fits(r, present) ==
  Cost[wants[r]] + Cardinality(CoinsOf(PromisedElsewhere(r, present))) <= figure[r].amount

\* Mutant: the turn is taken outside the savepoint, and a refusal keeps it.
TurnOutlivesSavepoint(r) == r

\* The savepoint is undone, and a turn taken in it; one taken earlier in the same
\* transaction stays.
TurnAfterSavepoint(r) == IF staged[r] = {} THEN None ELSE r

-----------------------------------------------------------------------------
(* What the account's open orders may still take. *)

\* Rows that exist, in this or in an unfinished transaction, and may still cost money.
MayStillCost(a) ==
  {k \in Keys : account[k] = a /\ row[k] # "ended" /\ ~over[k]}

\* The coins these orders have not taken yet.
Outstanding(a) == {coin \in CoinsOf(MayStillCost(a)) : coin[2] > paid[coin[1]]}

-----------------------------------------------------------------------------
(* A run: read the cash, ask for an order, wait, decide, commit. *)

\* What the broker may state as free: it may or may not have set aside what open
\* orders will cost, or a part of it.
FreeCash(a) == (cash[a] - Cardinality(Outstanding(a)))..cash[a]

\* The time is noted before the figure is requested.
ReadCash(r, a) ==
  /\ pc[r] = "idle"
  /\ pc' = [pc EXCEPT ![r] = "ready"]
  /\ \E known \in {a, None}, amount \in FreeCash(a), stamp \in (now..(now + Skew)) \cup {None} :
       figure' = [figure EXCEPT ![r] =
         [of |-> a, scope |-> known, amount |-> amount, readAt |-> now, stamp |-> stamp]]
  /\ UNCHANGED <<now, brokerVars, rowVars, turn, wants, staged, unseen>>

\* No order stands for the request yet: ask for a turn.  (One that does is returned,
\* and nothing changes.)
Ask(r, k) ==
  /\ pc[r] = "ready"
  /\ row[k] = "none"
  /\ k \notin staged[r]
  /\ pc' = [pc EXCEPT ![r] = "waiting"]
  /\ wants' = [wants EXCEPT ![r] = k]
  /\ UNCHANGED <<now, brokerVars, rowVars, turn, figure, staged, unseen>>

\* pg_try_advisory_xact_lock; the holder's own transaction may take it again.
TakeTurn(r) ==
  /\ pc[r] = "waiting"
  /\ turn \in {None, r}
  /\ turn' = r
  /\ pc' = [pc EXCEPT ![r] = "turn"]
  /\ UNCHANGED <<now, brokerVars, rowVars, figure, wants, staged, unseen>>

\* Mutant: a request that was answered goes on waiting.
AnsweredButWaiting(r) ==
  /\ pc' = [pc EXCEPT ![r] = "waiting"]
  /\ wants' = [wants EXCEPT ![r] = None]

\* create_order_intent is over, with an order or a refusal.
Answered(r) ==
  /\ pc' = [pc EXCEPT ![r] = "ready"]
  /\ wants' = [wants EXCEPT ![r] = None]

\* ADMISSION_WAIT has passed without a turn: refused, nothing is created.
GiveUp(r) ==
  /\ pc[r] = "waiting"
  /\ turn \notin {None, r}
  /\ Answered(r)
  /\ UNCHANGED <<now, brokerVars, rowVars, turn, figure, staged, unseen>>

Decided(r) == pc[r] = "turn" /\ Answered(r)

\* The same order was created while this request waited: it is returned.
FindStanding(r) ==
  /\ Decided(r)
  /\ row[wants[r]] # "none"
  /\ turn' = TurnAfterSavepoint(r)
  /\ UNCHANGED <<now, brokerVars, rowVars, figure, staged, unseen>>

\* The row is inserted; it is visible to others once the transaction commits.
Admit(r) ==
  LET k == wants[r] IN
  /\ Decided(r)
  /\ row[k] = "none"
  /\ \E present \in now..(now + Skew) : Fits(r, present)
  /\ staged' = [staged EXCEPT ![r] = @ \cup {k}]
  /\ account' = [account EXCEPT ![k] = figure[r].of]
  /\ scope' = [scope EXCEPT ![k] = figure[r].scope]
  /\ UNCHANGED <<now, brokerVars, row, endedAt, turn, figure, unseen>>

Refuse(r) ==
  /\ Decided(r)
  /\ row[wants[r]] = "none"
  /\ \E present \in now..(now + Skew) : ~Fits(r, present)
  /\ turn' = TurnAfterSavepoint(r)
  /\ UNCHANGED <<now, brokerVars, rowVars, figure, staged, unseen>>

\* Commit: the rows become visible and the turn is given back, in that order.
Commit(r) ==
  /\ pc[r] = "ready"
  /\ staged[r] # {}
  /\ row' = [k \in Keys |-> IF k \in staged[r] THEN "active" ELSE row[k]]
  /\ staged' = [staged EXCEPT ![r] = {}]
  /\ turn' = None
  /\ UNCHANGED <<now, brokerVars, account, scope, endedAt, pc, figure, wants, unseen>>

\* The run ends, fails or loses its connection: what it had not committed is gone.
Leave(r) ==
  /\ pc[r] # "idle"
  /\ pc' = [pc EXCEPT ![r] = "idle"]
  /\ figure' = [figure EXCEPT ![r] = None]
  /\ wants' = [wants EXCEPT ![r] = None]
  /\ account' = [k \in Keys |-> IF k \in staged[r] THEN None ELSE account[k]]
  /\ scope' = [k \in Keys |-> IF k \in staged[r] THEN None ELSE scope[k]]
  /\ staged' = [staged EXCEPT ![r] = {}]
  /\ turn' = IF turn = r THEN None ELSE turn
  /\ unseen' = [unseen EXCEPT ![r] = {}]
  /\ UNCHANGED <<now, brokerVars, row, endedAt>>

-----------------------------------------------------------------------------
(* What becomes of an order, and the broker (external). *)

\* A part of the order fills.
BrokerTakesCash(k) ==
  LET coin == <<k, paid[k] + 1>> IN
  /\ row[k] = "active"
  /\ ~over[k]
  /\ paid[k] < Cost[k]
  /\ paid' = [paid EXCEPT ![k] = @ + 1]
  /\ lastPaid' = [lastPaid EXCEPT ![k] = now]
  /\ cash' = [cash EXCEPT ![account[k]] = @ - 1]
  /\ unseen' = [r \in Runs |->
       IF pc[r] # "idle" /\ figure[r].of = account[k] THEN unseen[r] \cup {coin} ELSE unseen[r]]
  /\ UNCHANGED <<now, over, rowVars, runVars>>

\* Filled, cancelled, rejected, refused or never sent: it takes nothing any more.
BrokerIsDone(k) ==
  /\ row[k] = "active"
  /\ ~over[k]
  /\ over' = [over EXCEPT ![k] = TRUE]
  /\ UNCHANGED <<now, cash, paid, lastPaid, rowVars, runVars, unseen>>

\* The end is recorded.  Its time is the broker's own time of the last fill, or this
\* program's, noted before the broker was read (reconcile_unknown_submission,
\* _record_final_state) or after it answered (_save_acknowledgement).
RecordEnd(k) ==
  /\ row[k] = "active"
  /\ over[k]
  /\ row' = [row EXCEPT ![k] = "ended"]
  /\ \E at \in (lastPaid[k] - ReadLag)..(now + Skew) : endedAt' = [endedAt EXCEPT ![k] = at]
  /\ UNCHANGED <<now, brokerVars, account, scope, runVars, unseen>>

\* Callers read the cash at the start of what they do: a figure whose time cannot be
\* relied on is never older than it is assumed to be.
Tick ==
  /\ now < MaxNow
  /\ \A r \in Runs : pc[r] # "idle" /\ figure[r].stamp = None
       => now - figure[r].readAt < UndatedAge
  /\ now' = now + 1
  /\ UNCHANGED <<brokerVars, rowVars, runVars, unseen>>

-----------------------------------------------------------------------------
RunStep(r) ==
  \/ \E a \in Accounts : ReadCash(r, a)
  \/ \E k \in Keys : Ask(r, k)
  \/ TakeTurn(r) \/ GiveUp(r)
  \/ FindStanding(r) \/ Admit(r) \/ Refuse(r)
  \/ Commit(r) \/ Leave(r)

OrderStep(k) == BrokerTakesCash(k) \/ BrokerIsDone(k) \/ RecordEnd(k)

Next ==
  \/ Tick
  \/ \E r \in Runs : RunStep(r)
  \/ \E k \in Keys : OrderStep(k)

Spec == Init /\ [][Next]_vars

-----------------------------------------------------------------------------
(* Properties. *)

\* An account's cash always covers everything its open buys may still cost: two
\* orders are never both admitted against the same cash (docs/CASH_RESERVATION.md),
\* whatever runs overlap, die, reuse a figure or hand over one that is out of date.
PromisesAreCovered ==
  \A a \in Accounts : Cardinality(Outstanding(a)) <= cash[a]

\* A refused or repeated request gives its turn back at once: between statements the
\* turn is only ever kept for a row that is waiting to be committed.
TurnIsKeptForARow ==
  turn # None => pc[turn] = "turn" \/ staged[turn] # {}
============================================================================
