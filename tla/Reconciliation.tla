--------------------------- MODULE Reconciliation ---------------------------
(***************************************************************************)
(* The scheduled reconciler: whose orders it may ask the broker about, in  *)
(* what order and how often                                                *)
(* (app/services/scheduled_reconciliation.py, reconciliation_queue.py,     *)
(* reconciliation_backoff.py, reconciliation_broker.py and the task        *)
(* reconcile_pending_orders).                                              *)
(*                                                                         *)
(* Each order is handled in a transaction of its own with its row locked   *)
(* throughout, so handling one order is one step.  Between two orders, the *)
(* other writers of orders, the users' connections and the clock move.     *)
(* What a broker's record must say to be used is module BrokerRecord.      *)
(***************************************************************************)
EXTENDS Integers, Sequences, FiniteSetsExt

CONSTANTS
  Connections,     \* the connections of this environment, in creation order
  Orders,          \* orders of this environment and venue
  AccountOf,       \* the broker account of a connection and of an order
  Legacy,          \* those that may have none on record: made before it was kept
  Unknowns,        \* the orders whose submission has an unknown outcome
  Outcomes,        \* what an attempt may come to
  RetryAfters,     \* what a rate-limited answer may carry, in ticks
  Steps,           \* BACKOFF_STEPS_SECONDS, in ticks
  RaiseAgain,      \* RAISE_AGAIN_AFTER, in ticks
  BatchLimit, RunBudget, MaxFailedReads,
  None

MaxLevel == Len(Steps)

(* Every account gets a turn within one batch, and within one run's time    *)
(* even if each of its reads uses up its limit.                             *)
ASSUME EveryoneHasATurn == BatchLimit >= Len(Connections) /\ RunBudget >= Len(Connections)

ASSUME StepsGrow == /\ Steps \in Seq(Nat \ {0}) /\ MaxLevel > 0
                    /\ \A i, j \in 1 .. MaxLevel : i < j => Steps[i] < Steps[j]

ASSUME Quantities == /\ {BatchLimit, RunBudget} \subseteq Nat
                     /\ {RaiseAgain, MaxFailedReads} \subseteq Nat \ {0}
                     /\ RetryAfters \ {None} \subseteq Int

ASSUME EachOnce == /\ Connections \in Seq(Range(Connections)) /\ IsInjective(Connections)
                   /\ IsFiniteSet(Orders)

(* None is the account of nobody.                                           *)
ASSUME NoneIsNoAccount == \A x \in Range(Connections) \cup Orders : AccountOf[x] # None

VARIABLES
  rows,     \* the orders' rows
  line,     \* their places by last_reconciled_at (nulls first), created_at and id
  known,    \* the connections and orders with their account on record (account_scope)
  conn,     \* broker_connections
  reconciler,      \* the ScheduledReconciler under way
  saved     \* what was committed in this run: the outcome in each order's event

vars == <<rows, line, known, conn, reconciler, saved>>

(* Not settling is about one order: its record is missing or refused, an    *)
(* unknown submission has no single match, its settlement cannot be saved.  *)
NotSettling == {"broker_answer_refused", "no_broker_record", "unresolved",
                "broker_rejected_read", "local_error"}
StopsAccount == {"rate_limited", "broker_auth_failed"}
Answered == {"settled", "unchanged"}

NotRunning == [sole |-> FALSE]
Scope(x) == IF x \in known THEN AccountOf[x] ELSE None

Row == [status: {"open", "submission_unknown", "settled"},
        id: BOOLEAN,                        \* has a broker_order_id
        recent: BOOLEAN,                    \* dispatched under 90 seconds ago
        level: 0 .. MaxLevel,               \* retry_count
        wait: 0 .. Steps[MaxLevel],         \* ticks until last_reconciled_at plus the wait
        asked: 0 .. Steps[MaxLevel],        \* ticks left of the latest usable Retry-After
        raised: 0 .. RaiseAgain,            \* ticks left of the latest "order_not_settling"
        from: {AccountOf[x] : x \in Range(Connections) \cup Orders} \cup {None}]
                                            \* the account whose record settled it

TypeOK ==
  /\ rows \in [Orders -> Row]
  /\ line \in Injection(Orders, 1 .. Cardinality(Orders))
  /\ known \subseteq Range(Connections) \cup Orders
  /\ conn \in [Range(Connections) -> {"on", "off"}]
  /\ saved \subseteq Orders \X (Outcomes \cup {"local_error"})
  /\ reconciler # NotRunning =>
       /\ reconciler.bound \subseteq Range(Connections)
       /\ reconciler.stopped \subseteq reconciler.bound
       /\ reconciler.queue \in [Range(Connections) -> SUBSET Orders]
       /\ reconciler.attempted \in 0 .. BatchLimit /\ reconciler.used \in 0 .. RunBudget
       /\ \A c \in reconciler.bound : Cardinality(reconciler.queue[c]) <= BatchLimit

(* An order as the submission left it: active with a broker id, or unknown  *)
(* with none.  An unknown one was dispatched lately.                        *)
Init ==
  /\ rows = [o \in Orders |->
       [status |-> IF o \in Unknowns THEN "submission_unknown" ELSE "open",
        id |-> o \notin Unknowns, recent |-> o \in Unknowns,
        level |-> 0, wait |-> 0, asked |-> 0, raised |-> 0, from |-> None]]
  /\ line = CHOOSE places \in Injection(Orders, 1 .. Cardinality(Orders)) : TRUE
  /\ known \in {(Range(Connections) \cup Orders) \ s : s \in {{}, Legacy}}
  /\ conn \in [Range(Connections) -> {"on", "off"}]
  /\ reconciler = NotRunning /\ saved = {}

-----------------------------------------------------------------------------
(* Which orders, at which account.                                          *)

awaiting(o) == rows[o].status = "open" \/ rows[o].status = "submission_unknown"

(* A mutant of owns: the one connection is asked about any legacy order.    *)
AnyUnscoped(o, c, sole) ==
  \/ Scope(o) # None /\ Scope(c) = Scope(o)
  \/ sole /\ Scope(o) = None

(* Its own scope always.  An order without one, only when one connection is *)
(* active; and an unknown submission only if that one has no scope either.  *)
owns(o, c, sole) ==
  \/ Scope(o) # None /\ Scope(c) = Scope(o)
  \/ /\ sole /\ Scope(o) = None
     /\ rows[o].id \/ Scope(c) = None

is_due(o) == rows[o].level = 0 \/ rows[o].wait = 0

due(o, c, sole) == awaiting(o) /\ owns(o, c, sole) /\ is_due(o)

active_connections == {c \in Range(Connections) : conn[c] = "on"}
OneAccountEach(b) == \A c, d \in b : c # d => Scope(c) # Scope(d)

unscoped_orders_are_readable(n) == n = 1

(* The connections a run works with.  An account that nothing identifies is *)
(* left out unless it is the only one.                                      *)
_bind(opened, sole) == {c \in opened : Scope(c) # None \/ sole}

(* A mutant of _out_of_scope: a missing scope is not among those bound, but *)
(* not outside them either.                                                 *)
NullIsNeither(b, sole) ==
  {o \in Orders : awaiting(o) /\ Scope(o) # None /\ Scope(o) \notin {Scope(c) : c \in b}}

(* Counted and reported, never read.                                        *)
_out_of_scope(b, sole) ==
  {o \in Orders : awaiting(o) /\
     IF Scope(o) # None THEN Scope(o) \notin {Scope(c) : c \in b}
     ELSE ~\E c \in b : sole /\ (rows[o].id \/ Scope(c) = None)}

(* The queue of an account: those of its due orders that are first in line. *)
Foremost(s) == {o \in s : Cardinality({p \in s : line[p] < line[o]}) < BatchLimit}

(* The task.  Credentials that cannot be decrypted switch their connection  *)
(* off, and that is saved before anything else; two connections bound to    *)
(* one account stop the run; without work or accounts there is none.        *)
StartRun ==
  /\ reconciler = NotRunning /\ \E o \in Orders : awaiting(o)
  /\ active_connections # {}
  /\ \E refused \in SUBSET active_connections :
       LET sole == unscoped_orders_are_readable(Cardinality(active_connections))
           opened == active_connections \ refused
           b == _bind(opened, sole)
       IN /\ conn' = [c \in DOMAIN conn |-> IF c \in refused THEN "off" ELSE conn[c]]
          /\ reconciler' = IF opened = {} \/ ~OneAccountEach(b) THEN NotRunning
                    ELSE [sole |-> sole, bound |-> b,
                          queue |-> [c \in Range(Connections) |->
                              IF c \in b THEN Foremost({o \in Orders : due(o, c, sole)}) ELSE {}],
                          round |-> {}, stopped |-> {},
                          failed |-> [c \in Range(Connections) |-> 0],
                          attempted |-> 0, used |-> 0,
                          reported |-> {}, out_of_scope |-> _out_of_scope(b, sole)]
  /\ UNCHANGED <<rows, line, known, saved>>

-----------------------------------------------------------------------------
(* One order.                                                               *)

(* Capped at the longest wait; nothing at or below zero counts.             *)
usable_retry_after(v) == IF v = None \/ v <= 0 THEN 0 ELSE Min({v, Steps[MaxLevel]})

(* A mutant of level_after_unsettled_attempt: the answer is not heeded.     *)
OneStepUp(level, v) == Min({level + 1, MaxLevel})

(* One step up, and further until the wait covers what the broker asked for. *)
level_after_unsettled_attempt(level, v) ==
  LET up == Min({level + 1, MaxLevel})
  IN Min({l \in up .. MaxLevel : Steps[l] >= usable_retry_after(v)} \cup {MaxLevel})

(* A mutant of _wait_longer: raised only by the attempt that gets there.    *)
RaisedOnArrival(o, outcome, v) ==
  LET level == level_after_unsettled_attempt(rows[o].level, v)
      raise == level >= MaxLevel /\ rows[o].level < MaxLevel
               /\ outcome \in NotSettling /\ rows[o].raised = 0
  IN [rows[o] EXCEPT !.level = level, !.wait = Steps[level],
                     !.asked = usable_retry_after(v),
                     !.raised = IF raise THEN RaiseAgain ELSE @]

_wait_longer(o, outcome, v) ==
  LET level == level_after_unsettled_attempt(rows[o].level, v)
      raise == level >= MaxLevel /\ outcome \in NotSettling /\ rows[o].raised = 0
  IN [rows[o] EXCEPT !.level = level, !.wait = Steps[level],
                     !.asked = usable_retry_after(v),
                     !.raised = IF raise THEN RaiseAgain ELSE @]

Waiting == {c \in reconciler.bound : reconciler.queue[c] # {} /\ c \notin reconciler.stopped}
(* Those whose turn is still to come in this round.                         *)
Round == IF reconciler.round = {} THEN Waiting ELSE reconciler.round
OutOfTime == reconciler.used >= RunBudget
(* A mutant of More: only the time bounds a run.                            *)
NoBatch == Waiting # {} /\ ~OutOfTime

More == Waiting # {} /\ reconciler.attempted < BatchLimit /\ ~OutOfTime

(* The run after order o of account c was taken from its queue.             *)
Taken(c, o) ==
  [reconciler EXCEPT !.queue[c] = @ \ {o}, !.round = Round \ {c}, !.attempted = @ + 1]

(* A mutant of Moved: the attempt is not dated.                             *)
StaysInFront(o) == line

(* To the end of the line.                                                  *)
Moved(o) == [p \in Orders |-> IF p = o THEN Cardinality(Orders)
                              ELSE IF line[p] > line[o] THEN line[p] - 1 ELSE line[p]]

(* The accounts take turns in the order of the connections, and the orders  *)
(* of an account in that of the line.                                       *)
Place(c) == CHOOSE i \in DOMAIN Connections : Connections[i] = c
Turn(c, o) ==
  /\ reconciler # NotRunning /\ More
  /\ c \in Round /\ \A d \in Round : Place(c) <= Place(d)
  /\ o \in reconciler.queue[c] /\ \A p \in reconciler.queue[c] : line[o] <= line[p]

(* Settled, cancelled or no longer waiting since it was selected, or held   *)
(* by another writer: not waited for.                                       *)
SkipLocked(c, o) ==
  /\ Turn(c, o)
  /\ reconciler' = Taken(c, o)
  /\ UNCHANGED <<rows, line, known, conn, saved>>

(* An unknown submission may be too recent to search for: nothing is asked  *)
(* and nothing changes.                                                     *)
NotAttempted(c, o) ==
  /\ Turn(c, o) /\ due(o, c, reconciler.sole)
  /\ rows[o].status = "submission_unknown" /\ rows[o].recent
  /\ reconciler' = Taken(c, o)
  /\ UNCHANGED <<rows, line, known, conn, saved>>

(* The broker knows an order at its own account only; an order asked about  *)
(* elsewhere is not found there.  Without a broker id the account's history *)
(* is searched for something alike, which may be another's order.           *)
CanSettle(c, o) == ~rows[o].id \/ AccountOf[c] = AccountOf[o]
Possible(c, o, outcome) ==
  /\ outcome \in Answered => CanSettle(c, o)
  /\ outcome = "unchanged" => rows[o].id
  /\ outcome \in {"no_broker_record", "broker_answer_refused"} => rows[o].id
  /\ outcome = "unresolved" => ~rows[o].id

(* A row that is settled is not looked at again, whatever its wait was.      *)
Settled(o, home) ==
  [rows[o] EXCEPT !.status = "settled", !.id = TRUE, !.level = 0, !.wait = 0, !.asked = 0,
                  !.raised = 0, !.from = home]

(* The row after the attempt.  A match gives an unknown submission its id,  *)
(* and settles it when the record is final and sound.                       *)
_record(c, o, outcome, v) ==
  CASE outcome = "unchanged" ->
         {[rows[o] EXCEPT !.level = 0, !.wait = 0, !.asked = 0]}
    [] outcome = "settled" /\ rows[o].id -> {Settled(o, AccountOf[c])}
    [] outcome = "settled" /\ ~rows[o].id ->
         {Settled(o, AccountOf[c]),
          [rows[o] EXCEPT !.status = "open", !.id = TRUE, !.from = AccountOf[c],
                          !.level = 0, !.wait = 0, !.asked = 0]}
    [] OTHER -> {_wait_longer(o, outcome, v)}

(* What the outcome says of the account: leave it alone for the rest of the *)
(* run, one more read it did not answer, or that it does answer.            *)
FailedReads(c, outcome) ==
  CASE outcome = "broker_read_failed" -> reconciler.failed[c] + 1
    [] outcome \in StopsAccount \cup {"unresolved"} -> reconciler.failed[c]
    [] OTHER -> 0
Stopped(c, outcome) ==
  IF outcome \in StopsAccount \/ FailedReads(c, outcome) >= MaxFailedReads
  THEN reconciler.stopped \cup {c} ELSE reconciler.stopped

(* The broker is asked, the result is saved, and only then counted.  Only a *)
(* read that is not answered takes time worth counting: the order's limit.  *)
ReconcileOne(c, o) ==
  /\ Turn(c, o) /\ due(o, c, reconciler.sole) /\ ~rows[o].recent
  /\ \E outcome \in Outcomes : Possible(c, o, outcome) /\
       \E v \in IF outcome = "rate_limited" THEN RetryAfters ELSE {None} :
       \E row \in _record(c, o, outcome, v) :
          /\ rows' = [rows EXCEPT ![o] = row]
          /\ reconciler' = [Taken(c, o) EXCEPT
               !.failed[c] = FailedReads(c, outcome), !.stopped = Stopped(c, outcome),
               !.used = IF outcome = "broker_read_failed" THEN @ + 1 ELSE @,
               !.reported = @ \cup {<<o, outcome>>}]
          /\ saved' = saved \cup {<<o, outcome>>}
  /\ line' = Moved(o)
  /\ UNCHANGED <<known, conn>>

(* A mutant of _record_local_failure: counted before it was saved.          *)
CountedFirst(c, o) ==
  /\ Turn(c, o) /\ due(o, c, reconciler.sole) /\ ~rows[o].recent
  /\ rows' = [rows EXCEPT ![o] = _wait_longer(o, "local_error", None)]
  /\ line' = Moved(o)
  /\ reconciler' = [Taken(c, o) EXCEPT
                      !.reported = @ \cup {<<o, "unchanged">>, <<o, "local_error">>}]
  /\ saved' = saved \cup {<<o, "local_error">>}
  /\ UNCHANGED <<known, conn>>

(* The outcome could not be applied or saved: it is rolled back, and that   *)
(* this order failed here is saved in a transaction of its own.             *)
_record_local_failure(c, o) ==
  /\ Turn(c, o) /\ due(o, c, reconciler.sole) /\ ~rows[o].recent
  /\ rows' = [rows EXCEPT ![o] = _wait_longer(o, "local_error", None)]
  /\ line' = Moved(o)
  /\ reconciler' = [Taken(c, o) EXCEPT !.reported = @ \cup {<<o, "local_error">>}]
  /\ saved' = saved \cup {<<o, "local_error">>}
  /\ UNCHANGED <<known, conn>>

Attempt(c, o) ==
  SkipLocked(c, o) \/ NotAttempted(c, o) \/ ReconcileOne(c, o) \/ _record_local_failure(c, o)

(* The database takes no writes, a stop request arrived, or the process is  *)
(* gone: the order under way is rolled back and the run is over.  After its *)
(* last order there is nothing to lose: that is EndRun.                     *)
Killed ==
  /\ reconciler # NotRunning /\ More
  /\ reconciler' = NotRunning /\ saved' = {}
  /\ UNCHANGED <<rows, line, known, conn>>

EndRun ==
  /\ reconciler # NotRunning /\ ~More
  /\ reconciler' = NotRunning /\ saved' = {}
  /\ UNCHANGED <<rows, line, known, conn>>

-----------------------------------------------------------------------------
(* The others.                                                              *)

(* A cancellation, the position monitor or the demo reconciliation settles  *)
(* the order from the broker's answer.                                      *)
OtherWriter(o) ==
  /\ awaiting(o) /\ rows[o].id
  /\ rows' = [rows EXCEPT ![o] = Settled(o, AccountOf[o])]
  /\ UNCHANGED <<line, known, conn, reconciler, saved>>

(* A user connects or disconnects an account.  A run reads the connections  *)
(* only when it starts, so one that changes meanwhile changes after it.     *)
ChangeConnection(c) ==
  /\ reconciler = NotRunning
  /\ conn' = [conn EXCEPT ![c] = IF @ = "on" THEN "off" ELSE "on"]
  /\ UNCHANGED <<rows, line, known, reconciler, saved>>

Less(n) == IF n = 0 THEN 0 ELSE n - 1

(* Time as the waits count it.  A run is short against them, and takes only *)
(* orders that were due when it started; time passes between runs.          *)
Tick ==
  /\ reconciler = NotRunning
  /\ rows' = [o \in Orders |-> [rows[o] EXCEPT !.wait = Less(@), !.asked = Less(@),
                                               !.raised = Less(@), !.recent = FALSE]]
  /\ rows' # rows
  /\ UNCHANGED <<line, known, conn, reconciler, saved>>

Next ==
  \/ StartRun \/ EndRun \/ Killed \/ Tick
  \/ \E c \in Range(Connections), o \in Orders : Attempt(c, o)
  \/ \E o \in Orders : OtherWriter(o)
  \/ \E c \in Range(Connections) : ChangeConnection(c)

(* The beat starts a run every 30 seconds, a run that is started goes on,   *)
(* and time passes.  Another writer holds a row for one statement, so an    *)
(* order that comes up again and again is not skipped every time.  Runs are *)
(* not killed for ever.                                                     *)
Fairness ==
  /\ WF_vars(StartRun) /\ WF_vars(EndRun) /\ SF_vars(Tick)
  /\ WF_vars(\E c \in Range(Connections), o \in Orders : Attempt(c, o))
  /\ \A o \in Orders : SF_vars(\E c \in Range(Connections) : ReconcileOne(c, o))
  /\ <>[][~Killed]_vars

Spec == Init /\ [][Next]_vars /\ Fairness

-----------------------------------------------------------------------------
(* What must hold.                                                          *)

(* What an order is settled from, and the id a match gives it, come from    *)
(* the account it was placed at, whichever connections were usable when it  *)
(* was asked about.  Only an order and a connection that both have no       *)
(* account on record can be brought together wrongly.                       *)
SettledAtHome ==
  /\ TypeOK
  /\ \A o \in Orders : rows[o].from # None =>
    \/ rows[o].from = AccountOf[o]
    \/ o \notin known /\ \E c \in Range(Connections) \ known : AccountOf[c] = rows[o].from

(* A run decides about every order that waits for the broker: some account  *)
(* it reads owns the order, or the order is counted as out of scope; never  *)
(* neither, and never both.                                                 *)
NobodyIsOverlooked ==
  reconciler = NotRunning /\ reconciler' # NotRunning =>
    \A o \in Orders : awaiting(o) =>
      (o \in reconciler'.out_of_scope)
        # (\E c \in reconciler'.bound : owns(o, c, reconciler'.sole))

(* An order is not due while the broker's latest usable Retry-After for it  *)
(* lasts, whatever its level was before and wherever between two steps, or  *)
(* beyond the last, the value falls.                                        *)
NotAskedTooSoon == \A o \in Orders : rows[o].asked > 0 => ~is_due(o)

(* A run reports of an order what is saved on the order: an outcome whose   *)
(* commit failed is not counted beside the failure that was.                *)
ReportIsSaved ==
  reconciler # NotRunning => reconciler.reported = saved

(* An attempt is kept in the report and in the wait that follows it.        *)
AttemptsAreKept == NotAskedTooSoon /\ ReportIsSaved

(* An attempt that shows an order does not settle, made when its wait is    *)
(* the longest already or becomes it, leaves it raised within the last day, *)
(* however the wait came to be the longest.                                 *)
NotSettlingIsRaised ==
  \A o \in Orders :
    /\ rows'[o].level = MaxLevel
    /\ \E r \in saved' \ saved : r[1] = o /\ r[2] \in NotSettling
    => rows'[o].raised > 0

(* No order that gives trouble goes unnoticed.                              *)
NothingIsOverlooked == [][NobodyIsOverlooked /\ NotSettlingIsRaised]_vars

(* While its account's connection works, an order on record there is asked  *)
(* about again and again until it settles: neither another account's        *)
(* trouble, nor a backlog, nor any Retry-After keeps it waiting for ever.   *)
Asked == {r[1] : r \in saved}

KeepsAsking ==
  \A c \in Range(Connections) : \A o \in {p \in Orders : AccountOf[p] = AccountOf[c]} :
    <>[](conn[c] = "on" /\ o \in known /\ c \in known) =>
      []<>(o \in Asked \/ ~awaiting(o))
=============================================================================
