----------------------------- MODULE EodFlatten -----------------------------
(***************************************************************************)
(* The end-of-day flatten (app/services/eod_flatten.py), in demo mode and  *)
(* for one ticker that strategies share with shares held by hand.          *)
(*                                                                         *)
(* A worker runs for one day: it brings each due strategy's operations up  *)
(* to date, weighs what the strategy still holds, decides, reads the       *)
(* broker's position, and claims and sends one sell per strategy.  The     *)
(* operation and its order intent are committed together, under one key of *)
(* strategy and day.  Workers die anywhere, and two may run at once.       *)
(*                                                                         *)
(* How one order is sent and settled is OrderSubmission; here it is what a *)
(* run and its successors can tell of it.                                  *)
(***************************************************************************)
EXTENDS Integers, FiniteSets, OrderStates

CONSTANTS
  Strategies,
  Workers,
  LastDay,     \* bound: the sessions are 1..LastDay
  Most,        \* bound: the most shares a strategy buys, one at a time
  ByHand,      \* shares of the ticker that belong to no strategy
  None

ASSUME DaysAndShares == LastDay \in Nat \ {0} /\ Most \in Nat \ {0} /\ ByHand \in Nat
ASSUME NoneIsNoStrategy == None \notin Strategies
ASSUME StrategiesAreFinite == IsFiniteSet(Strategies)

VARIABLES
  today, killed,
  bought, exiting, exited,  \* the strategy's filled buys, open exit sell, filled exits
  op,           \* eod_flatten_operations: the status of each, "none" if there is no row
  row, size,    \* the linked order: its status and recorded fill, and its quantity
  book,         \* the broker: the state of that order, its fill, and how often it was sent
  pc, session,  \* where a worker is, and the session date of its window
  todo,         \* its due strategies not yet looked at
  cur, amount,  \* the strategy at hand, and what was weighed of each
  candidates,   \* the strategies it is going to sell for
  target,       \* the session of the operation at hand
  verdict,      \* the status about to be written on it
  sellable,     \* the quantity read from the broker
  disturbed     \* history: strategies whose figures another worker or an exit could change
                \* while a worker relied on them

tradeVars  == <<bought, exiting, exited>>
worldVars  == <<today, killed, tradeVars>>
orderVars  == <<op, row, size, book>>
workerVars == <<pc, session, todo, cur, amount, candidates, target, verdict, sellable>>
vars == <<worldVars, orderVars, workerVars, disturbed>>

Days == 1..LastDay

-----------------------------------------------------------------------------
Resolved == {"none", "completed"}
NeedsPerson == {"manual_reconciliation_required", "reentry_blocked"}
OpStatus == Resolved \cup NeedsPerson \cup {"intent_persisted", "submission_pending"}

Steps == {"idle", "next", "weigh", "decide", "mark", "check", "refuse",
          "claim", "submit", "dispatched", "sent", "conclude"}

TypeOK ==
  /\ today \in Days
  /\ killed \in BOOLEAN
  /\ bought \in [Strategies -> 0..Most]
  /\ exiting \in [Strategies -> Nat]
  /\ exited \in [Strategies -> Nat]
  /\ op \in [Strategies -> [Days -> OpStatus]]
  /\ row \in [Strategies -> [Days ->
       [status: KNOWN_ORDER_STATUSES \cup {"absent"}, filled: 0..Most]]]
  /\ size \in [Strategies -> [Days -> 0..Most]]
  /\ book \in [Strategies -> [Days ->
       [state: {"absent", "flying", "working", "filled", "cancelled", "rejected"},
        fill: 0..Most, sent: Nat]]]
  /\ pc \in [Workers -> Steps]
  /\ session \in [Workers -> Days]
  /\ todo \in [Workers -> SUBSET Strategies]
  /\ cur \in [Workers -> Strategies \cup {None}]
  /\ amount \in [Workers -> [Strategies -> Int]]
  /\ candidates \in [Workers -> SUBSET Strategies]
  /\ target \in [Workers -> Days]
  /\ verdict \in [Workers -> OpStatus]
  /\ sellable \in [Workers -> Nat]
  /\ disturbed \subseteq Strategies

Nothing == [s \in Strategies |-> 0]

Init ==
  /\ today = 1
  /\ killed = FALSE
  /\ bought = Nothing /\ exiting = Nothing /\ exited = Nothing
  /\ op = [s \in Strategies |-> [d \in Days |-> "none"]]
  /\ row = [s \in Strategies |-> [d \in Days |-> [status |-> "absent", filled |-> 0]]]
  /\ size = [s \in Strategies |-> [d \in Days |-> 0]]
  /\ book = [s \in Strategies |-> [d \in Days |-> [state |-> "absent", fill |-> 0, sent |-> 0]]]
  /\ pc = [w \in Workers |-> "idle"]
  /\ session = [w \in Workers |-> 1]
  /\ todo = [w \in Workers |-> {}]
  /\ cur = [w \in Workers |-> None]
  /\ amount = [w \in Workers |-> Nothing]
  /\ candidates = [w \in Workers |-> {}]
  /\ target = [w \in Workers |-> 1]
  /\ verdict = [w \in Workers |-> "none"]
  /\ sellable = [w \in Workers |-> 0]
  /\ disturbed = {}

-----------------------------------------------------------------------------
(* What a run reads. *)

\* Shares are counted one by one, as pairs of a place and a number; what is missing
\* at a place counts against the others.
Count(f) == Cardinality(UNION {{x} \X (1..f[x]) : x \in DOMAIN f})
Total(f) == Count(f) - Count([x \in DOMAIN f |-> 0 - f[x]])

\* Mutant: the fills of earlier operations are not taken off.
NetOfSignals(s) == bought[s] - exited[s]

\* Recorded fills of the strategy's signals, less those of its operations.
NetQuantity(s) == bought[s] - exited[s] - Total([d \in Days |-> row[s][d].filled])

\* The account's shares of the ticker, at the broker.
Held == ByHand + Total([s \in Strategies |->
          bought[s] - exited[s] - Total([d \in Days |-> book[s][d].fill])])

OrderOpen(s) == \E d \in Days : row[s][d].status \in ACTIVE_ORDER_STATUSES

ActiveSell(s) == exiting[s] > 0 \/ OrderOpen(s)

\* Mutant: an operation a person has to look at no longer blocks.
UnresolvedUntilRaised(s, d) ==
  {e \in 1..(d - 1) : op[s][e] \notin Resolved \cup NeedsPerson}

\* The earlier sessions with an operation that is not completed.
PriorUnresolved(s, d) == {e \in 1..(d - 1) : op[s][e] \notin Resolved}

\* Somebody relies on what it weighed of s, or an order may be on its way for s.
ReliedOn(s) == OrderOpen(s) \/ \E w \in Workers : amount[w][s] # 0

-----------------------------------------------------------------------------
(* Steps of a worker. *)

Go(w, step) == pc' = [pc EXCEPT ![w] = step]

\* The run ends: what it held in memory is gone.
End(w) ==
  /\ Go(w, "idle")
  /\ todo' = [todo EXCEPT ![w] = {}]
  /\ cur' = [cur EXCEPT ![w] = None]
  /\ amount' = [amount EXCEPT ![w] = Nothing]
  /\ candidates' = [candidates EXCEPT ![w] = {}]
  /\ target' = [target EXCEPT ![w] = 1]
  /\ verdict' = [verdict EXCEPT ![w] = "none"]
  /\ sellable' = [sellable EXCEPT ![w] = 0]
  /\ UNCHANGED <<session, disturbed>>

\* Done with the strategy at hand, and with the figure weighed of it.
Drop(w) ==
  /\ cur' = [cur EXCEPT ![w] = None]
  /\ amount' = [amount EXCEPT ![w][cur[w]] = 0]
  /\ candidates' = [candidates EXCEPT ![w] = @ \ {cur[w]}]
  /\ target' = [target EXCEPT ![w] = 1]
  /\ verdict' = [verdict EXCEPT ![w] = "none"]

\* Within the window of some of the strategies.  Overlap is not excluded: the Redis lock
\* is a lease, and the rows are what the code relies on (docs/SAFETY_MODEL.md).
Begin(w, due) ==
  /\ pc[w] = "idle"
  /\ ~killed
  /\ due # {}
  /\ Go(w, "next")
  /\ session' = [session EXCEPT ![w] = today]
  /\ todo' = [todo EXCEPT ![w] = due]
  /\ disturbed' = IF \E v \in Workers : pc[v] # "idle" THEN Strategies ELSE disturbed
  /\ UNCHANGED <<worldVars, orderVars, cur, amount, candidates, target, verdict, sellable>>

Failed == TERMINAL_ORDER_STATUSES \ {"filled"}

\* Mutant: an order that works on counts as done.
PromoteEarly(s, d) ==
  IF op[s][d] # "submission_pending" THEN op[s][d]
  ELSE CASE row[s][d].status \in {"accepted", "filled"} -> "completed"
         [] row[s][d].status \in Failed                 -> "manual_reconciliation_required"
         [] OTHER                                       -> op[s][d]

\* What the state of the linked order makes of a pending operation.
Promoted(s, d) ==
  IF op[s][d] # "submission_pending" THEN op[s][d]
  ELSE CASE row[s][d].status = "filled"  -> "completed"
         [] row[s][d].status \in Failed -> "manual_reconciliation_required"
         [] OTHER                       -> op[s][d]

Synchronize(w, s) ==
  /\ pc[w] = "next"
  /\ s \in todo[w]
  /\ op' = [op EXCEPT ![s] = [d \in Days |-> Promoted(s, d)]]
  /\ todo' = [todo EXCEPT ![w] = @ \ {s}]
  /\ cur' = [cur EXCEPT ![w] = s]
  /\ Go(w, "weigh")
  /\ UNCHANGED <<worldVars, row, size, book, session, amount, candidates, target, verdict,
                 sellable, disturbed>>

Weigh(w) ==
  /\ pc[w] = "weigh"
  /\ amount' = [amount EXCEPT ![w][cur[w]] = NetQuantity(cur[w])]
  /\ IF NetQuantity(cur[w]) = 0
       THEN Go(w, "next") /\ cur' = [cur EXCEPT ![w] = None]
       ELSE Go(w, "decide") /\ UNCHANGED cur
  /\ UNCHANGED <<worldVars, orderVars, session, todo, candidates, target, verdict, sellable,
                 disturbed>>

\* _record_ambiguity: one insert under the unique key; a row that is there stays.
RecordAmbiguity(s, d) ==
  op' = [op EXCEPT ![s][d] = IF @ = "none" THEN "manual_reconciliation_required" ELSE @]

\* A fill without a scope, or one its order contradicts (_AttributionError).
CannotWeigh(w) ==
  /\ pc[w] = "weigh"
  /\ RecordAmbiguity(cur[w], session[w])
  /\ Go(w, "next")
  /\ Drop(w)
  /\ UNCHANGED <<worldVars, row, size, book, session, todo, sellable, disturbed>>

-----------------------------------------------------------------------------
(* The decision on a strategy that holds something. *)

Deciding(w) ==
  /\ pc[w] = "decide"
  /\ UNCHANGED <<worldVars, row, size, book, session, todo, sellable, disturbed>>

Existing(w) == op[cur[w]][session[w]]

\* The operation of session d is read here, and written and committed in Mark.
ToMark(w, d, status) ==
  /\ Go(w, "mark")
  /\ target' = [target EXCEPT ![w] = d]
  /\ verdict' = [verdict EXCEPT ![w] = status]
  /\ UNCHANGED <<op, cur, amount, candidates>>

PassOver(w) == Go(w, "next") /\ Drop(w)

FindCompleted(w) ==
  /\ Deciding(w)
  /\ Existing(w) = "completed"
  /\ ToMark(w, session[w], "reentry_blocked")

FindStopped(w) ==
  /\ Deciding(w)
  /\ Existing(w) = "intent_persisted"
  /\ ToMark(w, session[w], "manual_reconciliation_required")

FindUnderWay(w) ==
  /\ Deciding(w)
  /\ Existing(w) \in NeedsPerson \cup {"submission_pending"}
  /\ PassOver(w)
  /\ UNCHANGED op

\* The earliest unresolved session decides.
Blocked(w) ==
  /\ Deciding(w)
  /\ Existing(w) = "none"
  /\ \E d \in PriorUnresolved(cur[w], session[w]) :
       /\ \A e \in PriorUnresolved(cur[w], session[w]) : d <= e
       /\ IF op[cur[w]][d] = "intent_persisted"
            THEN ToMark(w, d, "manual_reconciliation_required")
            ELSE PassOver(w) /\ UNCHANGED op

Free(w) == Existing(w) = "none" /\ PriorUnresolved(cur[w], session[w]) = {}

\* More was sold than was bought.
RefuseNegative(w) ==
  /\ Deciding(w)
  /\ Free(w)
  /\ amount[w][cur[w]] < 0
  /\ RecordAmbiguity(cur[w], session[w])
  /\ PassOver(w)

BecomeCandidate(w) ==
  /\ Deciding(w)
  /\ Free(w)
  /\ amount[w][cur[w]] > 0
  /\ Go(w, "next")
  /\ cur' = [cur EXCEPT ![w] = None]
  /\ candidates' = [candidates EXCEPT ![w] = @ \cup {cur[w]}]
  /\ UNCHANGED <<op, amount, target, verdict>>

\* No version protects the operation: the write is of what was decided.
WriteVerdict(w) == op' = [op EXCEPT ![cur[w]][target[w]] = verdict[w]]

Mark(w) ==
  /\ pc[w] = "mark"
  /\ WriteVerdict(w)
  /\ Go(w, "next")
  /\ Drop(w)
  /\ UNCHANGED <<worldVars, row, size, book, session, todo, sellable, disturbed>>

Decide(w) ==
  \/ FindCompleted(w) \/ FindStopped(w) \/ FindUnderWay(w)
  \/ Blocked(w) \/ RefuseNegative(w) \/ BecomeCandidate(w)

-----------------------------------------------------------------------------
(* One look at the broker and at the open sells, for all candidates. *)

Chosen(w) == pc[w] = "next" /\ todo[w] = {} /\ candidates[w] # {}

\* The position as the broker states it, or no usable row of it.
ReadPosition(w) ==
  /\ Chosen(w)
  /\ ~killed
  /\ \E q \in {0, Held} : sellable' = [sellable EXCEPT ![w] = q]
  /\ Go(w, "check")
  /\ UNCHANGED <<worldVars, orderVars, session, todo, cur, amount, candidates, target,
                 verdict, disturbed>>

ReadFails(w) ==
  /\ Chosen(w)
  /\ ~killed
  /\ Go(w, "refuse")
  /\ UNCHANGED <<worldVars, orderVars, session, todo, cur, amount, candidates, target,
                 verdict, sellable, disturbed>>

Check(w) ==
  /\ pc[w] = "check"
  /\ Go(w, IF \/ \E s \in Strategies : ActiveSell(s)
              \/ sellable[w] < Total(amount[w])
           THEN "refuse" ELSE "claim")
  /\ UNCHANGED <<worldVars, orderVars, session, todo, cur, amount, candidates, target,
                 verdict, sellable, disturbed>>

Settled(w, s) ==
  /\ amount' = [amount EXCEPT ![w][s] = 0]
  /\ candidates' = [candidates EXCEPT ![w] = @ \ {s}]

Refuse(w, s) ==
  /\ pc[w] = "refuse"
  /\ s \in candidates[w]
  /\ RecordAmbiguity(s, session[w])
  /\ Settled(w, s)
  /\ UNCHANGED <<worldVars, row, size, book, pc, session, todo, cur, target, verdict,
                 sellable, disturbed>>

\* Nobody was a candidate, the switch was set, or the list is through.
Finish(w) ==
  /\ \/ pc[w] = "next" /\ todo[w] = {} /\ (candidates[w] = {} \/ killed)
     \/ pc[w] \in {"refuse", "claim"} /\ candidates[w] = {}
  /\ End(w)
  /\ UNCHANGED <<worldVars, orderVars>>

-----------------------------------------------------------------------------
(* Claim, send, conclude: one strategy after the other. *)

\* Mutant: the row another run has inserted is taken for this run's own.
ClaimShared(w, s) ==
  /\ pc[w] = "claim"
  /\ s \in candidates[w]
  /\ op' = [op EXCEPT ![s][session[w]] = "intent_persisted"]
  /\ row' = [row EXCEPT ![s][session[w]] =
       [status |-> "pending_intent", filled |-> 0]]
  /\ size' = [size EXCEPT ![s][session[w]] = amount[w][s]]
  /\ cur' = [cur EXCEPT ![w] = s]
  /\ target' = [target EXCEPT ![w] = session[w]]
  /\ Go(w, "submit")
  /\ UNCHANGED <<worldVars, book, session, todo, amount, candidates, verdict, sellable,
                 disturbed>>

\* Operation and order intent, in one commit and under one key.
ClaimWithOrderIntent(w, s) ==
  /\ pc[w] = "claim"
  /\ s \in candidates[w]
  /\ op[s][session[w]] = "none"
  /\ op' = [op EXCEPT ![s][session[w]] = "intent_persisted"]
  /\ row' = [row EXCEPT ![s][session[w]] =
       [status |-> "pending_intent", filled |-> 0]]
  /\ size' = [size EXCEPT ![s][session[w]] = amount[w][s]]
  /\ cur' = [cur EXCEPT ![w] = s]
  /\ target' = [target EXCEPT ![w] = session[w]]
  /\ Go(w, "submit")
  /\ UNCHANGED <<worldVars, book, session, todo, amount, candidates, verdict, sellable,
                 disturbed>>

\* Another run has the key: nothing is sent.
ClaimLost(w, s) ==
  /\ pc[w] = "claim"
  /\ s \in candidates[w]
  /\ op[s][session[w]] # "none"
  /\ Settled(w, s)
  /\ UNCHANGED <<worldVars, orderVars, pc, session, todo, cur, target, verdict, sellable,
                 disturbed>>

\* The linked order of the operation at hand.
Linked(w) == row[cur[w]][target[w]]

OutcomeKnown(w, status) ==
  /\ verdict' = [verdict EXCEPT ![w] = status]
  /\ Go(w, "conclude")
  /\ UNCHANGED <<worldVars, op, session, todo, cur, amount, candidates, target, sellable,
                 disturbed>>

\* The last gate reads the switch again; the intent stays as it is.
GateRefuses(w) ==
  /\ pc[w] = "submit"
  /\ killed
  /\ OutcomeKnown(w, "manual_reconciliation_required")
  /\ UNCHANGED <<row, size, book>>

Dispatch(w) ==
  /\ pc[w] = "submit"
  /\ ~killed
  /\ Linked(w).status = "pending_intent"
  /\ row' = [row EXCEPT ![cur[w]][target[w]].status = "submission_unknown"]
  /\ Go(w, "dispatched")
  /\ UNCHANGED <<worldVars, op, size, book, session, todo, cur, amount, candidates, target,
                 verdict, sellable, disturbed>>

\* The intent was cancelled: the version check refuses the write and the run breaks off.
StaleIntent(w) ==
  /\ pc[w] = "submit"
  /\ ~killed
  /\ Linked(w).status # "pending_intent"
  /\ End(w)
  /\ UNCHANGED <<worldVars, orderVars>>

Transmit(w) ==
  LET b == book[cur[w]][target[w]] IN
  /\ pc[w] = "dispatched"
  /\ book' = [book EXCEPT ![cur[w]][target[w]] =
       [b EXCEPT !.state = "flying", !.sent = b.sent + 1]]
  /\ Go(w, "sent")
  /\ UNCHANGED <<worldVars, op, row, size, session, todo, cur, amount, candidates, target,
                 verdict, sellable, disturbed>>

\* The operation status that goes with the order's status after submit_order.
StatusAfter(status) ==
  CASE status = "filled"   -> "completed"
    [] status = "accepted" -> "submission_pending"
    [] OTHER               -> "manual_reconciliation_required"

NotTransmitted(w) ==
  /\ pc[w] = "dispatched"
  /\ row' = [row EXCEPT ![cur[w]][target[w]].status = "error"]
  /\ OutcomeKnown(w, StatusAfter("error"))
  /\ UNCHANGED <<size, book>>

\* What is recorded of an order the broker has taken: a cancellation after a partial fill
\* is left to reconciliation (InterpretAcknowledgement in OrderSubmission).
Acknowledged(r, b) ==
  CASE b.state = "working"             -> [r EXCEPT !.status = "accepted"]
    [] b.state = "filled"              -> [status |-> "filled", filled |-> b.fill]
    [] b.state \in Failed /\ b.fill = 0 -> [r EXCEPT !.status = b.state]
    [] OTHER                           -> r

\* The answer arrives; if reconciliation came first the row stays as it is.
Answer(w) ==
  LET s == cur[w]
      d == target[w]
      new == IF Linked(w).status = "submission_unknown"
               THEN Acknowledged(Linked(w), book[s][d]) ELSE Linked(w)
  IN
  /\ pc[w] = "sent"
  /\ book[s][d].state \notin {"absent", "flying"}
  /\ row' = [row EXCEPT ![s][d] = new]
  /\ OutcomeKnown(w, StatusAfter(new.status))
  /\ UNCHANGED <<size, book>>

\* A timeout or an unusable answer.
NoAnswer(w) ==
  /\ pc[w] = "sent"
  /\ OutcomeKnown(w, StatusAfter(Linked(w).status))
  /\ UNCHANGED <<row, size, book>>

Conclude(w) ==
  /\ pc[w] = "conclude"
  /\ WriteVerdict(w)
  /\ Go(w, "claim")
  /\ Drop(w)
  /\ UNCHANGED <<worldVars, row, size, book, session, todo, sellable, disturbed>>

\* Killed at the time limit, lost, or broken off by an error: what is committed stays.
Die(w) ==
  /\ pc[w] # "idle"
  /\ End(w)
  /\ UNCHANGED <<worldVars, orderVars>>

-----------------------------------------------------------------------------
(* The broker (external), the reconciler, and everybody else. *)

Book(s, d, new) ==
  /\ book' = [book EXCEPT ![s][d] = new]
  /\ UNCHANGED <<worldVars, op, row, size, workerVars, disturbed>>

BrokerTakes(s, d) ==
  /\ book[s][d].state = "flying"
  /\ \E b \in {"working", "rejected", "absent"} : Book(s, d, [book[s][d] EXCEPT !.state = b])

BrokerFills(s, d) ==
  LET b == book[s][d] IN
  /\ b.state = "working"
  /\ Held > 0
  /\ Book(s, d, [b EXCEPT !.fill = b.fill + 1,
                          !.state = IF b.fill + 1 = size[s][d] THEN "filled" ELSE "working"])

BrokerEnds(s, d) ==
  LET b == book[s][d] IN
  /\ b.state = "working"
  /\ \E e \in {"cancelled", "rejected"} :
       /\ e = "rejected" => b.fill = 0
       /\ Book(s, d, [b EXCEPT !.state = e])

\* A final state with its fill; an order that works on only becomes known.
Reconciled(r, b) ==
  IF b.state \in TERMINAL_ORDER_STATUSES
    THEN [status |-> b.state, filled |-> b.fill]
    ELSE [r EXCEPT !.status = "accepted"]

Reconcile(s, d) ==
  /\ row[s][d].status \in ACTIVE_ORDER_STATUSES \ {"pending_intent"}
  /\ book[s][d].state \notin {"absent", "flying"}
  /\ row' = [row EXCEPT ![s][d] = Reconciled(@, book[s][d])]
  /\ UNCHANGED <<worldVars, op, size, book, workerVars, disturbed>>

\* Cancel-all and the timed-out-order task end intents that were never sent.
CancelIntent(s, d) ==
  /\ row[s][d].status = "pending_intent"
  /\ row' = [row EXCEPT ![s][d].status = "cancelled"]
  /\ UNCHANGED <<worldVars, op, size, book, workerVars, disturbed>>

Trades(s) ==
  /\ disturbed' = IF ReliedOn(s) THEN disturbed \cup {s} ELSE disturbed
  /\ UNCHANGED <<today, killed, bought, orderVars, workerVars>>

Buy(s) ==
  /\ bought[s] < Most
  /\ bought' = [bought EXCEPT ![s] = @ + 1]
  /\ UNCHANGED <<today, killed, exiting, exited, orderVars, workerVars, disturbed>>

\* The position monitor sells under a strategy's entry, up to the whole position of the
\* account: shares held by hand or by another strategy can be among them.
StartExit(s) ==
  /\ bought[s] > 0
  /\ exiting[s] = 0
  /\ \E q \in 1..Held : exiting' = [exiting EXCEPT ![s] = q]
  /\ UNCHANGED exited
  /\ Trades(s)

EndExit(s) ==
  /\ exiting[s] > 0
  /\ exiting' = [exiting EXCEPT ![s] = 0]
  /\ \/ UNCHANGED exited
     \/ exiting[s] <= Held /\ exited' = [exited EXCEPT ![s] = @ + exiting[s]]
  /\ Trades(s)

TurnSwitch ==
  /\ killed' = ~killed
  /\ UNCHANGED <<today, tradeVars, orderVars, workerVars, disturbed>>

\* A run is killed after 120 seconds, long before the next session.
NextDay ==
  /\ today < LastDay
  /\ \A w \in Workers : pc[w] = "idle"
  /\ today' = today + 1
  /\ UNCHANGED <<killed, tradeVars, orderVars, workerVars, disturbed>>

-----------------------------------------------------------------------------
WorkerStep(w) ==
  \/ \E due \in SUBSET Strategies : Begin(w, due)
  \/ \E s \in Strategies :
       Synchronize(w, s) \/ Refuse(w, s) \/ ClaimWithOrderIntent(w, s) \/ ClaimLost(w, s)
  \/ Weigh(w) \/ CannotWeigh(w) \/ Decide(w) \/ Mark(w)
  \/ ReadPosition(w) \/ ReadFails(w) \/ Check(w) \/ Finish(w)
  \/ GateRefuses(w) \/ Dispatch(w) \/ StaleIntent(w) \/ Transmit(w)
  \/ NotTransmitted(w) \/ Answer(w) \/ NoAnswer(w) \/ Conclude(w)
  \/ Die(w)

OrderStep(s, d) ==
  BrokerTakes(s, d) \/ BrokerFills(s, d) \/ BrokerEnds(s, d) \/ Reconcile(s, d)
    \/ CancelIntent(s, d)

Next ==
  \/ \E w \in Workers : WorkerStep(w)
  \/ \E s \in Strategies, d \in Days : OrderStep(s, d)
  \/ \E s \in Strategies : Buy(s) \/ StartExit(s) \/ EndExit(s)
  \/ TurnSwitch
  \/ NextDay

Spec == Init /\ [][Next]_vars

-----------------------------------------------------------------------------
(* Properties. *)

\* "Task redelivery, process restart, concurrent workers, terminal local orders, and
\* delayed broker settlement" cannot send a second sell for one strategy and session, and
\* none is sent before operation and intent are on record (docs/SAFETY_MODEL.md).
OneSellPerSession ==
  \A s \in Strategies, d \in Days :
    book[s][d].sent > 0 =>
      /\ book[s][d].sent = 1
      /\ op[s][d] # "none"
      /\ row[s][d].status \notin {"absent", "pending_intent"}

\* That, with every variable of its type: no overlap makes the account hold less than nothing.
SoldOncePerSession == TypeOK /\ OneSellPerSession

\* The flatten never sells what a strategy does not have, be it held by hand or by another
\* strategy, unless two workers overlapped, or an exit of that strategy began or ended
\* while a run relied on its figures.
SellsWhatIsAttributed ==
  \A s \in Strategies \ disturbed, d \in Days :
    book'[s][d].fill > book[s][d].fill =>
      exited[s] + Total([e \in Days |-> book'[s][e].fill]) <= bought[s]

\* An operation without a completed outcome blocks the strategy's later sessions, however
\* it came to be left: a worker that died, a lost answer, a failed sell.
UnresolvedBlocksLater ==
  \A s \in Strategies, d, e \in Days :
    d < e /\ book[s][e].sent > 0 => op[s][d] \in Resolved

\* An operation is called re-entered only if the strategy's records do show a quantity
\* after the flatten, or showed more sold than bought when they were weighed: a fill that
\* was late is never taken for a new position.
ReentryIsReal ==
  \A s \in Strategies, d \in Days :
    op[s][d] # "reentry_blocked" /\ op'[s][d] = "reentry_blocked" =>
      \/ NetQuantity(s) # 0
      \/ \E w \in Workers : pc[w] = "mark" /\ amount[w][s] < 0
      \/ s \in disturbed

\* What a flatten sells, and what it takes for a re-entry, is in the strategy's records.
FollowsTheRecords == [][SellsWhatIsAttributed /\ ReentryIsReal]_vars
============================================================================
