------------------------- MODULE OrderCancellation -------------------------
(***************************************************************************)
(* Cancelling orders (request_cancel, confirm_cancel, cancel_order and     *)
(* cancel_many in app/execution/engine.py; app/execution/cancellation.py). *)
(*                                                                         *)
(* A session is one caller: the cancel route for a single order, "cancel   *)
(* all pending", the emergency stop, or the task that cancels timed-out    *)
(* orders.  It works through its list in one transaction: every row is     *)
(* locked and asked for first, then every accepted request is confirmed by *)
(* a read, then what an earlier request left working is asked once more.   *)
(* Locks and writes last until the transaction ends.  Meanwhile the broker *)
(* fills and ends orders, and the scheduled reconciler settles rows nobody *)
(* has locked.                                                             *)
(*                                                                         *)
(* Submissions that are still in flight are in OrderSubmission: here an    *)
(* order is one that was prepared, or one that was sent long ago.          *)
(***************************************************************************)
EXTENDS Integers, OrderStates

CONSTANTS
  Orders,
  Sessions,
  Singles,      \* the sessions that cancel a single order (cancel_order)
  Qty,          \* the quantity of every order
  None

ASSUME SinglesAreSessions == Singles \subseteq Sessions
ASSUME QtyIsPositive == Qty \in Nat \ {0}
ASSUME NoneIsNobody == None \notin Sessions \cup Orders

VARIABLES
  book, fill,   \* the broker: state of each order, and how much of it filled
  row,          \* committed order rows, each with its cancel_request_accepted event
  draft,        \* the row as the transaction that holds its lock sees it
  lock,         \* the session that holds the row lock, or None
  running,      \* whether the session's transaction is open
  waits,        \* the order whose row lock the session asks for, or None
  fate,         \* the session's list, and what became of each order on it
  stopped,      \* CancelReads.stopped_because, and after the reads resend_refused
  acceptedNow,  \* _accepted_now
  took,         \* history: orders whose request the broker answered it had taken
  repeated      \* history: orders asked again although a request was under way

brokerVars  == <<book, fill>>
rowVars     == <<row, draft, lock>>
sessionVars == <<running, waits, fate, stopped, acceptedNow, took>>
vars        == <<brokerVars, rowVars, sessionVars, repeated>>

-----------------------------------------------------------------------------
\* The final states a broker record can name, by the status they are stored as.
Ended == {"filled", "cancelled", "rejected"}

Row == [status: KNOWN_ORDER_STATUSES, filled: 0..Qty, id: BOOLEAN, accepted: BOOLEAN]

\* Where an order of a list stands: not listed, waiting for its request, requested and
\* waiting for its read, to be asked again, or in one of the parts of a CancelBatch.
Reported == {"cancelled", "finished", "unconfirmed", "failed"}
Fates == {"none", "listed", "asked", "again"} \cup Reported

TypeOK ==
  /\ book \in [Orders -> {"absent", "working", "cancelling"} \cup Ended]
  /\ fill \in [Orders -> 0..Qty]
  /\ row \in [Orders -> Row]
  /\ draft \in [Orders -> Row]
  /\ lock \in [Orders -> Sessions \cup {None}]
  /\ running \in [Sessions -> BOOLEAN]
  /\ waits \in [Sessions -> Orders \cup {None}]
  /\ fate \in [Sessions -> [Orders -> Fates]]
  /\ stopped \in [Sessions -> BOOLEAN]
  /\ acceptedNow \in [Sessions -> SUBSET Orders]
  /\ took \in [Sessions -> SUBSET Orders]
  /\ repeated \subseteq Orders

\* Orders as a cancellation can find them: prepared and never sent; sent with no answer
\* (it may be live); or acknowledged, and perhaps filled further than is known here.
Prepared(o)     == row[o].status = "pending_intent" /\ ~row[o].id /\ book[o] = "absent"
Unanswered(o)   == /\ row[o].status = "submission_unknown"
                   /\ ~row[o].id
                   /\ book[o] \in {"absent", "working"}
Acknowledged(o) == /\ row[o].status \in {"submission_unknown", "accepted", "partially_filled"}
                   /\ row[o].id
                   /\ book[o] = "working"

PartKnown(o) == IF row[o].status = "partially_filled" THEN row[o].filled > 0 ELSE row[o].filled = 0

Init ==
  /\ book \in [Orders -> {"absent", "working"}]
  /\ row \in [Orders -> [status: ACTIVE_ORDER_STATUSES, filled: 0..(Qty - 1), id: BOOLEAN,
                         accepted: {FALSE}]]
  /\ \A o \in Orders : PartKnown(o) /\ (Prepared(o) \/ Unanswered(o) \/ Acknowledged(o))
  /\ fill = [o \in Orders |-> row[o].filled]
  /\ draft = row
  /\ lock = [o \in Orders |-> None]
  /\ running = [s \in Sessions |-> FALSE]
  /\ waits = [s \in Sessions |-> None]
  /\ fate = [s \in Sessions |-> [o \in Orders |-> "none"]]
  /\ stopped = [s \in Sessions |-> FALSE]
  /\ acceptedNow = [s \in Sessions |-> {}]
  /\ took = [s \in Sessions |-> {}]
  /\ repeated = {}

-----------------------------------------------------------------------------
(* One transaction. *)

Fate(s, o, f) == fate' = [fate EXCEPT ![s][o] = f]

\* The first f that some order of the session's list still has decides what it does next.
Asking(s)  == running[s] /\ \E o \in Orders : fate[s][o] = "listed"
Reading(s) == running[s] /\ ~Asking(s) /\ \E o \in Orders : fate[s][o] = "asked"
Again(s)   == running[s] /\ ~Asking(s) /\ ~Reading(s) /\ \E o \in Orders : fate[s][o] = "again"
Through(s) == running[s] /\ \A o \in Orders : fate[s][o] \in Reported \cup {"none"}

\* The list is read without a lock: any of it may have ended when its turn comes.
Begin(s, list) ==
  /\ ~running[s]
  /\ list # {}
  /\ \A o \in list : row[o].status \in ACTIVE_ORDER_STATUSES
  /\ s \in Singles => \A o, p \in list : o = p
  /\ running' = [running EXCEPT ![s] = TRUE]
  /\ fate' = [fate EXCEPT ![s] = [o \in Orders |-> IF o \in list THEN "listed" ELSE "none"]]
  /\ took' = [took EXCEPT ![s] = {}]
  /\ UNCHANGED <<brokerVars, rowVars, waits, stopped, acceptedNow, repeated>>

\* SELECT ... FOR UPDATE.  No query gives a list an order: the next may be any of it.
AskForRow(s, o) ==
  /\ Asking(s)
  /\ waits[s] = None
  /\ fate[s][o] = "listed"
  /\ waits' = [waits EXCEPT ![s] = o]
  /\ UNCHANGED <<brokerVars, rowVars, running, fate, stopped, acceptedNow, took, repeated>>

\* Mutant: the row is read again but not locked.
RowUnlocked(s, o) ==
  /\ running[s]
  /\ waits[s] = o
  /\ waits' = [waits EXCEPT ![s] = None]
  /\ lock' = [lock EXCEPT ![o] = s]

\* The lock is granted, and the session looks at the row as it is then.
RowLocked(s, o) ==
  /\ running[s]
  /\ waits[s] = o
  /\ lock[o] = None
  /\ waits' = [waits EXCEPT ![s] = None]
  /\ lock' = [lock EXCEPT ![o] = s]

\* Mutant: whatever has ended counts as cancelled.
PartOfAnything(status) == "cancelled"

\* The part of a CancelBatch an order that has ended belongs to.
PartOf(status) == IF status = "cancelled" THEN "cancelled" ELSE "finished"

\* It ended since it was listed: nothing is asked (InvalidOrderTransition, unless cancelled).
FindEnded(s, o) ==
  /\ RowLocked(s, o)
  /\ row[o].status \in TERMINAL_ORDER_STATUSES
  /\ Fate(s, o, PartOf(row[o].status))
  /\ UNCHANGED <<brokerVars, row, draft, running, stopped, acceptedNow, took, repeated>>

\* An unknown submission without an id cannot be asked for, and may be live.
BlockUnknown(s, o) ==
  /\ RowLocked(s, o)
  /\ row[o].status = "submission_unknown"
  /\ ~row[o].id
  /\ Fate(s, o, "failed")
  /\ UNCHANGED <<brokerVars, row, draft, running, stopped, acceptedNow, took, repeated>>

\* Mutant: any order without a broker id is ended here.
EndHereWithoutAnId(s, o) ==
  /\ RowLocked(s, o)
  /\ ~row[o].id
  /\ row[o].status \in ACTIVE_ORDER_STATUSES
  /\ draft' = [draft EXCEPT ![o].status = "cancelled"]
  /\ Fate(s, o, "cancelled")
  /\ UNCHANGED <<brokerVars, row, running, stopped, acceptedNow, took, repeated>>

\* It never reached a broker (_cancel_locally).
CancelLocally(s, o) ==
  /\ RowLocked(s, o)
  /\ ~row[o].id
  /\ row[o].status \in ACTIVE_ORDER_STATUSES \ {"submission_unknown"}
  /\ draft' = [draft EXCEPT ![o].status = "cancelled"]
  /\ Fate(s, o, "cancelled")
  /\ UNCHANGED <<brokerVars, row, running, stopped, acceptedNow, took, repeated>>

\* The broker took an earlier request: it is not asked again, only read.
FindAccepted(s, o) ==
  /\ RowLocked(s, o)
  /\ row[o].id
  /\ row[o].status \in ACTIVE_ORDER_STATUSES
  /\ row[o].accepted
  /\ Fate(s, o, "asked")
  /\ UNCHANGED <<brokerVars, row, draft, running, stopped, acceptedNow, took, repeated>>

MayBeAsked(s, o) ==
  /\ RowLocked(s, o)
  /\ row[o].id
  /\ row[o].status \in ACTIVE_ORDER_STATUSES
  /\ ~row[o].accepted

-----------------------------------------------------------------------------
(* The cancel request: what the broker does with it, and what is known then. *)

\* It takes a request for an order it has open, at once, soon, or in name only (external).
BrokerTakesRequest(o) ==
  /\ book[o] \in {"working", "cancelling"}
  /\ \E b \in {book[o], "cancelling", "cancelled"} : book' = [book EXCEPT ![o] = b]
  /\ UNCHANGED fill

\* A request is repeated when one under way is on record, or is known to a session.
UnderWay(o) ==
  /\ book[o] = "cancelling"
  /\ row[o].accepted \/ \E s \in Sessions : running[s] /\ o \in took[s]

Sent(o) == repeated' = repeated \cup {p \in {o} : UnderWay(p)}

\* The event is added and flushed; the row keeps its status (_send_cancel).
RecordAccepted(s, o) ==
  /\ draft' = [draft EXCEPT ![o].accepted = TRUE]
  /\ took' = [took EXCEPT ![s] = @ \cup {o}]

SendTaken(s, o) ==
  /\ MayBeAsked(s, o)
  /\ BrokerTakesRequest(o)
  /\ Sent(o)
  /\ RecordAccepted(s, o)
  /\ acceptedNow' = [acceptedNow EXCEPT ![s] = @ \cup {o}]
  /\ Fate(s, o, "asked")
  /\ UNCHANGED <<row, running, stopped>>

\* Refused, never sent, or taken with the answer lost: it is called failed.
RequestFails(o) == Sent(o) /\ (UNCHANGED brokerVars \/ BrokerTakesRequest(o))

SendFails(s, o) ==
  /\ MayBeAsked(s, o)
  /\ RequestFails(o)
  /\ Fate(s, o, "failed")
  /\ UNCHANGED <<row, draft, running, stopped, acceptedNow, took>>

-----------------------------------------------------------------------------
(* The reads that confirm (confirm_cancel). *)

ToRead(s, o) == Reading(s) /\ fate[s][o] = "asked" /\ ~stopped[s]

Confirmed(s, o) ==
  /\ acceptedNow' = [acceptedNow EXCEPT ![s] = @ \ {o}]
  /\ UNCHANGED <<brokerVars, row, lock, running, waits, took, repeated>>

\* Mutant: what the record states is added to what is known here.
FinalStateAdding(old, o) ==
  [old EXCEPT !.status = book[o], !.filled = @ + fill[o]]

\* _record_final_state: what is known here is kept when the record states less.
FinalState(old, o) ==
  [old EXCEPT
     !.status = book[o],
     !.filled = IF book[o] = "filled" THEN Qty ELSE IF fill[o] < @ THEN @ ELSE fill[o]]

ReadFinal(s, o) ==
  /\ ToRead(s, o)
  /\ book[o] \in Ended
  /\ draft' = [draft EXCEPT ![o] = FinalState(@, o)]
  /\ Fate(s, o, PartOf(book[o]))
  /\ Confirmed(s, o)
  /\ UNCHANGED stopped

\* Mutant: a failure while recording one order undoes the transaction.
NotSavedUndoesAll(s, o) ==
  /\ ToRead(s, o)
  /\ s \notin Singles
  /\ book[o] \in Ended
  /\ draft' = [p \in Orders |-> IF lock[p] = s THEN row[p] ELSE draft[p]]
  /\ Fate(s, o, "unconfirmed")
  /\ Confirmed(s, o)
  /\ UNCHANGED stopped

\* A batch undoes the savepoint of that order.  (A single cancellation ends in an error.)
NotSaved(s, o) ==
  /\ ToRead(s, o)
  /\ s \notin Singles
  /\ book[o] \in Ended
  /\ Fate(s, o, "unconfirmed")
  /\ Confirmed(s, o)
  /\ UNCHANGED <<draft, stopped>>

\* Open.  Only an order that works on after an earlier request may be asked again.
ReadOpen(s, o) ==
  /\ ToRead(s, o)
  /\ book[o] \in {"working", "cancelling"}
  /\ Fate(s, o, IF o \notin acceptedNow[s] /\ book[o] = "working" THEN "again" ELSE "unconfirmed")
  /\ Confirmed(s, o)
  /\ UNCHANGED <<draft, stopped>>

\* No record of it, or one that cannot be relied on: the reads go on.
ReadNothing(s, o) ==
  /\ ToRead(s, o)
  /\ Fate(s, o, "unconfirmed")
  /\ Confirmed(s, o)
  /\ UNCHANGED <<draft, stopped>>

\* The broker did not answer, or the time is spent: nothing more is read.
ReadFails(s, o) ==
  /\ ToRead(s, o)
  /\ stopped' = [stopped EXCEPT ![s] = TRUE]
  /\ Fate(s, o, "unconfirmed")
  /\ Confirmed(s, o)
  /\ UNCHANGED draft

NotRead(s, o) ==
  /\ Reading(s)
  /\ fate[s][o] = "asked"
  /\ stopped[s]
  /\ Fate(s, o, "unconfirmed")
  /\ Confirmed(s, o)
  /\ UNCHANGED <<draft, stopped>>

-----------------------------------------------------------------------------
(* What an earlier request left working is asked once more. *)

ToAskAgain(s, o) == Again(s) /\ fate[s][o] = "again" /\ ~stopped[s]

\* A batch leaves it at that; a single cancellation reads the order once more.
AfterAskingAgain(s, o) ==
  /\ Fate(s, o, IF s \in Singles THEN "asked" ELSE "unconfirmed")
  /\ acceptedNow' = [acceptedNow EXCEPT ![s] = IF s \in Singles THEN @ \cup {o} ELSE @]

AskAgainTaken(s, o) ==
  /\ ToAskAgain(s, o)
  /\ BrokerTakesRequest(o)
  /\ Sent(o)
  /\ RecordAccepted(s, o)
  /\ AfterAskingAgain(s, o)
  /\ UNCHANGED <<row, lock, running, waits, stopped>>

\* A refusal may make the adapter pause: the rest are not asked.
AskAgainFails(s, o) ==
  /\ ToAskAgain(s, o)
  /\ RequestFails(o)
  /\ stopped' = [stopped EXCEPT ![s] = TRUE]
  /\ Fate(s, o, "failed")
  /\ UNCHANGED <<rowVars, running, waits, acceptedNow, took>>

NotAskedAgain(s, o) ==
  /\ Again(s)
  /\ fate[s][o] = "again"
  /\ stopped[s]
  /\ Fate(s, o, "unconfirmed")
  /\ UNCHANGED <<brokerVars, rowVars, running, waits, stopped, acceptedNow, took, repeated>>

-----------------------------------------------------------------------------
(* The end of the transaction. *)

LetGo(s) ==
  /\ lock' = [o \in Orders |-> IF lock[o] = s THEN None ELSE lock[o]]
  /\ running' = [running EXCEPT ![s] = FALSE]
  /\ waits' = [waits EXCEPT ![s] = None]
  /\ stopped' = [stopped EXCEPT ![s] = FALSE]
  /\ acceptedNow' = [acceptedNow EXCEPT ![s] = {}]
  /\ UNCHANGED <<brokerVars, repeated>>

\* POST /orders/{id}/cancel answers with what became of its one order, an error included.
OneIsReported(s) == s \in Singles /\ Through(s)

\* A batch is reported as a whole, by parts, to the operator and in the audit log.
AllAreReported(s) == s \notin Singles /\ Through(s)

\* The report goes out, and the caller commits.
Commit(s) ==
  /\ OneIsReported(s) \/ AllAreReported(s)
  /\ row' = [o \in Orders |-> IF lock[o] = s THEN draft[o] ELSE row[o]]
  /\ LetGo(s)
  /\ UNCHANGED <<draft, fate, took>>

\* Mutant: the transaction is given up but not rolled back.
UndoKeepsLocks(s) ==
  /\ running' = [running EXCEPT ![s] = FALSE]
  /\ waits' = [waits EXCEPT ![s] = None]
  /\ fate' = [fate EXCEPT ![s] = [o \in Orders |-> "none"]]
  /\ UNCHANGED <<brokerVars, rowVars, stopped, acceptedNow, took, repeated>>

\* Nothing of the transaction remains, and nobody is told anything.
Undo(s) ==
  /\ draft' = [o \in Orders |-> IF lock[o] = s THEN row[o] ELSE draft[o]]
  /\ fate' = [fate EXCEPT ![s] = [o \in Orders |-> "none"]]
  /\ took' = [took EXCEPT ![s] = {}]
  /\ LetGo(s)
  /\ UNCHANGED row

\* Killed at its time limit, crashed, disconnected, or failed for a reason of its own.
Abort(s) == running[s] /\ Undo(s)

\* The session whose lock s waits for.
Holder(s) == lock[waits[s]]

Waiting(s) == waits[s] # None /\ Holder(s) # None

\* PostgreSQL ends one transaction of a circle of waiting ones (external).
DeadlockVictim(s) ==
  /\ \E circle \in SUBSET Sessions :
       /\ s \in circle
       /\ \A t \in circle : Waiting(t)
       /\ {Holder(t) : t \in circle} = circle
  /\ Undo(s)

-----------------------------------------------------------------------------
(* The broker (external), and the scheduled reconciler. *)

BrokerFills(o) ==
  /\ book[o] \in {"working", "cancelling"}
  /\ fill[o] < Qty
  /\ fill' = [fill EXCEPT ![o] = @ + 1]
  /\ book' = [book EXCEPT ![o] = IF fill[o] + 1 = Qty THEN "filled" ELSE @]
  /\ UNCHANGED <<rowVars, sessionVars, repeated>>

BrokerEnds(o) ==
  /\ book[o] \in {"working", "cancelling"}
  /\ \E b \in {"cancelled", "rejected"} :
       /\ b = "rejected" => fill[o] = 0
       /\ book' = [book EXCEPT ![o] = b]
  /\ UNCHANGED <<fill, rowVars, sessionVars, repeated>>

\* Mutant: an order known to have filled in part is not taken up.
DueUnlessFilling(o) ==
  lock[o] = None /\ row[o].id /\ row[o].status \in {"submission_unknown", "accepted"}

\* What _reconcile_one takes up: SKIP LOCKED, with an id, still active.
Due(o) == lock[o] = None /\ row[o].id /\ row[o].status \in ACTIVE_ORDER_STATUSES

ReconcilerSettles(o) ==
  /\ Due(o)
  /\ book[o] \in Ended
  /\ row' = [row EXCEPT ![o] = FinalState(@, o)]
  /\ draft' = [draft EXCEPT ![o] = FinalState(row[o], o)]
  /\ UNCHANGED <<brokerVars, lock, sessionVars, repeated>>

ReconcilerSeesWorking(o) ==
  /\ Due(o)
  /\ book[o] = "working"
  /\ row[o].status = "submission_unknown"
  /\ row' = [row EXCEPT ![o].status = "accepted"]
  /\ draft' = [draft EXCEPT ![o].status = "accepted"]
  /\ UNCHANGED <<brokerVars, lock, sessionVars, repeated>>

-----------------------------------------------------------------------------
Request(s, o) ==
  \/ AskForRow(s, o)
  \/ FindEnded(s, o) \/ BlockUnknown(s, o) \/ CancelLocally(s, o) \/ FindAccepted(s, o)
  \/ SendTaken(s, o) \/ SendFails(s, o)

Confirm(s, o) ==
  \/ ReadFinal(s, o) \/ NotSaved(s, o) \/ ReadOpen(s, o) \/ ReadNothing(s, o)
  \/ ReadFails(s, o) \/ NotRead(s, o)

AskAgain(s, o) == AskAgainTaken(s, o) \/ AskAgainFails(s, o) \/ NotAskedAgain(s, o)

GoOn(s) == (\E o \in Orders : Request(s, o) \/ Confirm(s, o) \/ AskAgain(s, o)) \/ Commit(s)

Reconciler(o) == ReconcilerSettles(o) \/ ReconcilerSeesWorking(o)

Next ==
  \/ \E s \in Sessions :
       \/ \E list \in SUBSET Orders : Begin(s, list)
       \/ GoOn(s)
       \/ Abort(s)
       \/ DeadlockVictim(s)
  \/ \E o \in Orders : BrokerFills(o) \/ BrokerEnds(o) \/ Reconciler(o)

Spec == Init /\ [][Next]_vars

\* A session goes on while it is not blocked by another; the database ends a deadlock;
\* the reconciler comes round and finds a row unlocked at some time.
Fairness ==
  /\ \A s \in Sessions : SF_vars(GoOn(s)) /\ WF_vars(DeadlockVictim(s))
  /\ \A o \in Orders : SF_vars(ReconcilerSettles(o))

-----------------------------------------------------------------------------
(* Properties. *)

\* An order is never ended here while it may still be live at the broker, and an ended
\* one says how it ended and how much of it filled first: an accepted request is not an
\* order ended, and a fill that beats a cancellation is not lost (confirm_cancel).
NoLiveOrderIsHidden ==
  /\ TypeOK
  /\ \A o \in Orders : row[o].status \in TERMINAL_ORDER_STATUSES =>
       \/ book[o] = "absent" /\ ~row[o].id
       \/ book[o] = row[o].status /\ fill[o] = row[o].filled

\* A local failure while one order is recorded cannot undo the record of the requests
\* already sent (cancel_many): once a session has committed, each is on record.
AcceptedIsOnRecord ==
  \A s \in Sessions, o \in Orders :
    ~running[s] /\ fate[s][o] # "none" /\ o \in took[s] => row[o].accepted

\* What a committed session did and what it reported of each order is what the rows say.
ReportIsTrue ==
  /\ AcceptedIsOnRecord
  /\ \A s \in Sessions, o \in Orders : ~running[s] =>
      /\ fate[s][o] \in Reported \cup {"none"}
      /\ fate[s][o] = "cancelled" => row[o].status = "cancelled"
      /\ fate[s][o] = "finished" =>
           row[o].status \in TERMINAL_ORDER_STATUSES \ {"cancelled"}
      /\ fate[s][o] = "unconfirmed" => row[o].accepted

\* A request the broker is acting on is not sent again, by any session, while its record
\* is not lost with the transaction that sent it (request_cancel's lock and event).
NobodyAsksTwice == repeated = {}

\* A batch always ends, with a report or undone, whatever the others hold.
SessionsEnd == \A s \in Sessions : running[s] ~> ~running[s]

\* An order left unconfirmed is settled by the reconciler once the broker has ended it
\* (cancellation.py).
UnconfirmedIsSettled ==
  \A o \in Orders :
    (row[o].accepted /\ book[o] \in Ended) ~> row[o].status \in TERMINAL_ORDER_STATUSES

\* Nothing stays open: no batch, and no cancellation that was asked for.
CancellationsConclude == SessionsEnd /\ UnconfirmedIsSettled
============================================================================
