-------------------------- MODULE DemoReconciliation --------------------------
(***************************************************************************)
(* The owners of reconciliation: runs of the demo worker                   *)
(* (services/demo_reconciliation_worker.py), which the in-process          *)
(* scheduler, an operator or a script starts, and the scheduled task       *)
(* (workers/tasks.py), all under one lock in Redis that is a lease.        *)
(*                                                                         *)
(* A demo run keeps all its changes in one transaction.  It locks no row   *)
(* it reads: a change that meets a row written since it was read fails the *)
(* run by the row's version.  The scheduled task locks, settles and        *)
(* commits one order at a time.  A process may be stalled and go on after  *)
(* its lease has ended.                                                    *)
(*                                                                         *)
(* What the history says of an order is its state at the broker and the    *)
(* quantity filled.                                                        *)
(***************************************************************************)
EXTENDS Naturals, Sequences, FiniteSets, OrderStates

CONSTANTS
    Batch,          \* the candidates, in the order of their creation
    Demos,          \* runs of the demo worker that may overlap
    Task,           \* the scheduled task
    Qty,            \* shares of an order
    OwnerRunLimit,  \* reconciliation_run_limit_seconds, in ticks
    OwnerLease,     \* reconciliation_owner_lease_seconds, in ticks
    Missing

Candidates == {Batch[k] : k \in DOMAIN Batch}
Owners == Demos \union {Task}

(* A candidate is selected once, and the limit ends a run before its lease *)
(* does (reconciliation_owner_lease_seconds).                              *)
ASSUME LeaseOutlivesRun ==
    /\ Batch \in Seq(Candidates)
    /\ \A j, k \in DOMAIN Batch : Batch[j] = Batch[k] => j = k
    /\ Qty \in Nat \ {0}
    /\ OwnerRunLimit \in Nat /\ OwnerLease \in Nat /\ OwnerRunLimit < OwnerLease
    /\ Task \notin Demos /\ Missing \notin Candidates \union Owners

VARIABLES
    book,        \* the orders at the broker
    order_row,   \* the order rows, as committed
    owner_lock,  \* the owner lock and what is left of its lease
    owner        \* the runs

owner_vars == <<book, order_row, owner_lock, owner>>

NoOwnerRun == [phase |-> "idle"]
Unowned == [holder |-> Missing, lease |-> 0]
NoChange == [o \in Candidates |-> Missing]

OwnerInit ==
    /\ book = [o \in Candidates |-> [status |-> "working", filled |-> 0]]
    /\ order_row = [o \in Candidates |-> [status |-> "accepted", filled |-> 0]]
    /\ owner_lock = Unowned
    /\ owner = [r \in Owners |-> NoOwnerRun]

Terminal(o) == order_row[o].status \in TERMINAL_ORDER_STATUSES

(***************************************************************************)
(* The rows: who has one locked, and what a commit does to the others.     *)
(***************************************************************************)
(* A demo run has the rows locked that it has changed; the task, the one it *)
(* is settling.                                                            *)
Locks(r) ==
    IF owner[r].phase = "idle" THEN {}
    ELSE IF r = Task THEN {owner[r].at} \ {Missing}
    ELSE {o \in Candidates : owner[r].changes[o] # Missing}

LockedByOther(o, r) == \E s \in Owners \ {r} : o \in Locks(s)

(* Copies of the written rows, in the sessions of other runs, are outdated. *)
Outdate(runs, written) ==
    [r \in Owners |-> IF runs[r].phase # "idle" /\ runs[r].at \in written
                      THEN [runs[r] EXCEPT !.fresh = FALSE] ELSE runs[r]]

(***************************************************************************)
(* The owner lock.                                                         *)
(***************************************************************************)
(* exclusive_task_lock: SET NX with an expiry.                             *)
Start(r) ==
    /\ owner[r] = NoOwnerRun
    /\ owner_lock = Unowned
    /\ owner_lock' = [holder |-> r, lease |-> OwnerLease]
    /\ owner' = [owner EXCEPT ![r] =
                  [phase |-> "work", next |-> 1, at |-> Missing, seen |-> Missing, found |-> Missing,
                   fresh |-> TRUE, changes |-> NoChange, elapsed |-> 0, stalled |-> FALSE]]
    /\ UNCHANGED <<book, order_row>>

(* A mutant of LockReleased: the key is deleted whoever holds it.           *)
ReleasedByAnyone(r) == Unowned

(* _RELEASE_LOCK_SCRIPT: only the holder of the token deletes the key.      *)
LockReleased(r) == IF owner_lock.holder = r THEN Unowned ELSE owner_lock

Release(r) ==
    /\ owner[r].phase \in {"saved", "failed"}
    /\ owner_lock' = LockReleased(r)
    /\ owner' = [owner EXCEPT ![r] = NoOwnerRun]
    /\ UNCHANGED <<book, order_row>>

(***************************************************************************)
(* A demo run.                                                             *)
(***************************************************************************)
(* select_reconciliation_candidates: the oldest first.                     *)
Candidate(r) == Batch[owner[r].next]

AtWork(r) == owner[r].phase = "work" /\ owner[r].next \in DOMAIN Batch
GoOn(m) == [m EXCEPT !.next = m.next + 1, !.at = Missing, !.seen = Missing, !.found = Missing]
Failed(m) == [m EXCEPT !.phase = "failed", !.at = Missing, !.seen = Missing, !.found = Missing,
                       !.changes = NoChange]

(* The row is read again, and passed over if it has ended meanwhile.       *)
Refresh(r) ==
    /\ AtWork(r)
    /\ owner[r].at = Missing
    /\ LET o == Candidate(r)
       IN  owner' = [owner EXCEPT ![r] =
                     IF Terminal(o) THEN GoOn(owner[r])
                     ELSE [owner[r] EXCEPT !.at = o, !.seen = order_row[o], !.fresh = TRUE]]
    /\ UNCHANGED <<book, order_row, owner_lock>>

(* get_historical_orders finds the order, or not, or fails; a rate limit    *)
(* ends the batch.                                                         *)
ReadHistory(r) ==
    /\ AtWork(r)
    /\ owner[r].at # Missing
    /\ owner[r].found = Missing
    /\ \E m \in {[owner[r] EXCEPT !.found = book[owner[r].at]], GoOn(owner[r]),
                 [GoOn(owner[r]) EXCEPT !.next = Len(Batch) + 1]} :
          owner' = [owner EXCEPT ![r] = m]
    /\ UNCHANGED <<book, order_row, owner_lock>>

(* _map_broker_status: a working order is accepted, filled in part or not.  *)
MapStatus(status) == IF status = "working" THEN "accepted" ELSE status

(* Only what differs from the copy is written.                             *)
Merged(o, seen, found) ==
    [status |-> IF MapStatus(found.status) = seen.status THEN order_row[o].status
                ELSE MapStatus(found.status),
     filled |-> IF found.filled = seen.filled THEN order_row[o].filled ELSE found.filled]

(* A mutant of Unwritten: the row's version is not compared.                *)
AnyVersion(r) == TRUE

(* The row has the version of the copy.                                    *)
Unwritten(r) == owner[r].fresh

(* _apply_match and its flush, which waits for the row's lock.              *)
Apply(r) ==
    LET o == owner[r].at
        allowed == can_transition_order_status(owner[r].seen.status,
                                               MapStatus(owner[r].found.status))
    IN  /\ AtWork(r)
        /\ owner[r].found # Missing
        /\ ~LockedByOther(o, r)
        /\ owner' = [owner EXCEPT ![r] =
                     IF allowed /\ Unwritten(r)
                     THEN [GoOn(owner[r]) EXCEPT
                             !.changes = [@ EXCEPT ![o] = Merged(o, owner[r].seen, owner[r].found)]]
                     ELSE Failed(owner[r])]
        /\ UNCHANGED <<book, order_row, owner_lock>>

(* The lock while the run is about to save.                                *)
LockBeforeSaving(r) == owner_lock

Finish(r) ==
    /\ owner[r].phase = "work"
    /\ owner[r].next > Len(Batch)
    /\ owner' = [owner EXCEPT ![r].phase = "saving"]
    /\ owner_lock' = LockBeforeSaving(r)
    /\ UNCHANGED <<book, order_row>>

(* Commit while still the owner.                                           *)
Save(r) ==
    LET written == Locks(r)
        after == [owner EXCEPT ![r] = [owner[r] EXCEPT !.phase = "saved", !.changes = NoChange]]
    IN  /\ owner[r].phase = "saving"
        /\ order_row' = [o \in Candidates |->
                            IF o \in written THEN owner[r].changes[o] ELSE order_row[o]]
        /\ owner' = Outdate(after, written)
        /\ UNCHANGED <<book, owner_lock>>

(***************************************************************************)
(* The scheduled task: one order, one transaction.                         *)
(***************************************************************************)
TaskLocks ==
    /\ AtWork(Task)
    /\ owner[Task].at = Missing
    /\ LET o == Candidate(Task)
       IN  /\ ~LockedByOther(o, Task)
           /\ owner' = [owner EXCEPT ![Task] = IF Terminal(o) THEN GoOn(owner[Task])
                                               ELSE [owner[Task] EXCEPT !.at = o]]
    /\ UNCHANGED <<book, order_row, owner_lock>>

StatusOf(found) ==
    IF found.status = "working"
    THEN IF found.filled = 0 THEN "accepted" ELSE "partially_filled"
    ELSE found.status

(* What is read while the row is locked is settled and committed.           *)
TaskReads ==
    /\ AtWork(Task)
    /\ owner[Task].at # Missing
    /\ owner[Task].found = Missing
    /\ owner' = [owner EXCEPT ![Task].found = book[owner[Task].at]]
    /\ UNCHANGED <<book, order_row, owner_lock>>

TaskSettles ==
    LET o == owner[Task].at
        found == owner[Task].found
    IN  /\ AtWork(Task)
        /\ found # Missing
        /\ order_row' = [order_row EXCEPT ![o] =
                            [status |-> StatusOf(found), filled |-> found.filled]]
        /\ owner' = Outdate([owner EXCEPT ![Task] = GoOn(owner[Task])], {o})
        /\ UNCHANGED <<book, owner_lock>>

TaskEnds ==
    /\ owner[Task].phase = "work"
    /\ owner[Task].next > Len(Batch)
    /\ owner' = [owner EXCEPT ![Task].phase = "saved"]
    /\ UNCHANGED <<book, order_row, owner_lock>>

(***************************************************************************)
(* Failures, limits and time.                                              *)
(***************************************************************************)
(* An exception, or the run's time limit: what is not saved is discarded    *)
(* before the lock goes.                                                   *)
Fail(r) ==
    /\ owner[r].phase \in {"work", "saving"}
    /\ owner' = [owner EXCEPT ![r] = Failed(owner[r])]
    /\ UNCHANGED <<book, order_row, owner_lock>>

(* The process dies; the database rolls back, the lock stays.               *)
Die(r) ==
    /\ owner[r] # NoOwnerRun
    /\ owner' = [owner EXCEPT ![r] = NoOwnerRun]
    /\ UNCHANGED <<book, order_row, owner_lock>>

(* A process is suspended: no limit stops it until it goes on.              *)
Stall(r) ==
    /\ \A s \in Owners : owner[s] # NoOwnerRun => ~owner[s].stalled
    /\ owner[r].phase \in {"work", "saving"}
    /\ owner' = [owner EXCEPT ![r].stalled = TRUE]
    /\ UNCHANGED <<book, order_row, owner_lock>>

(* Runs that are not stalled have ended at their limit.                    *)
TimePasses ==
    /\ \E r \in Owners : owner[r] # NoOwnerRun \/ owner_lock # Unowned
    /\ \A r \in Owners :
          owner[r] # NoOwnerRun => owner[r].stalled \/ owner[r].elapsed < OwnerRunLimit
    /\ owner_lock' = IF owner_lock.lease > 1 THEN [owner_lock EXCEPT !.lease = @ - 1] ELSE Unowned
    /\ owner' = [r \in Owners |-> IF owner[r] # NoOwnerRun /\ ~owner[r].stalled
                                  THEN [owner[r] EXCEPT !.elapsed = @ + 1] ELSE owner[r]]
    /\ UNCHANGED <<book, order_row>>

(***************************************************************************)
(* The broker, and the tasks that settle an order under its row lock.       *)
(***************************************************************************)
BrokerFills(o) ==
    /\ book[o].status = "working"
    /\ book' = [book EXCEPT ![o] =
                  [status |-> IF book[o].filled + 1 = Qty THEN "filled" ELSE "working",
                   filled |-> book[o].filled + 1]]
    /\ UNCHANGED <<order_row, owner_lock, owner>>

BrokerCancels(o) ==
    /\ book[o].status = "working"
    /\ book' = [book EXCEPT ![o].status = "cancelled"]
    /\ UNCHANGED <<order_row, owner_lock, owner>>

(* A confirmed cancellation, or a sell of the monitor, ends the row.        *)
SettleElsewhere(o) ==
    /\ book[o].status # "working"
    /\ ~Terminal(o)
    /\ \A r \in Owners : o \notin Locks(r)
    /\ order_row' = [order_row EXCEPT ![o] = book[o]]
    /\ owner' = Outdate(owner, {o})
    /\ UNCHANGED <<book, owner_lock>>

OwnerNext ==
    \/ \E r \in Owners : Start(r) \/ Release(r) \/ Fail(r) \/ Die(r) \/ Stall(r)
    \/ \E r \in Demos : Refresh(r) \/ ReadHistory(r) \/ Apply(r) \/ Finish(r) \/ Save(r)
    \/ TaskLocks \/ TaskReads \/ TaskSettles \/ TaskEnds
    \/ \E o \in Candidates : BrokerFills(o) \/ BrokerCancels(o) \/ SettleElsewhere(o)
    \/ TimePasses

OwnerSpec == OwnerInit /\ [][OwnerNext]_owner_vars

(***************************************************************************)
(* Properties.                                                             *)
(***************************************************************************)
RowStates == [status : KNOWN_ORDER_STATUSES, filled : 0 .. Qty]

(* The type invariant; an order that is filled is filled as a whole.        *)
OwnerTypeOK ==
    /\ book \in [Candidates -> [status : {"working", "filled", "cancelled"}, filled : 0 .. Qty]]
    /\ order_row \in [Candidates -> RowStates]
    /\ \A o \in Candidates : order_row[o].status = "filled" => order_row[o].filled = Qty
    /\ owner_lock \in [holder : Owners \union {Missing}, lease : 0 .. OwnerLease]
    /\ \A r \in Owners :
          owner[r] = NoOwnerRun \/ owner[r] \in
               [phase : {"work", "saving", "saved", "failed"}, next : 1 .. Len(Batch) + 1,
                at : Candidates \union {Missing}, seen : RowStates \union {Missing},
                found : [status : {"working", "filled", "cancelled"}, filled : 0 .. Qty]
                          \union {Missing},
                fresh : BOOLEAN, changes : [Candidates -> RowStates \union {Missing}],
                elapsed : 0 .. OwnerRunLimit, stalled : BOOLEAN]

(* What is on record of an order is never taken back: whatever runs         *)
(* overlap, an older reading of the history does not replace a newer one.   *)
RowsGoOn ==
    \A o \in Candidates :
        order_row'[o].filled >= order_row[o].filled /\ (Terminal(o) => order_row'[o] = order_row[o])

KnownIsNotTakenBack == [][RowsGoOn]_owner_vars

(* Whoever selects, reads and saves is the owner: up to its commit a run    *)
(* that was not suspended holds the lock, so that two such runs never work  *)
(* at the same time, and a suspended run does not let others in early.      *)
WorksAsOwner ==
    \A r \in Owners :
        owner[r].phase \in {"work", "saving"} => owner[r].stalled \/ owner_lock.holder = r

(* Runs that overlap because one was suspended wait for each other's rows,  *)
(* but never in a circle: all take the orders from the oldest on.           *)
WaitsFor(r, s) ==
    /\ AtWork(r)
    /\ \E o \in Locks(s) :
          IF r = Task THEN owner[r].at = Missing /\ o = Candidate(r)
          ELSE owner[r].found # Missing /\ o = owner[r].at

NoRowCycle == \A r, s \in Owners : WaitsFor(r, s) => ~WaitsFor(s, r)

(* Owners work alone, and where a stalled one goes on, runs do not block.   *)
OwnersWorkAlone == OwnerTypeOK /\ WorksAsOwner /\ NoRowCycle
=============================================================================
