-------------------------- MODULE OrderSubmission --------------------------
(***************************************************************************)
(* Sending one order to the broker at most once, and finding out what      *)
(* became of it (app/execution/engine.py).                                 *)
(*                                                                         *)
(* Sessions run submit_order: each holds its own copy of one order row,    *)
(* commits the dispatch (status submission_unknown, an attempt row) before *)
(* it sends anything, and records the outcome later, under the row's lock  *)
(* and its version check.  Clerks run the reconciler's part: one order at  *)
(* a time, the row locked for as long as the broker is being read.  The    *)
(* broker is external: it takes or refuses a request that may still be on  *)
(* its way after the session has stopped waiting, and fills, cancels or    *)
(* rejects what it took.  Processes stop at any point and lose what they   *)
(* had not committed.                                                      *)
(***************************************************************************)
EXTENDS OrderStates, Naturals, FiniteSets

CONSTANTS
  Orders,       \* rows of the orders table, one account and venue
  Sessions,     \* runs of submit_order
  Clerks,       \* runs that lock one row and read the broker
  BrokerIds,    \* the order ids the broker may give out
  Outside,      \* whoever places orders at the broker without this program
  None,
  DryRun,       \* orders simulated here
  Buys,         \* buy orders; the rest are sells
  LookAlikes,   \* orders whose broker records the history search cannot tell apart
  Qty           \* the ordered quantity

ASSUME NamesAreApart ==
  /\ Outside \notin Orders
  /\ None \notin Orders \cup Clerks \cup BrokerIds \cup {Outside}

ASSUME SubsetsAreSubsets ==
  /\ DryRun \subseteq Orders
  /\ Buys \subseteq Orders
  /\ LookAlikes \subseteq Orders \cup {Outside}

ASSUME QtyPositive == Qty \in Nat \ {0}

VARIABLES
  status, brokerId, filled,       \* orders
  attempt, evidenceId,            \* order_submission_attempts: outcome and the id it names
  alarms, conflict,               \* risk_events: submission_unknown, submission_identity_conflict
  aged,                           \* the dispatch is older than UNKNOWN_SUBMISSION_MIN_AGE
  rowLock,                        \* the clerk that holds the row, or None
  pc, holds, fresh,               \* session: where it is, its order, its copy is current
  answer, ackId,                  \* session: what the broker answered and the id it named
  phase, seen,                    \* clerk: where it is, the history records it looks at
  sent, wire,                     \* transmissions of the order, and its request on the way
  book                            \* the broker's orders by id

rowVars     == <<status, brokerId, filled, attempt, evidenceId, alarms, conflict>>
sessionVars == <<pc, holds, fresh, answer, ackId>>
clerkVars   == <<rowLock, phase, seen>>
netVars     == <<sent, wire, book>>
vars        == <<rowVars, aged, sessionVars, clerkVars, netVars>>

-----------------------------------------------------------------------------
Ended   == {"filled", "cancelled", "rejected"}
Trusted == Ended \cup {"accepted"}
Answers == Trusted \cup {"none", "not_transmitted", "refused", "ambiguous", "named", "contradicts"}
Outcomes == {"accepted", "rejected", "not_transmitted", "ambiguous"}
SessionSteps == {"idle", "loaded", "committed", "sent", "answered", "retry"}

BrokerOrder == [owner: Orders \cup {Outside, None},
                state: {"free", "working"} \cup Ended,
                fill: 0..Qty]
Record == [id: BrokerIds, state: {"working"} \cup Ended, fill: 0..Qty]

TypeOK ==
  /\ status \in [Orders -> KNOWN_ORDER_STATUSES]
  /\ brokerId \in [Orders -> BrokerIds \cup {None}]
  /\ filled \in [Orders -> 0..Qty]
  /\ attempt \in [Orders -> {"none", "open"} \cup Outcomes]
  /\ evidenceId \in [Orders -> BrokerIds \cup {None}]
  /\ alarms \in [Orders -> Nat]
  /\ conflict \in [Orders -> BOOLEAN]
  /\ aged \in [Orders -> BOOLEAN]
  /\ rowLock \in [Orders -> Clerks \cup {None}]
  /\ pc \in [Sessions -> SessionSteps]
  /\ holds \in [Sessions -> Orders \cup {None}]
  /\ fresh \in [Sessions -> BOOLEAN]
  /\ answer \in [Sessions -> Answers]
  /\ ackId \in [Sessions -> BrokerIds \cup {None}]
  /\ phase \in [Clerks -> {"idle", "reading", "read", "linked"}]
  /\ seen \in [Clerks -> SUBSET Record]
  /\ sent \in [Orders -> Nat]
  /\ wire \in [Orders -> {"none", "flying", "taken", "refused", "lost"}]
  /\ book \in [BrokerIds -> BrokerOrder]

Init ==
  /\ status = [o \in Orders |-> "pending_intent"]
  /\ brokerId = [o \in Orders |-> None]
  /\ filled = [o \in Orders |-> 0]
  /\ attempt = [o \in Orders |-> "none"]
  /\ evidenceId = [o \in Orders |-> None]
  /\ alarms = [o \in Orders |-> 0]
  /\ conflict = [o \in Orders |-> FALSE]
  /\ aged = [o \in Orders |-> FALSE]
  /\ rowLock = [o \in Orders |-> None]
  /\ pc = [s \in Sessions |-> "idle"]
  /\ holds = [s \in Sessions |-> None]
  /\ fresh = [s \in Sessions |-> FALSE]
  /\ answer = [s \in Sessions |-> "none"]
  /\ ackId = [s \in Sessions |-> None]
  /\ phase = [c \in Clerks |-> "idle"]
  /\ seen = [c \in Clerks |-> {}]
  /\ sent = [o \in Orders |-> 0]
  /\ wire = [o \in Orders |-> "none"]
  /\ book = [b \in BrokerIds |-> [owner |-> None, state |-> "free", fill |-> 0]]

-----------------------------------------------------------------------------
(* Row locks and row versions. *)

Unlocked(o) == rowLock[o] = None

\* Every UPDATE of a row bumps its version: all other copies of it are stale.
OthersStale(o) == [s \in Sessions |-> fresh[s] /\ holds[s] # o]

\* The version check lets this session's UPDATE of its row through.
MayWrite(s) == Unlocked(holds[s]) /\ fresh[s]

\* The run of submit_order is over, and what it held in memory is gone.
Finish(s) ==
  /\ pc' = [pc EXCEPT ![s] = "idle"]
  /\ holds' = [holds EXCEPT ![s] = None]
  /\ answer' = [answer EXCEPT ![s] = "none"]
  /\ ackId' = [ackId EXCEPT ![s] = None]

Forget(s) == fresh' = [fresh EXCEPT ![s] = FALSE]

-----------------------------------------------------------------------------
(* submit_order up to the point where something is sent. *)

\* A session reads a row that is still an intent.  Others may read it as well.
Load(s, o) ==
  /\ pc[s] = "idle"
  /\ status[o] = "pending_intent"
  /\ pc' = [pc EXCEPT ![s] = "loaded"]
  /\ holds' = [holds EXCEPT ![s] = o]
  /\ fresh' = [fresh EXCEPT ![s] = TRUE]
  /\ UNCHANGED <<rowVars, aged, clerkVars, netVars, answer, ackId>>

\* The safety policy refuses: a real buy is closed, anything else is left an intent.
BlockedByPolicy(s) ==
  LET o == holds[s]
      closes == o \in Buys /\ o \notin DryRun IN
  /\ pc[s] = "loaded"
  /\ closes => MayWrite(s)
  /\ status' = IF closes THEN [status EXCEPT ![o] = "rejected"] ELSE status
  /\ fresh' = IF closes THEN OthersStale(o) ELSE [fresh EXCEPT ![s] = FALSE]
  /\ Finish(s)
  /\ UNCHANGED <<brokerId, filled, attempt, evidenceId, alarms, conflict, aged,
                 clerkVars, netVars>>

\* submitted and filled are staged in one transaction; nobody sees the former.
SimulateFill(s) ==
  LET o == holds[s] IN
  /\ pc[s] = "loaded"
  /\ o \in DryRun
  /\ MayWrite(s)
  /\ status' = [status EXCEPT ![o] = "filled"]
  /\ filled' = [filled EXCEPT ![o] = Qty]
  /\ fresh' = OthersStale(o)
  /\ Finish(s)
  /\ UNCHANGED <<brokerId, attempt, evidenceId, alarms, conflict, aged,
                 clerkVars, netVars>>

\* The request cannot be built from the row (_record_failed_before_dispatch).
CannotPrepare(s) ==
  LET o == holds[s] IN
  /\ pc[s] = "loaded"
  /\ o \notin DryRun
  /\ MayWrite(s)
  /\ status' = [status EXCEPT ![o] = "error"]
  /\ fresh' = OthersStale(o)
  /\ Finish(s)
  /\ UNCHANGED <<brokerId, filled, attempt, evidenceId, alarms, conflict, aged,
                 clerkVars, netVars>>

\* The durability boundary.  order_id is unique among the attempts.
CommitDispatch(s) ==
  LET o == holds[s] IN
  /\ pc[s] = "loaded"
  /\ o \notin DryRun
  /\ MayWrite(s)
  /\ attempt[o] = "none"
  /\ status' = [status EXCEPT ![o] = "submission_unknown"]
  /\ attempt' = [attempt EXCEPT ![o] = "open"]
  /\ fresh' = [OthersStale(o) EXCEPT ![s] = TRUE]
  /\ pc' = [pc EXCEPT ![s] = "committed"]
  /\ UNCHANGED <<brokerId, filled, evidenceId, alarms, conflict, aged,
                 clerkVars, netVars, holds, answer, ackId>>

\* A write the version check refuses raises out of submit_order.  (A trusted
\* acknowledgement is caught instead: see AcknowledgementNotSaved.)
StaleWrite(s) ==
  /\ \/ pc[s] = "loaded"
     \/ /\ pc[s] \in {"answered", "retry"}
        /\ status[holds[s]] = "submission_unknown"
        /\ answer[s] \notin Trusted
  /\ Unlocked(holds[s])
  /\ ~fresh[s]
  /\ Finish(s)
  /\ Forget(s)
  /\ UNCHANGED <<rowVars, aged, clerkVars, netVars>>

\* The process dies: its memory and its open transaction are gone.
SessionDies(s) ==
  /\ pc[s] # "idle"
  /\ Finish(s)
  /\ Forget(s)
  /\ UNCHANGED <<rowVars, aged, clerkVars, netVars>>

-----------------------------------------------------------------------------
(* The request on its way.  The adapter may wait for the broker's rate      *)
(* limit before it sends, and for up to its own timeouts afterwards.        *)

\* Refused by the adapter or by the last-mile authorization, or no connection.
NotTransmitted(s) ==
  /\ pc[s] = "committed"
  /\ answer' = [answer EXCEPT ![s] = "not_transmitted"]
  /\ pc' = [pc EXCEPT ![s] = "answered"]
  /\ UNCHANGED <<rowVars, aged, clerkVars, netVars, holds, fresh, ackId>>

\* Mutant: the request goes out before its dispatch is committed.
TransmitEarly(s) ==
  LET o == holds[s] IN
  /\ pc[s] \in {"loaded", "committed"}
  /\ sent' = [sent EXCEPT ![o] = @ + 1]
  /\ wire' = [wire EXCEPT ![o] = "flying"]
  /\ pc' = [pc EXCEPT ![s] = "sent"]
  /\ UNCHANGED <<rowVars, aged, clerkVars, book, holds, fresh, answer, ackId>>

Transmit(s) ==
  LET o == holds[s] IN
  /\ pc[s] = "committed"
  /\ sent' = [sent EXCEPT ![o] = @ + 1]
  /\ wire' = [wire EXCEPT ![o] = "flying"]
  /\ pc' = [pc EXCEPT ![s] = "sent"]
  /\ UNCHANGED <<rowVars, aged, clerkVars, book, holds, fresh, answer, ackId>>

\* No usable answer: a timeout, a status that is no refusal, a body without an id.
AnswerUnusable(s) ==
  /\ pc[s] = "sent"
  /\ answer' = [answer EXCEPT ![s] = "ambiguous"]
  /\ pc' = [pc EXCEPT ![s] = "answered"]
  /\ UNCHANGED <<rowVars, aged, clerkVars, netVars, holds, fresh, ackId>>

ReceiveRefusal(s) ==
  /\ pc[s] = "sent"
  /\ wire[holds[s]] = "refused"
  /\ answer' = [answer EXCEPT ![s] = "refused"]
  /\ pc' = [pc EXCEPT ![s] = "answered"]
  /\ UNCHANGED <<rowVars, aged, clerkVars, netVars, holds, fresh, ackId>>

\* What interpret_acknowledgement makes of an answer that states the truth.
InterpretAcknowledgement(entry) ==
  CASE entry.state = "working"                 -> "accepted"
    [] entry.state = "filled"                  -> "filled"
    [] entry.state \in {"cancelled", "rejected"} ->
         IF entry.fill = 0 THEN entry.state ELSE "named"
    [] OTHER                                   -> "ambiguous"

\* The broker's answer, or one that cannot be interpreted but names the order.
ReceiveAcknowledgement(s, b) ==
  /\ pc[s] = "sent"
  /\ wire[holds[s]] = "taken"
  /\ book[b].owner = holds[s]
  /\ \E a \in {InterpretAcknowledgement(book[b]), "named"} :
       answer' = [answer EXCEPT ![s] = a]
  /\ ackId' = [ackId EXCEPT ![s] = b]
  /\ pc' = [pc EXCEPT ![s] = "answered"]
  /\ UNCHANGED <<rowVars, aged, clerkVars, netVars, holds, fresh>>

\* The answer says it is about another order (require_same_order): its id is
\* evidence under another name, and never this order's identity.
ReceiveContradiction(s) ==
  /\ pc[s] = "sent"
  /\ wire[holds[s]] = "taken"
  /\ answer' = [answer EXCEPT ![s] = "contradicts"]
  /\ pc' = [pc EXCEPT ![s] = "answered"]
  /\ UNCHANGED <<rowVars, aged, clerkVars, netVars, holds, fresh, ackId>>

-----------------------------------------------------------------------------
(* Recording the outcome: one transaction under the row's lock. *)

\* Mutant: no answer is taken for proof that nothing was sent.
OutcomeOfSilence(a) ==
  CASE a \in {"accepted", "filled", "cancelled"} -> "accepted"
    [] a \in {"rejected", "refused"}             -> "rejected"
    [] OTHER                                     -> "not_transmitted"

\* The outcome an answer closes the attempt with.
OutcomeOf(a) ==
  CASE a \in {"accepted", "filled", "cancelled"} -> "accepted"
    [] a \in {"rejected", "refused"}             -> "rejected"
    [] a = "not_transmitted"                     -> "not_transmitted"
    [] OTHER                                     -> "ambiguous"

CloseAttempt(s) ==
  LET o == holds[s] IN
  /\ attempt[o] = "open"
  /\ attempt' = [attempt EXCEPT ![o] = OutcomeOf(answer[s])]
  /\ evidenceId' = [evidenceId EXCEPT ![o] = ackId[s]]

AboutToRecord(s) ==
  /\ pc[s] \in {"answered", "retry"}
  /\ Unlocked(holds[s])

\* Mutant: a late answer is kept without comparing the ids.
RecordLateQuietly(s) ==
  LET o == holds[s] IN
  /\ AboutToRecord(s)
  /\ status[o] # "submission_unknown"
  /\ CloseAttempt(s)
  /\ Finish(s)
  /\ Forget(s)
  /\ UNCHANGED <<status, brokerId, filled, alarms, conflict, aged, clerkVars, netVars>>

\* _resolved_elsewhere: reconciliation came first, the answer is evidence only.
RecordLate(s) ==
  LET o == holds[s] IN
  /\ AboutToRecord(s)
  /\ status[o] # "submission_unknown"
  /\ CloseAttempt(s)
  /\ conflict' = [conflict EXCEPT ![o] =
       @ \/ (ackId[s] # None /\ brokerId[o] # None /\ ackId[s] # brokerId[o])]
  /\ Finish(s)
  /\ Forget(s)
  /\ UNCHANGED <<status, brokerId, filled, alarms, aged, clerkVars, netVars>>

StillUnknown(s) ==
  /\ AboutToRecord(s)
  /\ status[holds[s]] = "submission_unknown"

\* _record_not_transmitted and _record_broker_refusal: no order was created.
RecordNoOrder(s) ==
  LET o == holds[s] IN
  /\ StillUnknown(s)
  /\ answer[s] \in {"not_transmitted", "refused"}
  /\ fresh[s]
  /\ CloseAttempt(s)
  /\ status' = [status EXCEPT ![o] =
       IF answer[s] = "refused" THEN "rejected" ELSE "error"]
  /\ fresh' = OthersStale(o)
  /\ Finish(s)
  /\ UNCHANGED <<brokerId, filled, alarms, conflict, aged, clerkVars, netVars>>

\* Mutant: an unknown outcome closes the order as failed.
RecordUnknownAsError(s) ==
  LET o == holds[s] IN
  /\ StillUnknown(s)
  /\ answer[s] \in {"ambiguous", "named", "contradicts"}
  /\ fresh[s]
  /\ CloseAttempt(s)
  /\ status' = [status EXCEPT ![o] = "error"]
  /\ fresh' = OthersStale(o)
  /\ Finish(s)
  /\ UNCHANGED <<brokerId, filled, alarms, conflict, aged, clerkVars, netVars>>

\* _record_unknown_outcome: the order stays unknown, with the id if one was named.
RecordUnknownOutcome(s) ==
  LET o == holds[s] IN
  /\ StillUnknown(s)
  /\ answer[s] \in {"ambiguous", "named", "contradicts"}
  /\ fresh[s]
  /\ CloseAttempt(s)
  /\ brokerId' = [brokerId EXCEPT ![o] = IF ackId[s] # None THEN ackId[s] ELSE @]
  /\ alarms' = [alarms EXCEPT ![o] = @ + 1]
  /\ fresh' = OthersStale(o)
  /\ Finish(s)
  /\ UNCHANGED <<status, filled, conflict, aged, clerkVars, netVars>>

\* _save_acknowledgement: all of a trusted answer, or nothing.
RecordAcknowledgement(s) ==
  LET o == holds[s] IN
  /\ StillUnknown(s)
  /\ answer[s] \in Trusted
  /\ fresh[s]
  /\ CloseAttempt(s)
  /\ brokerId' = [brokerId EXCEPT ![o] = ackId[s]]
  /\ status' = [status EXCEPT ![o] = answer[s]]
  /\ filled' = [filled EXCEPT ![o] = IF answer[s] = "filled" THEN Qty ELSE @]
  /\ fresh' = OthersStale(o)
  /\ Finish(s)
  /\ UNCHANGED <<alarms, conflict, aged, clerkVars, netVars>>

\* A trusted answer that could not be saved, because the copy is stale or for a
\* reason of its own, is rolled back, re-read and recorded as unknown with its id.
AcknowledgementNotSaved(s) ==
  /\ StillUnknown(s)
  /\ answer[s] \in Trusted
  /\ answer' = [answer EXCEPT ![s] = "named"]
  /\ fresh' = [fresh EXCEPT ![s] = TRUE]
  /\ pc' = [pc EXCEPT ![s] = "retry"]
  /\ UNCHANGED <<rowVars, aged, clerkVars, netVars, holds, ackId>>

-----------------------------------------------------------------------------
(* Other hands on the row. *)

\* Time passes: the dispatch is old enough for its order to be looked up.
GrowOld(o) ==
  /\ attempt[o] # "none"
  /\ ~aged[o]
  /\ aged' = [aged EXCEPT ![o] = TRUE]
  /\ UNCHANGED <<rowVars, sessionVars, clerkVars, netVars>>

\* Mutant: an unknown order without an id is cancelled here as well.
CancelUnknownLocally(o) ==
  /\ Unlocked(o)
  /\ status[o] # "cancelled"
  /\ can_transition_order_status(status[o], "cancelled")
  /\ brokerId[o] = None
  /\ status' = [status EXCEPT ![o] = "cancelled"]
  /\ fresh' = OthersStale(o)
  /\ UNCHANGED <<brokerId, filled, attempt, evidenceId, alarms, conflict, aged,
                 pc, holds, answer, ackId, clerkVars, netVars>>

\* request_cancel of an order that never reached a broker (_cancel_locally).
CancelLocally(o) ==
  /\ Unlocked(o)
  /\ status[o] # "submission_unknown"
  /\ status[o] # "cancelled"
  /\ can_transition_order_status(status[o], "cancelled")
  /\ brokerId[o] = None
  /\ status' = [status EXCEPT ![o] = "cancelled"]
  /\ fresh' = OthersStale(o)
  /\ UNCHANGED <<brokerId, filled, attempt, evidenceId, alarms, conflict, aged,
                 pc, holds, answer, ackId, clerkVars, netVars>>

-----------------------------------------------------------------------------
(* reconcile_unknown_submission: an order without an id is looked for in     *)
(* the broker's history.  The row stays locked from LookUp to Conclude; the  *)
(* two queries in between are separate statements and see what other         *)
(* transactions have committed by then.                                      *)

\* Mutant: only a dispatch whose session has recorded an outcome is looked up.
LookUpClosed(c, o) ==
  /\ phase[c] = "idle"
  /\ Unlocked(o)
  /\ o \notin DryRun
  /\ status[o] = "submission_unknown"
  /\ brokerId[o] = None
  /\ attempt[o] \in Outcomes
  /\ rowLock' = [rowLock EXCEPT ![o] = c]
  /\ phase' = [phase EXCEPT ![c] = "reading"]
  /\ UNCHANGED <<rowVars, aged, sessionVars, netVars, seen>>

LookUp(c, o) ==
  /\ phase[c] = "idle"
  /\ Unlocked(o)
  /\ o \notin DryRun
  /\ status[o] = "submission_unknown"
  /\ brokerId[o] = None
  /\ aged[o]
  /\ rowLock' = [rowLock EXCEPT ![o] = c]
  /\ phase' = [phase EXCEPT ![c] = "reading"]
  /\ UNCHANGED <<rowVars, aged, sessionVars, netVars, seen>>

\* Every field the record states agrees with what was sent for o.
MatchesUnknownSubmission(o, b) ==
  \/ book[b].owner = o
  \/ /\ o \in LookAlikes
     /\ book[b].owner \in LookAlikes

\* One page that covers the window: every ended order, perhaps working ones too.
ReadHistory(c, o) ==
  /\ phase[c] = "reading"
  /\ rowLock[o] = c
  /\ \E listed \in {Ended, Ended \cup {"working"}} :
       seen' = [seen EXCEPT ![c] =
         {[id |-> b, state |-> book[b].state, fill |-> book[b].fill] :
            b \in {x \in BrokerIds : /\ book[x].state \in listed
                                     /\ MatchesUnknownSubmission(o, x)}}]
  /\ phase' = [phase EXCEPT ![c] = "read"]
  /\ UNCHANGED <<rowVars, aged, sessionVars, netVars, rowLock>>

\* The read failed, or a full page did not reach back past the window.
HistoryUnusable(c, o) ==
  /\ phase[c] = "reading"
  /\ rowLock[o] = c
  /\ seen' = [seen EXCEPT ![c] = {}]
  /\ phase' = [phase EXCEPT ![c] = "read"]
  /\ UNCHANGED <<rowVars, aged, sessionVars, netVars, rowLock>>

DropLinked(c, o) ==
  LET linked == {brokerId[p] : p \in Orders \ {o}} IN
  /\ phase[c] = "read"
  /\ rowLock[o] = c
  /\ seen' = [seen EXCEPT ![c] = {r \in @ : r.id \notin linked}]
  /\ phase' = [phase EXCEPT ![c] = "linked"]
  /\ UNCHANGED <<rowVars, aged, sessionVars, netVars, rowLock>>

\* Mutant: who else might own the record is not asked.
FitsNobodyElse(o, r) == FALSE

FitsAnotherUnknownSubmission(o, r) ==
  \E p \in Orders \ {o} :
    /\ status[p] = "submission_unknown"
    /\ brokerId[p] = None
    /\ MatchesUnknownSubmission(p, r.id)

\* The record the order may claim, when there is exactly one.
Claimable(c, o) == {r \in seen[c] : seen[c] = {r} /\ ~FitsAnotherUnknownSubmission(o, r)}

\* Mutant: a run that finds nothing says nothing.
ReleaseSilently(c, o) ==
  /\ phase[c] = "linked"
  /\ rowLock[o] = c
  /\ fresh' = OthersStale(o)
  /\ rowLock' = [rowLock EXCEPT ![o] = None]
  /\ phase' = [phase EXCEPT ![c] = "idle"]
  /\ seen' = [seen EXCEPT ![c] = {}]
  /\ UNCHANGED <<attempt, evidenceId, alarms, conflict, aged, pc, holds, answer, ackId, netVars>>

\* The commit that lets the row go, with the alarm nobody had raised yet.
Release(c, o) ==
  /\ phase[c] = "linked"
  /\ rowLock[o] = c
  /\ alarms' = [alarms EXCEPT ![o] = IF @ = 0 THEN 1 ELSE @]
  /\ fresh' = OthersStale(o)
  /\ rowLock' = [rowLock EXCEPT ![o] = None]
  /\ phase' = [phase EXCEPT ![c] = "idle"]
  /\ seen' = [seen EXCEPT ![c] = {}]
  /\ UNCHANGED <<attempt, evidenceId, conflict, aged, pc, holds, answer, ackId, netVars>>

\* None or several, or one that on a full reading is about another order.
LeaveUnresolved(c, o) ==
  /\ Release(c, o)
  /\ UNCHANGED <<status, brokerId, filled>>

\* The identity is adopted; the record does not state enough to settle the order.
Identify(c, o) ==
  /\ Release(c, o)
  /\ \E r \in Claimable(c, o) : brokerId' = [brokerId EXCEPT ![o] = r.id]
  /\ UNCHANGED <<status, filled>>

Settle(c, o) ==
  /\ Release(c, o)
  /\ \E r \in Claimable(c, o) :
       /\ brokerId' = [brokerId EXCEPT ![o] = r.id]
       /\ status' = [status EXCEPT ![o] = IF r.state = "working" THEN "accepted" ELSE r.state]
       /\ filled' = [filled EXCEPT ![o] =
            CASE r.state = "filled" -> Qty
              [] r.fill > 0         -> r.fill
              [] OTHER              -> @]

\* Anything that ends the transaction before its commit undoes all of it.
ClerkFails(c, o) ==
  /\ rowLock[o] = c
  /\ rowLock' = [rowLock EXCEPT ![o] = None]
  /\ phase' = [phase EXCEPT ![c] = "idle"]
  /\ seen' = [seen EXCEPT ![c] = {}]
  /\ UNCHANGED <<rowVars, aged, sessionVars, netVars>>

-----------------------------------------------------------------------------
(* reconcile_order: an order with an id is read by that id.  The row is      *)
(* locked throughout and what the broker calls final stays final, so one     *)
(* step stands for the reads and the commit.                                 *)

ReadById(o) ==
  /\ Unlocked(o)
  /\ o \notin DryRun
  /\ status[o] \in ACTIVE_ORDER_STATUSES
  /\ brokerId[o] # None
  /\ fresh' = OthersStale(o)
  /\ UNCHANGED <<brokerId, attempt, evidenceId, alarms, conflict, aged,
                 pc, holds, answer, ackId, clerkVars, netVars>>

\* No answer, no record, or one that cannot be relied on: only the turn is noted.
ReadRefused(o) ==
  /\ ReadById(o)
  /\ UNCHANGED <<status, filled>>

\* _record_still_open
RecordStillOpen(o) ==
  /\ ReadById(o)
  /\ book[brokerId[o]].state = "working"
  /\ status' = [status EXCEPT ![o] = IF @ = "submission_unknown" THEN "accepted" ELSE @]
  /\ UNCHANGED filled

\* _record_final_state: what is already known to have filled is never lowered.
RecordFinalState(o) ==
  LET entry == book[brokerId[o]] IN
  /\ ReadById(o)
  /\ entry.state \in Ended
  /\ can_transition_order_status(status[o], entry.state)
  /\ status' = [status EXCEPT ![o] = entry.state]
  /\ filled' = [filled EXCEPT ![o] =
       CASE entry.state = "filled" -> Qty
         [] entry.fill < @         -> @
         [] OTHER                  -> entry.fill]

-----------------------------------------------------------------------------
(* The broker and the network between (external). *)

BrokerTakes(o, b) ==
  /\ wire[o] = "flying"
  /\ book[b].state = "free"
  /\ wire' = [wire EXCEPT ![o] = "taken"]
  /\ book' = [book EXCEPT ![b] = [owner |-> o, state |-> "working", fill |-> 0]]
  /\ UNCHANGED <<rowVars, aged, sessionVars, clerkVars, sent>>

BrokerRefuses(o) ==
  /\ wire[o] = "flying"
  /\ wire' = [wire EXCEPT ![o] = "refused"]
  /\ UNCHANGED <<rowVars, aged, sessionVars, clerkVars, sent, book>>

RequestLost(o) ==
  /\ wire[o] = "flying"
  /\ wire' = [wire EXCEPT ![o] = "lost"]
  /\ UNCHANGED <<rowVars, aged, sessionVars, clerkVars, sent, book>>

BrokerFills(b) ==
  /\ book[b].state = "working"
  /\ book' = [book EXCEPT ![b] =
       [owner |-> @.owner,
        state |-> IF @.fill + 1 = Qty THEN "filled" ELSE "working",
        fill  |-> @.fill + 1]]
  /\ UNCHANGED <<rowVars, aged, sessionVars, clerkVars, sent, wire>>

\* Cancelled at the broker, whoever asked for it, or rejected after it was taken.
BrokerEnds(b) ==
  /\ book[b].state = "working"
  /\ \E end \in {"cancelled", "rejected"} : book' = [book EXCEPT ![b].state = end]
  /\ UNCHANGED <<rowVars, aged, sessionVars, clerkVars, sent, wire>>

\* The account's owner places a matching order in the broker's own application.
OrderFromOutside(b) ==
  /\ Outside \in LookAlikes
  /\ book[b].state = "free"
  /\ book' = [book EXCEPT ![b] = [owner |-> Outside, state |-> "working", fill |-> 0]]
  /\ UNCHANGED <<rowVars, aged, sessionVars, clerkVars, sent, wire>>

-----------------------------------------------------------------------------
SessionStep(s) ==
  \/ \E o \in Orders : Load(s, o)
  \/ BlockedByPolicy(s) \/ SimulateFill(s) \/ CannotPrepare(s) \/ CommitDispatch(s)
  \/ StaleWrite(s) \/ SessionDies(s)
  \/ NotTransmitted(s) \/ Transmit(s)
  \/ AnswerUnusable(s) \/ ReceiveRefusal(s) \/ ReceiveContradiction(s)
  \/ \E b \in BrokerIds : ReceiveAcknowledgement(s, b)
  \/ RecordLate(s) \/ RecordNoOrder(s) \/ RecordUnknownOutcome(s)
  \/ RecordAcknowledgement(s) \/ AcknowledgementNotSaved(s)

ClerkStep(c, o) ==
  \/ LookUp(c, o) \/ ReadHistory(c, o) \/ HistoryUnusable(c, o) \/ DropLinked(c, o)
  \/ LeaveUnresolved(c, o) \/ Identify(c, o) \/ Settle(c, o) \/ ClerkFails(c, o)

RowStep(o) ==
  \/ GrowOld(o) \/ CancelLocally(o)
  \/ ReadRefused(o) \/ RecordStillOpen(o) \/ RecordFinalState(o)

BrokerStep(b) ==
  \/ \E o \in Orders : BrokerTakes(o, b)
  \/ BrokerFills(b) \/ BrokerEnds(b) \/ OrderFromOutside(b)

NetworkStep(o) == BrokerRefuses(o) \/ RequestLost(o)

Next ==
  \/ \E s \in Sessions : SessionStep(s)
  \/ \E c \in Clerks, o \in Orders : ClerkStep(c, o)
  \/ \E o \in Orders : RowStep(o) \/ NetworkStep(o)
  \/ \E b \in BrokerIds : BrokerStep(b)

Spec == Init /\ [][Next]_vars

-----------------------------------------------------------------------------
(* Safety. *)

\* However many sessions pick up an intent and wherever they stop, its request
\* is transmitted at most once, and never before the row and the attempt say so
\* (submit_order's durability boundary; OrderSubmissionAttempt); and every variable
\* keeps its type.
TransmittedOnceOnRecord ==
  /\ TypeOK
  /\ \A o \in Orders :
       /\ sent[o] <= 1
       /\ sent[o] = 1 => attempt[o] # "none" /\ status[o] # "pending_intent"

\* An order this program calls ended has ended: nothing of it is on its way, nobody
\* is about to send it, and the broker's order, if there is one, has the same status
\* and the same fill (the outcome recorders, reconciliation and local cancellation).
\* Orders the broker's records do not tell apart can be settled from each other's.
FinalStatesAreTrue ==
  \A o \in Orders \ (DryRun \cup LookAlikes) :
    status[o] \in TERMINAL_ORDER_STATUSES =>
      /\ wire[o] # "flying"
      /\ \A s \in Sessions : ~(pc[s] = "committed" /\ holds[s] = o)
      /\ \A b \in BrokerIds : book[b].owner = o =>
           /\ book[b].state = status[o]
           /\ book[b].fill = filled[o]

\* What an attempt's outcome says of the request is what happened to it, also when
\* it was recorded long after reconciliation had settled the order (_close_attempt).
AttemptsAreTrue ==
  \A o \in Orders :
    /\ attempt[o] = "not_transmitted" => sent[o] = 0
    /\ attempt[o] = "accepted" => evidenceId[o] # None
    /\ attempt[o] = "rejected" /\ evidenceId[o] = None => wire[o] = "refused"
    /\ evidenceId[o] # None => book[evidenceId[o]].owner = o

\* What the rows say of an order's end and of its request is what happened.
OutcomesAreTrue == FinalStatesAreTrue /\ AttemptsAreTrue

\* An unknown order that somebody has looked at, or whose answer came and was no
\* help, has raised its critical event (_add_unknown_submission_risk_event).
UnknownIsAlarmed ==
  \A o \in Orders :
    /\ status[o] = "submission_unknown"
    /\ brokerId[o] # None \/ attempt[o] \in Outcomes
    => alarms[o] > 0

\* When the broker's own answer names another order than the one that was adopted,
\* a conflict is on record (_resolved_elsewhere), whatever order the two came in.
ConflictIsOnRecord ==
  \A o \in Orders :
    evidenceId[o] # None /\ brokerId[o] \notin {None, evidenceId[o]} => conflict[o]

\* A broker order adopted for the wrong local order is at least not lost: the order
\* it belongs to is linked to it as well, or has itself been given that of a third one
\* (the two queries before an adoption).
WrongIdentityIsShared ==
  \A o, p \in Orders, b \in BrokerIds :
    brokerId[o] = b /\ book[b].owner = p =>
      \/ brokerId[p] = b
      \/ brokerId[p] # None /\ book[brokerId[p]].owner \notin {o, p}

\* No wrong identity stays unseen: it is a conflict, or two orders are linked in its place.
WrongIdentityShows == ConflictIsOnRecord /\ WrongIdentityIsShared

\* An unknown order becomes known only on evidence: the broker refused it, it was
\* never sent, or a broker order has been identified that is its own, or at worst
\* one of an order the history search cannot tell from it (state_machine.py).
KnownOnEvidence ==
  [][\A o \in Orders :
       status[o] = "submission_unknown" /\ status'[o] # "submission_unknown" =>
         \/ status'[o] = "rejected" /\ wire[o] = "refused"
         \/ status'[o] = "error" /\ sent[o] = 0
         \/ /\ brokerId'[o] # None
            /\ LET owner == book[brokerId'[o]].owner
               IN owner = o \/ {o, owner} \subseteq LookAlikes]_vars

-----------------------------------------------------------------------------
(* Liveness.  The scheduled task keeps running, so orders keep being looked   *)
(* up; processes stop dying in the middle of a transaction; reads of the      *)
(* broker fail, but not for ever; and the broker ends what it has taken.      *)

ReconcilerFairness ==
  /\ \A o \in Orders :
       /\ WF_vars(GrowOld(o))
       /\ SF_vars(RecordFinalState(o))
  /\ \A c \in Clerks, o \in Orders :
       /\ SF_vars(LookUp(c, o))
       /\ SF_vars(ReadHistory(c, o))
       /\ WF_vars(ClerkStep(c, o))
       /\ SF_vars(Settle(c, o) \/ Identify(c, o))
  /\ <>[][\A c \in Clerks, o \in Orders : ~ClerkFails(c, o)]_vars

BrokerFairness ==
  /\ \A o \in Orders : WF_vars(NetworkStep(o) \/ \E b \in BrokerIds : BrokerTakes(o, b))
  /\ \A b \in BrokerIds : WF_vars(BrokerFills(b) \/ BrokerEnds(b))

FairSpec == Spec /\ ReconcilerFairness /\ BrokerFairness

\* A dispatch whose session died, or whose answer said nothing, is never left in
\* silence: it is settled or it raises its critical event.
NoSilentUnknown ==
  \A o \in Orders :
    status[o] = "submission_unknown" ~> (status[o] # "submission_unknown" \/ alarms[o] > 0)

\* An order the broker took is settled here in the end, without the session's help.
TakenOrdersAreSettled ==
  \A o \in Orders :
    (status[o] = "submission_unknown" /\ wire[o] = "taken")
      ~> status[o] \in TERMINAL_ORDER_STATUSES

\* Whatever became of a dispatch, somebody learns of it and it is settled.
DispatchesConclude == NoSilentUnknown /\ TakenOrdersAreSettled
============================================================================
