----------------------- MODULE OrderSubmissionProofs -----------------------
(***************************************************************************)
(* Proofs about OrderSubmission, for any number of orders, sessions,       *)
(* clerks and broker ids.                                                  *)
(***************************************************************************)
EXTENDS OrderSubmission, TLAPS

(* The types are inductive together with two facts the actions rely on. *)
WorkingHasRoom == \A b \in BrokerIds : book[b].state = "working" => book[b].fill < Qty
SessionsHoldOrders == \A s \in Sessions : pc[s] # "idle" => holds[s] \in Orders

TypeInv == TypeOK /\ WorkingHasRoom /\ SessionsHoldOrders

LEMMA Amounts ==
  /\ 0 \in 0..Qty /\ Qty \in 0..Qty /\ 0 < Qty
  /\ \A n \in Nat : n + 1 \in Nat
  BY QtyPositive

LEMMA OneMoreFits ==
  ASSUME NEW n \in 0..Qty, n < Qty
  PROVE  n + 1 \in 0..Qty /\ (n + 1 # Qty => n + 1 < Qty)
  BY QtyPositive

LEMMA TypeInit == Init => TypeInv
  BY Amounts DEF Init, TypeInv, TypeOK, WorkingHasRoom, SessionsHoldOrders, KNOWN_ORDER_STATUSES,
     ACTIVE_ORDER_STATUSES, SessionSteps, Answers, BrokerOrder

LEMMA TypeSession ==
  ASSUME TypeInv, NEW s \in Sessions, SessionStep(s)
  PROVE  TypeInv'
<1> USE DEF TypeInv, TypeOK, WorkingHasRoom, SessionsHoldOrders, rowVars, sessionVars, clerkVars, netVars,
       Finish, Forget, OthersStale, SessionSteps
<1>1. ASSUME NEW o \in Orders, Load(s, o) PROVE TypeInv'
  BY <1>1 DEF Load
<1>2. CASE BlockedByPolicy(s)
  BY <1>2 DEF BlockedByPolicy, Answers, KNOWN_ORDER_STATUSES, TERMINAL_ORDER_STATUSES
<1>3. CASE SimulateFill(s)
  BY <1>3, Amounts DEF SimulateFill, Answers, KNOWN_ORDER_STATUSES, TERMINAL_ORDER_STATUSES
<1>4. CASE CannotPrepare(s)
  BY <1>4 DEF CannotPrepare, Answers, KNOWN_ORDER_STATUSES, TERMINAL_ORDER_STATUSES
<1>5. CASE CommitDispatch(s)
  BY <1>5 DEF CommitDispatch, KNOWN_ORDER_STATUSES, ACTIVE_ORDER_STATUSES
<1>6. CASE StaleWrite(s)
  BY <1>6 DEF StaleWrite, Answers
<1>7. CASE SessionDies(s)
  BY <1>7 DEF SessionDies, Answers
<1>8. CASE NotTransmitted(s)
  BY <1>8 DEF NotTransmitted, Answers
<1>9. CASE Transmit(s)
  BY <1>9, Amounts DEF Transmit
<1>10. CASE AnswerUnusable(s)
  BY <1>10 DEF AnswerUnusable, Answers
<1>11. CASE ReceiveRefusal(s)
  BY <1>11 DEF ReceiveRefusal, Answers
<1>12. CASE ReceiveContradiction(s)
  BY <1>12 DEF ReceiveContradiction, Answers
<1>13. ASSUME NEW b \in BrokerIds, ReceiveAcknowledgement(s, b) PROVE TypeInv'
  BY <1>13 DEF ReceiveAcknowledgement, InterpretAcknowledgement, Answers, Trusted, Ended
<1>14. CASE RecordLate(s)
  BY <1>14 DEF RecordLate, AboutToRecord, CloseAttempt, OutcomeOf, Outcomes, Answers
<1>15. CASE RecordNoOrder(s)
  BY <1>15 DEF RecordNoOrder, StillUnknown, AboutToRecord, CloseAttempt, OutcomeOf, Outcomes,
     Answers, KNOWN_ORDER_STATUSES, TERMINAL_ORDER_STATUSES
<1>16. CASE RecordUnknownOutcome(s)
  BY <1>16, Amounts DEF RecordUnknownOutcome, StillUnknown, AboutToRecord, CloseAttempt, OutcomeOf,
     Outcomes, Answers
<1>17. CASE RecordAcknowledgement(s)
  BY <1>17, Amounts DEF RecordAcknowledgement, StillUnknown, AboutToRecord, CloseAttempt,
     OutcomeOf, Outcomes, Answers, Trusted, Ended, KNOWN_ORDER_STATUSES,
     TERMINAL_ORDER_STATUSES, ACTIVE_ORDER_STATUSES
<1>18. CASE AcknowledgementNotSaved(s)
  BY <1>18 DEF AcknowledgementNotSaved, StillUnknown, AboutToRecord, Answers
<1> QED
  BY <1>1, <1>2, <1>3, <1>4, <1>5, <1>6, <1>7, <1>8, <1>9, <1>10, <1>11, <1>12, <1>13,
     <1>14, <1>15, <1>16, <1>17, <1>18 DEF SessionStep

LEMMA TypeClerk ==
  ASSUME TypeInv, NEW c \in Clerks, NEW o \in Orders, ClerkStep(c, o)
  PROVE  TypeInv'
<1> USE DEF TypeInv, TypeOK, WorkingHasRoom, SessionsHoldOrders, rowVars, sessionVars,
       clerkVars, netVars, OthersStale
<1>1. CASE LookUp(c, o)
  BY <1>1 DEF LookUp
<1>2. CASE ReadHistory(c, o)
  <2>1. \A b \in BrokerIds : book[b].state \in Ended \cup {"working"} =>
          [id |-> b, state |-> book[b].state, fill |-> book[b].fill] \in Record
    BY DEF Record, BrokerOrder
  <2>2. seen' \in [Clerks -> SUBSET Record]
    BY <1>2, <2>1 DEF ReadHistory
  <2> QED
    BY <1>2, <2>2 DEF ReadHistory
<1>3. CASE HistoryUnusable(c, o)
  BY <1>3 DEF HistoryUnusable
<1>4. CASE DropLinked(c, o)
  BY <1>4 DEF DropLinked
<1>5. CASE LeaveUnresolved(c, o)
  BY <1>5, Amounts DEF LeaveUnresolved, Release
<1>6. CASE Identify(c, o)
  BY <1>6, Amounts DEF Identify, Release, Claimable, Record
<1>7. CASE Settle(c, o)
  <2>1. PICK r \in Claimable(c, o) :
          /\ brokerId' = [brokerId EXCEPT ![o] = r.id]
          /\ status' = [status EXCEPT ![o] = IF r.state = "working" THEN "accepted" ELSE r.state]
          /\ filled' = [filled EXCEPT ![o] =
               CASE r.state = "filled" -> Qty
                 [] r.fill > 0         -> r.fill
                 [] OTHER              -> @]
    BY <1>7 DEF Settle
  <2>2. r.id \in BrokerIds /\ r.state \in {"working"} \cup Ended /\ r.fill \in 0..Qty
    BY DEF Claimable, Record
  <2>3. status' \in [Orders -> KNOWN_ORDER_STATUSES]
    BY <2>1, <2>2 DEF Ended, KNOWN_ORDER_STATUSES, TERMINAL_ORDER_STATUSES, ACTIVE_ORDER_STATUSES
  <2>4. filled' \in [Orders -> 0..Qty]
    BY <2>1, <2>2, Amounts
  <2> QED
    BY <1>7, <2>1, <2>2, <2>3, <2>4, Amounts DEF Settle, Release
<1>8. CASE ClerkFails(c, o)
  BY <1>8 DEF ClerkFails
<1> QED
  BY <1>1, <1>2, <1>3, <1>4, <1>5, <1>6, <1>7, <1>8 DEF ClerkStep

LEMMA TypeRow ==
  ASSUME TypeInv, NEW o \in Orders, RowStep(o) \/ NetworkStep(o)
  PROVE  TypeInv'
<1> USE DEF TypeInv, TypeOK, WorkingHasRoom, SessionsHoldOrders, rowVars, sessionVars,
       clerkVars, netVars, OthersStale
<1>1. CASE GrowOld(o)
  BY <1>1 DEF GrowOld
<1>2. CASE CancelLocally(o)
  BY <1>2 DEF CancelLocally, KNOWN_ORDER_STATUSES, TERMINAL_ORDER_STATUSES
<1>3. CASE ReadRefused(o)
  BY <1>3 DEF ReadRefused, ReadById
<1>4. CASE RecordStillOpen(o)
  BY <1>4 DEF RecordStillOpen, ReadById, KNOWN_ORDER_STATUSES, ACTIVE_ORDER_STATUSES
<1>5. CASE RecordFinalState(o)
  <2>1. brokerId[o] \in BrokerIds
    BY <1>5 DEF RecordFinalState, ReadById
  <2>2. /\ book[brokerId[o]].state \in Ended => book[brokerId[o]].state \in KNOWN_ORDER_STATUSES
        /\ book[brokerId[o]].fill \in 0..Qty
    BY <2>1 DEF BrokerOrder, Ended, KNOWN_ORDER_STATUSES, TERMINAL_ORDER_STATUSES
  <2> QED
    BY <1>5, <2>1, <2>2, Amounts DEF RecordFinalState, ReadById
<1>6. CASE BrokerRefuses(o)
  BY <1>6 DEF BrokerRefuses
<1>7. CASE RequestLost(o)
  BY <1>7 DEF RequestLost
<1> QED
  BY <1>1, <1>2, <1>3, <1>4, <1>5, <1>6, <1>7 DEF RowStep, NetworkStep

LEMMA TypeBroker ==
  ASSUME TypeInv, NEW b \in BrokerIds, BrokerStep(b)
  PROVE  TypeInv'
<1> USE DEF TypeInv, TypeOK, WorkingHasRoom, SessionsHoldOrders, rowVars, sessionVars,
       clerkVars, netVars, BrokerOrder, Ended
<1>1. ASSUME NEW o \in Orders, BrokerTakes(o, b) PROVE TypeInv'
  BY <1>1, Amounts DEF BrokerTakes
<1>2. CASE BrokerFills(b)
  <2>1. book[b].fill \in 0..Qty /\ book[b].fill < Qty
    BY <1>2 DEF BrokerFills
  <2>2. book[b].fill + 1 \in 0..Qty /\ (book[b].fill + 1 # Qty => book[b].fill + 1 < Qty)
    BY <2>1, OneMoreFits
  <2>3. book' \in [BrokerIds -> BrokerOrder]
    BY <1>2, <2>2 DEF BrokerFills
  <2>4. WorkingHasRoom'
    BY <1>2, <2>2 DEF BrokerFills
  <2> QED
    BY <1>2, <2>3, <2>4 DEF BrokerFills
<1>3. CASE BrokerEnds(b)
  BY <1>3 DEF BrokerEnds
<1>4. CASE OrderFromOutside(b)
  BY <1>4, Amounts DEF OrderFromOutside
<1> QED
  BY <1>1, <1>2, <1>3, <1>4 DEF BrokerStep

LEMMA TypeStep == TypeInv /\ [Next]_vars => TypeInv'
<1> SUFFICES ASSUME TypeInv, [Next]_vars PROVE TypeInv'
  OBVIOUS
<1>1. CASE Next
  BY <1>1, TypeSession, TypeClerk, TypeRow, TypeBroker DEF Next
<1>2. CASE UNCHANGED vars
  BY <1>2 DEF vars, rowVars, sessionVars, clerkVars, netVars, TypeInv, TypeOK,
     WorkingHasRoom, SessionsHoldOrders
<1> QED
  BY <1>1, <1>2

\* Every variable keeps its type, a working order at the broker is not full, and a
\* session that has begun holds an order of the table.
THEOREM TypesAreKept == Spec => []TypeInv
  BY TypeInit, TypeStep, PTL DEF Spec

\* Every variable of submission and reconciliation keeps its type.
THEOREM TypeCorrect == Spec => []TypeOK
  BY TypesAreKept, PTL DEF TypeInv

-----------------------------------------------------------------------------
(***************************************************************************)
(* At most one transmission.  TransmittedOnceOnRecord is not inductive: a  *)
(* session that has committed its dispatch and not yet sent is what a      *)
(* second transmission would come from.  The invariant says that there is  *)
(* at most one such session for an order, that nothing has been sent for   *)
(* it before, and that an order without an attempt has none.               *)
(***************************************************************************)
IntentHasNoAttempt == \A o \in Orders : status[o] = "pending_intent" => attempt[o] = "none"

CommittedNotSent ==
  \A s \in Sessions : pc[s] = "committed" =>
    /\ attempt[holds[s]] # "none"
    /\ sent[holds[s]] = 0

OneCommitted ==
  \A s, t \in Sessions :
    pc[s] = "committed" /\ pc[t] = "committed" /\ holds[s] = holds[t] => s = t

SentOnRecord == \A o \in Orders : sent[o] <= 1 /\ (sent[o] # 0 => attempt[o] # "none")

OnceInv == TypeInv /\ IntentHasNoAttempt /\ CommittedNotSent /\ OneCommitted /\ SentOnRecord

LEMMA OnceInit == Init => OnceInv
  BY TypeInit DEF Init, OnceInv, IntentHasNoAttempt, CommittedNotSent, OneCommitted, SentOnRecord

\* A run that ends, having sent nothing and reopened no intent, disturbs none of it.
LEMMA OnceFinish ==
  ASSUME OnceInv, TypeInv', NEW s \in Sessions,
         pc' = [pc EXCEPT ![s] = "idle"],
         holds' = [holds EXCEPT ![s] = None],
         sent' = sent,
         \A o \in Orders : attempt'[o] = "none" <=> attempt[o] = "none",
         \A o \in Orders : status'[o] = "pending_intent" => status[o] = "pending_intent"
  PROVE  OnceInv'
  BY DEF OnceInv, IntentHasNoAttempt, CommittedNotSent, OneCommitted, SentOnRecord,
     TypeInv, TypeOK, SessionsHoldOrders

LEMMA OnceSession ==
  ASSUME OnceInv, TypeInv', NEW s \in Sessions, SessionStep(s)
  PROVE  OnceInv'
<1> USE DEF OnceInv, IntentHasNoAttempt, CommittedNotSent, OneCommitted, SentOnRecord,
       TypeInv, TypeOK, SessionsHoldOrders, rowVars, netVars, Finish
<1>1. ASSUME NEW o \in Orders, Load(s, o) PROVE OnceInv'
  BY <1>1 DEF Load
<1>2. CASE BlockedByPolicy(s) \/ SimulateFill(s) \/ CannotPrepare(s)
  <2>1. /\ pc' = [pc EXCEPT ![s] = "idle"]
        /\ holds' = [holds EXCEPT ![s] = None]
        /\ sent' = sent /\ attempt' = attempt
    BY <1>2 DEF BlockedByPolicy, SimulateFill, CannotPrepare
  <2>2. \A o \in Orders : status'[o] = "pending_intent" => status[o] = "pending_intent"
    BY <1>2 DEF BlockedByPolicy, SimulateFill, CannotPrepare
  <2> QED
    BY <2>1, <2>2, OnceFinish
<1>3. CASE CommitDispatch(s)
  BY <1>3 DEF CommitDispatch
<1>4. CASE StaleWrite(s) \/ SessionDies(s)
  BY <1>4, OnceFinish DEF StaleWrite, SessionDies
<1>5. CASE NotTransmitted(s) \/ AnswerUnusable(s) \/ ReceiveRefusal(s) \/ ReceiveContradiction(s)
  BY <1>5 DEF NotTransmitted, AnswerUnusable, ReceiveRefusal, ReceiveContradiction
<1>6. CASE Transmit(s)
  <2>1. holds[s] \in Orders /\ sent[holds[s]] = 0 /\ attempt[holds[s]] # "none"
    BY <1>6 DEF Transmit
  <2>2. sent' = [sent EXCEPT ![holds[s]] = 1]
    BY <1>6, <2>1 DEF Transmit
  <2>3. \A t \in Sessions : pc'[t] = "committed" =>
          pc[t] = "committed" /\ t # s /\ holds'[t] = holds[t] /\ holds[t] # holds[s]
    BY <1>6 DEF Transmit
  <2> QED
    BY <1>6, <2>1, <2>2, <2>3 DEF Transmit
<1>7. ASSUME NEW b \in BrokerIds, ReceiveAcknowledgement(s, b) PROVE OnceInv'
  BY <1>7 DEF ReceiveAcknowledgement
<1>8. CASE RecordLate(s) \/ RecordNoOrder(s) \/ RecordUnknownOutcome(s) \/ RecordAcknowledgement(s)
  <2>1. /\ pc[s] \in {"answered", "retry"}
        /\ holds[s] \in Orders
        /\ attempt[holds[s]] = "open"
        /\ pc' = [pc EXCEPT ![s] = "idle"]
        /\ holds' = [holds EXCEPT ![s] = None]
        /\ sent' = sent
    BY <1>8 DEF RecordLate, RecordNoOrder, RecordUnknownOutcome, RecordAcknowledgement,
       StillUnknown, AboutToRecord, CloseAttempt
  <2>2. \A o \in Orders : /\ attempt'[o] = "none" <=> attempt[o] = "none"
                          /\ status'[o] = "pending_intent" => status[o] = "pending_intent"
    BY <1>8, <2>1 DEF RecordLate, RecordNoOrder, RecordUnknownOutcome, RecordAcknowledgement,
       CloseAttempt, OutcomeOf, Trusted, Ended
  <2> QED
    BY <2>1, <2>2, OnceFinish
<1>9. CASE AcknowledgementNotSaved(s)
  BY <1>9 DEF AcknowledgementNotSaved, StillUnknown, AboutToRecord
<1> QED
  BY <1>1, <1>2, <1>3, <1>4, <1>5, <1>6, <1>7, <1>8, <1>9 DEF SessionStep

LEMMA OnceOthers ==
  ASSUME OnceInv, TypeInv',
         \/ \E c \in Clerks, o \in Orders : ClerkStep(c, o)
         \/ \E o \in Orders : RowStep(o) \/ NetworkStep(o)
         \/ \E b \in BrokerIds : BrokerStep(b)
  PROVE  OnceInv'
<1>1. /\ pc' = pc /\ holds' = holds /\ sent' = sent /\ attempt' = attempt
      /\ \A o \in Orders : status'[o] = "pending_intent" => status[o] = "pending_intent"
  <2> USE DEF rowVars, sessionVars, netVars, OnceInv, TypeInv, TypeOK
  <2>1. ASSUME NEW c \in Clerks, NEW o \in Orders, ClerkStep(c, o) PROVE <1>1
    BY <2>1 DEF ClerkStep, LookUp, ReadHistory, HistoryUnusable, DropLinked, LeaveUnresolved,
       Identify, Settle, ClerkFails, Release, Claimable, Record, Ended
  <2>2. ASSUME NEW o \in Orders, RowStep(o) \/ NetworkStep(o) PROVE <1>1
    BY <2>2 DEF RowStep, NetworkStep, GrowOld, CancelLocally, ReadRefused, RecordStillOpen,
       RecordFinalState, ReadById, BrokerRefuses, RequestLost, Ended
  <2>3. ASSUME NEW b \in BrokerIds, BrokerStep(b) PROVE <1>1
    BY <2>3 DEF BrokerStep, BrokerTakes, BrokerFills, BrokerEnds, OrderFromOutside
  <2> QED
    BY <2>1, <2>2, <2>3
<1> QED
  BY <1>1 DEF OnceInv, IntentHasNoAttempt, CommittedNotSent, OneCommitted, SentOnRecord

LEMMA OnceStep == OnceInv /\ [Next]_vars => OnceInv'
<1> SUFFICES ASSUME OnceInv, [Next]_vars PROVE OnceInv'
  OBVIOUS
<1>1. TypeInv'
  BY TypeStep DEF OnceInv
<1>2. CASE Next
  BY <1>1, <1>2, OnceSession, OnceOthers DEF Next
<1>3. CASE UNCHANGED vars
  BY <1>1, <1>3 DEF vars, rowVars, sessionVars, netVars, OnceInv, IntentHasNoAttempt,
     CommittedNotSent, OneCommitted, SentOnRecord
<1> QED
  BY <1>2, <1>3

\* However many sessions run submit_order on the same intent and wherever they die,
\* an order is transmitted at most once, and only with its dispatch on record.
THEOREM TransmittedOnce == Spec => []TransmittedOnceOnRecord
<1>1. OnceInv => TransmittedOnceOnRecord
  BY DEF OnceInv, TypeInv, SentOnRecord, IntentHasNoAttempt, TransmittedOnceOnRecord
<1> QED
  BY <1>1, OnceInit, OnceStep, PTL DEF Spec

-----------------------------------------------------------------------------
(***************************************************************************)
(* What is recorded is true.  The outcome of an order, the identity it is  *)
(* given and the alarm it raises are written by whoever comes first: its   *)
(* session, a clerk, a read by its id.  The invariant therefore says of    *)
(* each of them what it knows at every moment: the broker's book, what a   *)
(* session has been answered, what a clerk has read and still holds the    *)
(* row for, and the row itself.                                            *)
(***************************************************************************)

(* The broker keeps at most one order for each of ours, and only one it was sent. *)
BookInv ==
  /\ \A b \in BrokerIds :
       /\ book[b].owner = None => book[b].state = "free"
       /\ book[b].state = "free" => book[b].owner = None
       /\ book[b].state = "filled" => book[b].fill = Qty
       /\ book[b].owner \in Orders => wire[book[b].owner] = "taken"
  /\ \A b, x \in BrokerIds : book[b].owner = book[x].owner /\ book[b].owner \in Orders => b = x

(* A session that has committed a dispatch is the only one, and it will close the attempt. *)
Carries(s) == pc[s] \in {"committed", "sent", "answered", "retry"}

OneCarrier == \A s, t \in Sessions : Carries(s) /\ Carries(t) /\ holds[s] = holds[t] => s = t

(* What a session believes: its copy, and the broker's answer. *)
SessionInv(s) ==
  LET o == holds[s]  b == ackId[s] IN
  /\ pc[s] \in {"idle", "loaded", "committed", "sent"} => answer[s] = "none" /\ b = None
  /\ pc[s] = "loaded" /\ fresh[s] => status[o] = "pending_intent"
  /\ Carries(s) => attempt[o] = "open"
  /\ pc[s] = "sent" => sent[o] # 0
  /\ pc[s] = "retry" => answer[s] = "named"
  /\ b # None => book[b].owner = o
  /\ answer[s] = "not_transmitted" => sent[o] = 0 /\ b = None
  /\ answer[s] = "refused" => wire[o] = "refused" /\ b = None
  /\ answer[s] \in Trusted \cup {"named"} => b # None
  /\ answer[s] \in Ended => book[b].state = answer[s]
  /\ answer[s] \in {"cancelled", "rejected"} => book[b].fill = 0

(* A record a clerk looks at for an order it has locked. *)
MayBe(o, owner) == owner = o \/ {o, owner} \subseteq LookAlikes

RecordInv(o, r) ==
  /\ MayBe(o, book[r.id].owner)
  /\ r.state \in Ended => book[r.id].state = r.state /\ book[r.id].fill = r.fill
  /\ r.fill <= book[r.id].fill

ClerkInv(c) ==
  /\ phase[c] \in {"idle", "reading"} => seen[c] = {}
  /\ \A o \in Orders : rowLock[o] = c =>
       /\ phase[c] # "idle"
       /\ status[o] = "submission_unknown" /\ brokerId[o] = None
       /\ \A r \in seen[c] : RecordInv(o, r)
       /\ \A p \in Orders : rowLock[p] = c => p = o

(* The row. *)
StageInv(o) ==
  /\ status[o] \in {"pending_intent", "submission_unknown", "accepted"} \cup TERMINAL_ORDER_STATUSES
  /\ status[o] = "pending_intent" => brokerId[o] = None
  /\ status[o] = "accepted" => brokerId[o] # None
  /\ status[o] \in {"pending_intent", "submission_unknown"} => filled[o] = 0
  /\ attempt[o] = "open" /\ brokerId[o] = None => status[o] = "submission_unknown"
  /\ brokerId[o] = None /\ status[o] # "submission_unknown" => wire[o] \in {"none", "refused"}
  /\ sent[o] = 0 <=> wire[o] = "none"

AttemptInv(o) ==
  /\ attempt[o] \in {"none", "open"} => evidenceId[o] = None
  /\ evidenceId[o] # None => brokerId[o] # None /\ book[evidenceId[o]].owner = o
  /\ attempt[o] = "not_transmitted" => sent[o] = 0
  /\ attempt[o] = "accepted" => evidenceId[o] # None
  /\ attempt[o] = "rejected" /\ evidenceId[o] = None => wire[o] = "refused"

IdentityInv(o) ==
  brokerId[o] # None =>
    /\ MayBe(o, book[brokerId[o]].owner)
    /\ evidenceId[o] \notin {None, brokerId[o]} => conflict[o]
    /\ \A p \in Orders \ {o} : book[brokerId[o]].owner = p =>
         /\ brokerId[p] # None
         /\ book[brokerId[p]].owner # o

EndInv(o) ==
  o \notin DryRun \cup LookAlikes =>
    /\ brokerId[o] # None => filled[o] <= book[brokerId[o]].fill
    /\ status[o] \in TERMINAL_ORDER_STATUSES =>
         /\ wire[o] # "flying"
         /\ \A s \in Sessions : ~(pc[s] = "committed" /\ holds[s] = o)
         /\ \A b \in BrokerIds : book[b].owner = o =>
              book[b].state = status[o] /\ book[b].fill = filled[o]

AlarmInv(o) ==
  status[o] = "submission_unknown" /\ (brokerId[o] # None \/ attempt[o] \in Outcomes) => alarms[o] > 0

RowInv(o) == StageInv(o) /\ AttemptInv(o) /\ IdentityInv(o) /\ EndInv(o) /\ AlarmInv(o)

TruthInv ==
  /\ OnceInv
  /\ BookInv
  /\ OneCarrier
  /\ \A s \in Sessions : SessionInv(s)
  /\ \A c \in Clerks : ClerkInv(c)
  /\ \A o \in Orders : RowInv(o)

(* Whoever knows a broker id knows one the broker has given out. *)
LEMMA IdsAreTaken ==
  ASSUME TruthInv
  PROVE  /\ \A o \in Orders : brokerId[o] # None =>
              brokerId[o] \in BrokerIds /\ book[brokerId[o]].owner # None
         /\ \A o \in Orders : evidenceId[o] # None =>
              evidenceId[o] \in BrokerIds /\ book[evidenceId[o]].owner = o /\ o # None
         /\ \A s \in Sessions : ackId[s] # None =>
              /\ ackId[s] \in BrokerIds /\ Carries(s) /\ holds[s] \in Orders
              /\ book[ackId[s]].owner = holds[s] /\ holds[s] # None
         /\ \A c \in Clerks, o \in Orders : rowLock[o] = c => \A r \in seen[c] :
              r \in Record /\ r.id \in BrokerIds /\ book[r.id].owner # None
<1>1. \A o \in Orders : o # None /\ ~MayBe(o, None)
  BY NamesAreApart, SubsetsAreSubsets DEF MayBe
<1>2. TypeOK /\ SessionsHoldOrders
  BY DEF TruthInv, OnceInv, TypeInv
<1>3. ASSUME NEW o \in Orders, brokerId[o] # None
      PROVE  brokerId[o] \in BrokerIds /\ book[brokerId[o]].owner # None
  <2>1. MayBe(o, book[brokerId[o]].owner)
    BY <1>3 DEF TruthInv, RowInv, IdentityInv
  <2> QED
    BY <1>1, <1>2, <1>3, <2>1 DEF TypeOK
<1>4. ASSUME NEW o \in Orders, evidenceId[o] # None
      PROVE  evidenceId[o] \in BrokerIds /\ book[evidenceId[o]].owner = o /\ o # None
  BY <1>1, <1>2, <1>4 DEF TypeOK, TruthInv, RowInv, AttemptInv
<1>5. ASSUME NEW s \in Sessions, ackId[s] # None
      PROVE  /\ ackId[s] \in BrokerIds /\ Carries(s) /\ holds[s] \in Orders
             /\ book[ackId[s]].owner = holds[s] /\ holds[s] # None
  <2>1. SessionInv(s)
    BY DEF TruthInv
  <2>2. pc[s] \in SessionSteps /\ ackId[s] \in BrokerIds
    BY <1>2, <1>5 DEF TypeOK
  <2>3. Carries(s) /\ pc[s] # "idle" /\ book[ackId[s]].owner = holds[s]
    BY <1>5, <2>1, <2>2 DEF SessionInv, Carries, SessionSteps
  <2> QED
    BY <1>1, <1>2, <2>2, <2>3 DEF SessionsHoldOrders
<1>6. ASSUME NEW c \in Clerks, NEW o \in Orders, rowLock[o] = c, NEW r \in seen[c]
      PROVE  r \in Record /\ r.id \in BrokerIds /\ book[r.id].owner # None
  <2>1. RecordInv(o, r)
    BY <1>6 DEF TruthInv, ClerkInv
  <2>2. r \in Record
    BY <1>2 DEF TypeOK
  <2> QED
    BY <1>1, <2>1, <2>2 DEF RecordInv, Record
<1> QED
  BY <1>3, <1>4, <1>5, <1>6

-----------------------------------------------------------------------------
(* What is undisturbed by a step elsewhere. *)

(* What the broker has taken stays whose it is, and what it has ended stays as it is. *)
BookGrows ==
  \A b \in BrokerIds : book[b].owner # None =>
    /\ book'[b].owner = book[b].owner
    /\ book[b].state \in Ended => book'[b] = book[b]
    /\ book[b].fill <= book'[b].fill

(* A request is only ever answered for, lost, or taken. *)
WireMoves(o) == wire'[o] = wire[o] \/ (wire[o] = "flying" /\ wire'[o] \in {"taken", "refused", "lost"})

RowSame(o) ==
  /\ status'[o] = status[o] /\ brokerId'[o] = brokerId[o] /\ filled'[o] = filled[o]
  /\ attempt'[o] = attempt[o] /\ evidenceId'[o] = evidenceId[o]
  /\ alarms'[o] = alarms[o] /\ conflict'[o] = conflict[o]

(* An identity, once adopted, is only ever replaced by the right one. *)
LinksGrow ==
  \A p \in Orders : brokerId[p] # None =>
    brokerId'[p] = brokerId[p] \/ (brokerId'[p] # None /\ book'[brokerId'[p]].owner = p)

CommittedBefore(o) ==
  \A s \in Sessions : pc'[s] = "committed" /\ holds'[s] = o => pc[s] = "committed" /\ holds[s] = o

LEMMA RowIsKept ==
  ASSUME TruthInv, NEW o \in Orders, BookGrows, WireMoves(o), RowSame(o), sent'[o] = sent[o], LinksGrow,
         \A b \in BrokerIds : book'[b].owner = o => book[b].owner = o \/ wire[o] = "flying",
         CommittedBefore(o), TypeOK'
  PROVE  RowInv(o)'
<1> USE DEF RowSame
<1>0. RowInv(o) /\ TypeOK
  BY DEF TruthInv, OnceInv, TypeInv
<1>1. StageInv(o)'
  BY <1>0 DEF RowInv, StageInv, WireMoves
<1>2. AttemptInv(o)'
  BY <1>0, IdsAreTaken DEF RowInv, AttemptInv, WireMoves, BookGrows
<1>3. IdentityInv(o)'
  <2> SUFFICES ASSUME brokerId[o] # None PROVE IdentityInv(o)'
    BY DEF IdentityInv
  <2>1. book'[brokerId[o]].owner = book[brokerId[o]].owner
    BY IdsAreTaken DEF BookGrows
  <2>2. ASSUME NEW p \in Orders \ {o}, book[brokerId[o]].owner = p
        PROVE  brokerId'[p] # None /\ book'[brokerId'[p]].owner # o
    <3>1. brokerId[p] # None /\ book[brokerId[p]].owner # o
      BY <1>0, <2>2 DEF RowInv, IdentityInv
    <3>2. book'[brokerId[p]].owner = book[brokerId[p]].owner
      BY <3>1, IdsAreTaken DEF BookGrows
    <3> QED
      BY <3>1, <3>2 DEF LinksGrow
  <2> QED
    BY <1>0, <2>1, <2>2 DEF RowInv, IdentityInv, MayBe
<1>4. EndInv(o)'
  <2> SUFFICES ASSUME o \notin DryRun \cup LookAlikes PROVE EndInv(o)'
    BY DEF EndInv
  <2>1. brokerId[o] # None => filled[o] <= book'[brokerId[o]].fill
    <3> SUFFICES ASSUME brokerId[o] # None PROVE filled[o] <= book'[brokerId[o]].fill
      OBVIOUS
    <3>1. brokerId[o] \in BrokerIds /\ filled[o] <= book[brokerId[o]].fill
          /\ book[brokerId[o]].fill <= book'[brokerId[o]].fill
      BY <1>0, IdsAreTaken DEF RowInv, EndInv, BookGrows
    <3>2. filled[o] \in 0..Qty /\ book[brokerId[o]].fill \in 0..Qty /\ book'[brokerId[o]].fill \in 0..Qty
      BY <1>0, <3>1 DEF TypeOK, BrokerOrder
    <3> QED
      BY <3>1, <3>2, QtyPositive
  <2>2. ASSUME status[o] \in TERMINAL_ORDER_STATUSES
        PROVE  /\ wire'[o] # "flying"
               /\ \A s \in Sessions : ~(pc'[s] = "committed" /\ holds'[s] = o)
               /\ \A b \in BrokerIds : book'[b].owner = o =>
                    book'[b].state = status[o] /\ book'[b].fill = filled[o]
    <3>1. wire[o] # "flying" /\ wire'[o] # "flying"
      BY <1>0, <2>2 DEF RowInv, EndInv, WireMoves
    <3>2. \A s \in Sessions : ~(pc'[s] = "committed" /\ holds'[s] = o)
      BY <1>0, <2>2 DEF RowInv, EndInv, CommittedBefore
    <3>3. ASSUME NEW b \in BrokerIds, book'[b].owner = o
          PROVE  book'[b].state = status[o] /\ book'[b].fill = filled[o]
      <4>1. book[b].owner = o /\ book[b].state = status[o] /\ book[b].fill = filled[o]
        BY <1>0, <2>2, <3>1, <3>3 DEF RowInv, EndInv
      <4>2. book[b].state \in Ended
        BY <1>0, <2>2, <4>1 DEF TypeOK, BrokerOrder, TERMINAL_ORDER_STATUSES, Ended
      <4> QED
        BY <4>1, <4>2, NamesAreApart DEF BookGrows
    <3> QED
      BY <3>1, <3>2, <3>3
  <2> QED
    BY <2>1, <2>2 DEF EndInv
<1>5. AlarmInv(o)'
  BY <1>0 DEF RowInv, AlarmInv
<1> QED
  BY <1>1, <1>2, <1>3, <1>4, <1>5 DEF RowInv

SessionSame(s) ==
  /\ pc'[s] = pc[s] /\ holds'[s] = holds[s] /\ answer'[s] = answer[s] /\ ackId'[s] = ackId[s]
  /\ fresh'[s] => fresh[s]

LEMMA SessionIsKept ==
  ASSUME TruthInv, NEW s \in Sessions, BookGrows, SessionSame(s),
         fresh'[s] /\ pc[s] = "loaded" => status'[holds[s]] = status[holds[s]],
         Carries(s) => /\ attempt'[holds[s]] = attempt[holds[s]]
                       /\ sent'[holds[s]] = sent[holds[s]]
                       /\ WireMoves(holds[s])
  PROVE  SessionInv(s)'
<1>1. SessionInv(s) /\ pc[s] \in SessionSteps
  BY DEF TruthInv, OnceInv, TypeInv, TypeOK
<1>2. CASE ackId[s] = None
  <2>1. answer[s] \notin Trusted \cup {"named"}
    BY <1>1, <1>2 DEF SessionInv
  <2>2. ~Carries(s) => answer[s] = "none"
    BY <1>1 DEF SessionInv, Carries, SessionSteps
  <2>3. Carries(s) => SessionInv(s)'
    BY <1>1, <1>2, <2>1 DEF SessionInv, SessionSame, Carries, WireMoves, Trusted, Ended
  <2>4. ~Carries(s) => SessionInv(s)'
    BY <1>1, <1>2, <2>2 DEF SessionInv, SessionSame, Carries, Trusted, Ended
  <2> QED
    BY <2>3, <2>4
<1>3. CASE ackId[s] # None
  <2>1. Carries(s) /\ ackId[s] \in BrokerIds /\ book[ackId[s]].owner = holds[s] /\ holds[s] # None
    BY <1>3, IdsAreTaken
  <2>2. /\ book'[ackId[s]].owner = holds[s]
        /\ book[ackId[s]].state \in Ended => book'[ackId[s]] = book[ackId[s]]
    BY <2>1 DEF BookGrows
  <2>3. answer[s] \notin {"not_transmitted", "refused"}
    BY <1>1, <1>3 DEF SessionInv
  <2> QED
    BY <1>1, <1>3, <2>1, <2>2, <2>3 DEF SessionInv, SessionSame, Carries, Ended
<1> QED
  BY <1>2, <1>3

LEMMA ClerkIsKept ==
  ASSUME TruthInv, NEW c \in Clerks, BookGrows, TypeOK', phase'[c] = phase[c], seen'[c] = seen[c],
         \A o \in Orders : rowLock'[o] = c =>
           rowLock[o] = c /\ status'[o] = status[o] /\ brokerId'[o] = brokerId[o]
  PROVE  ClerkInv(c)'
<1>1. ClerkInv(c) /\ TypeOK
  BY DEF TruthInv, OnceInv, TypeInv
<1>2. ASSUME NEW o \in Orders, rowLock'[o] = c, NEW r \in seen[c] PROVE RecordInv(o, r)'
  <2>1. RecordInv(o, r) /\ r \in Record /\ r.id \in BrokerIds /\ book[r.id].owner # None
    BY <1>1, <1>2, IdsAreTaken DEF ClerkInv
  <2>2. /\ book'[r.id].owner = book[r.id].owner
        /\ book[r.id].state \in Ended => book'[r.id] = book[r.id]
        /\ book[r.id].fill <= book'[r.id].fill
    BY <2>1 DEF BookGrows
  <2>3. r.fill <= book'[r.id].fill
    <3>1. r.fill \in 0..Qty /\ book[r.id].fill \in 0..Qty /\ book'[r.id].fill \in 0..Qty
      BY <1>1, <2>1 DEF Record, TypeOK, BrokerOrder
    <3> QED
      BY <2>1, <2>2, <3>1, QtyPositive DEF RecordInv
  <2> QED
    BY <2>1, <2>2, <2>3 DEF RecordInv, MayBe
<1> QED
  BY <1>1, <1>2 DEF ClerkInv

LEMMA CarriersAreKept ==
  ASSUME TruthInv, \A s \in Sessions : Carries(s)' => Carries(s) /\ holds'[s] = holds[s]
  PROVE  OneCarrier'
BY DEF TruthInv, OneCarrier

LEMMA BookIsKept ==
  ASSUME TruthInv, book' = book, \A o \in Orders : wire[o] = "taken" => wire'[o] = "taken"
  PROVE  BookGrows /\ BookInv'
<1>1. BookInv /\ \A b \in BrokerIds : book[b].fill \in 0..Qty
  BY DEF TruthInv, OnceInv, TypeInv, TypeOK, BrokerOrder
<1>2. BookGrows
  BY <1>1, QtyPositive DEF BookGrows
<1> QED
  BY <1>1, <1>2 DEF BookInv

-----------------------------------------------------------------------------
(* Steps of a session that write no row. *)

\* Nothing but the session's own memory changes.
OnlySession(s) ==
  /\ UNCHANGED <<rowVars, clerkVars, netVars>>
  /\ \A t \in Sessions \ {s} :
       /\ pc'[t] = pc[t] /\ holds'[t] = holds[t] /\ answer'[t] = answer[t]
       /\ ackId'[t] = ackId[t] /\ fresh'[t] = fresh[t]

LEMMA SessionOnly ==
  ASSUME TruthInv, OnceInv', NEW s \in Sessions, OnlySession(s), SessionInv(s)',
         Carries(s)' => Carries(s) /\ holds'[s] = holds[s],
         pc'[s] = "committed" => pc[s] = "committed"
  PROVE  TruthInv'
<1> USE DEF OnlySession, rowVars, clerkVars, netVars
<1>1. BookGrows /\ BookInv'
  BY BookIsKept
<1>2. OneCarrier'
  BY CarriersAreKept DEF Carries
<1>3. ASSUME NEW t \in Sessions \ {s} PROVE SessionInv(t)'
  BY <1>1, SessionIsKept DEF SessionSame, WireMoves
<1>4. TypeOK'
  BY DEF OnceInv, TypeInv
<1>5. ASSUME NEW c \in Clerks PROVE ClerkInv(c)'
  BY <1>1, <1>4, ClerkIsKept
<1>6. ASSUME NEW o \in Orders PROVE RowInv(o)'
  <2>1. CommittedBefore(o)
    BY DEF CommittedBefore, Carries
  <2> QED
    BY <1>1, <1>4, <2>1, RowIsKept DEF RowSame, WireMoves, LinksGrow
<1> QED
  BY <1>1, <1>2, <1>3, <1>5, <1>6 DEF TruthInv

\* The session whose step it is.
LEMMA AtSession ==
  ASSUME TruthInv, NEW s \in Sessions
  PROVE  /\ SessionInv(s) /\ pc[s] \in SessionSteps
         /\ pc \in [Sessions -> SessionSteps] /\ holds \in [Sessions -> Orders \cup {None}]
         /\ fresh \in [Sessions -> BOOLEAN] /\ answer \in [Sessions -> Answers]
         /\ ackId \in [Sessions -> BrokerIds \cup {None}]
         /\ pc[s] # "idle" => holds[s] \in Orders
         /\ pc[s] = "idle" => answer[s] = "none" /\ ackId[s] = None
  BY DEF TruthInv, OnceInv, TypeInv, TypeOK, SessionsHoldOrders, SessionInv

LEMMA MemoryPreserves ==
  ASSUME TruthInv, OnceInv', NEW s \in Sessions,
         \/ \E o \in Orders : Load(s, o)
         \/ StaleWrite(s) \/ SessionDies(s) \/ NotTransmitted(s) \/ AnswerUnusable(s)
         \/ ReceiveRefusal(s) \/ ReceiveContradiction(s)
         \/ \E b \in BrokerIds : ReceiveAcknowledgement(s, b)
         \/ AcknowledgementNotSaved(s)
  PROVE  TruthInv'
<1> USE AtSession
<1>1. ASSUME NEW o \in Orders, Load(s, o) PROVE TruthInv'
  <2>1. OnlySession(s)
    BY <1>1 DEF Load, OnlySession
  <2>2. pc'[s] = "loaded" /\ holds'[s] = o /\ answer'[s] = "none" /\ ackId'[s] = None /\ status' = status
        /\ status[o] = "pending_intent"
    BY <1>1 DEF Load, rowVars
  <2>3. SessionInv(s)'
    BY <2>2 DEF SessionInv, Carries, Trusted, Ended
  <2> QED
    BY <2>1, <2>2, <2>3, SessionOnly DEF Carries
<1>2. CASE StaleWrite(s) \/ SessionDies(s)
  <2>1. OnlySession(s) /\ pc'[s] = "idle" /\ answer'[s] = "none" /\ ackId'[s] = None
    BY <1>2 DEF StaleWrite, SessionDies, Finish, Forget, OnlySession
  <2>2. SessionInv(s)'
    BY <2>1 DEF SessionInv, Carries, Trusted, Ended
  <2> QED
    BY <2>1, <2>2, SessionOnly DEF Carries
<1>3. CASE NotTransmitted(s)
  <2>1. OnlySession(s) /\ pc[s] = "committed" /\ pc'[s] = "answered" /\ answer'[s] = "not_transmitted"
        /\ ackId'[s] = ackId[s] /\ holds'[s] = holds[s]
    BY <1>3 DEF NotTransmitted, OnlySession
  <2>2. sent[holds[s]] = 0
    BY <2>1 DEF TruthInv, OnceInv, CommittedNotSent
  <2>3. SessionInv(s)'
    BY <2>1, <2>2 DEF SessionInv, Carries, Trusted, Ended, OnlySession, rowVars, netVars
  <2> QED
    BY <2>1, <2>3, SessionOnly DEF Carries
<1>4. CASE AnswerUnusable(s) \/ ReceiveContradiction(s) \/ ReceiveRefusal(s)
  <2>1. OnlySession(s) /\ pc[s] = "sent" /\ pc'[s] = "answered"
        /\ answer'[s] \in {"ambiguous", "contradicts", "refused"}
        /\ (answer'[s] = "refused" => wire[holds[s]] = "refused")
    BY <1>4 DEF AnswerUnusable, ReceiveContradiction, ReceiveRefusal, OnlySession
  <2>2. ackId'[s] = ackId[s] /\ holds'[s] = holds[s]
    BY <1>4 DEF AnswerUnusable, ReceiveContradiction, ReceiveRefusal
  <2>3. SessionInv(s)'
    BY <2>1, <2>2 DEF SessionInv, Carries, Trusted, Ended, OnlySession, rowVars, netVars
  <2> QED
    BY <2>1, <2>2, <2>3, SessionOnly DEF Carries
<1>5. ASSUME NEW b \in BrokerIds, ReceiveAcknowledgement(s, b) PROVE TruthInv'
  <2>1. OnlySession(s) /\ pc[s] = "sent" /\ pc'[s] = "answered" /\ holds'[s] = holds[s] /\ ackId'[s] = b
        /\ book[b].owner = holds[s] /\ answer'[s] \in {InterpretAcknowledgement(book[b]), "named"}
    BY <1>5 DEF ReceiveAcknowledgement, OnlySession
  <2>2. b # None /\ holds[s] \in Orders
    BY <2>1, NamesAreApart
  <2>3. /\ answer'[s] \notin {"none", "not_transmitted", "refused"}
        /\ answer'[s] \in Ended => book[b].state = answer'[s]
        /\ answer'[s] \in {"cancelled", "rejected"} => book[b].fill = 0
    BY <2>1 DEF InterpretAcknowledgement, Ended
  <2>4. SessionInv(s)'
    BY <2>1, <2>2, <2>3 DEF SessionInv, Carries, OnlySession, rowVars, netVars
  <2> QED
    BY <2>1, <2>4, SessionOnly DEF Carries
<1>6. CASE AcknowledgementNotSaved(s)
  <2>1. OnlySession(s) /\ pc'[s] = "retry" /\ answer'[s] = "named" /\ ackId'[s] = ackId[s]
        /\ holds'[s] = holds[s] /\ pc[s] \in {"answered", "retry"} /\ answer[s] \in Trusted
    BY <1>6 DEF AcknowledgementNotSaved, OnlySession, StillUnknown, AboutToRecord
  <2>2. SessionInv(s)'
    BY <2>1 DEF SessionInv, Carries, Trusted, Ended, OnlySession, rowVars, netVars
  <2> QED
    BY <2>1, <2>2, SessionOnly DEF Carries
<1> QED
  BY <1>1, <1>2, <1>3, <1>4, <1>5, <1>6

\* The one transmission: nothing of the order is at the broker yet.
LEMMA TransmitPreserves ==
  ASSUME TruthInv, OnceInv', NEW s \in Sessions, Transmit(s)
  PROVE  TruthInv'
<1>1. PICK o \in Orders :
      /\ o = holds[s] /\ pc[s] = "committed" /\ pc' = [pc EXCEPT ![s] = "sent"]
      /\ sent' = [sent EXCEPT ![o] = sent[o] + 1] /\ wire' = [wire EXCEPT ![o] = "flying"]
      /\ UNCHANGED <<rowVars, clerkVars, book, holds, fresh, answer, ackId>>
  BY AtSession DEF Transmit
<1>2. TypeOK /\ TypeOK' /\ RowInv(o) /\ SessionInv(s)
  BY <1>1 DEF TruthInv, OnceInv, TypeInv
<1>3. sent[o] = 0 /\ sent'[o] = 1 /\ wire[o] = "none" /\ wire'[o] = "flying"
  BY <1>1, <1>2 DEF TruthInv, OnceInv, CommittedNotSent, RowInv, StageInv, TypeOK
<1>4. /\ \A p \in Orders \ {o} : sent'[p] = sent[p] /\ wire'[p] = wire[p]
      /\ \A t \in Sessions : pc'[t] = IF t = s THEN "sent" ELSE pc[t]
  BY <1>1, <1>2 DEF TypeOK
<1>5. BookGrows /\ BookInv'
  <2>1. \A p \in Orders : wire[p] = "taken" => wire'[p] = "taken"
    BY <1>3, <1>4
  <2> QED
    BY <1>1, <2>1, BookIsKept
<1>6. OneCarrier'
  BY <1>1, <1>4, CarriersAreKept DEF Carries
<1>7. ASSUME NEW t \in Sessions PROVE SessionInv(t)'
  <2>1. CASE t = s
    BY <1>1, <1>2, <1>3, <1>4, <2>1 DEF SessionInv, Carries, rowVars, Trusted, Ended
  <2>2. CASE t # s
    <3>1. Carries(t) => holds[t] # o /\ holds[t] \in Orders
      BY <1>1, <2>2, AtSession DEF TruthInv, OneCarrier, Carries
    <3> QED
      BY <1>1, <1>4, <1>5, <2>2, <3>1, SessionIsKept DEF SessionSame, WireMoves, rowVars
  <2> QED
    BY <2>1, <2>2
<1>8. ASSUME NEW c \in Clerks PROVE ClerkInv(c)'
  BY <1>1, <1>2, <1>5, ClerkIsKept DEF clerkVars, rowVars
<1>9. ASSUME NEW p \in Orders PROVE RowInv(p)'
  <2>1. CASE p # o
    <3>1. CommittedBefore(p)
      BY <1>1, <1>4 DEF CommittedBefore
    <3> QED
      BY <1>1, <1>2, <1>4, <1>5, <2>1, <3>1, RowIsKept DEF RowSame, WireMoves, LinksGrow, rowVars
  <2>2. CASE p = o
    <3>1. attempt[o] = "open"
      BY <1>1, <1>2 DEF SessionInv, Carries
    <3>2. StageInv(o)' /\ AttemptInv(o)' /\ IdentityInv(o)' /\ AlarmInv(o)'
      BY <1>1, <1>2, <1>3, <3>1
      DEF RowInv, StageInv, AttemptInv, IdentityInv, AlarmInv, rowVars, MayBe
    <3>3. EndInv(o)'
      BY <1>1, <1>2 DEF RowInv, EndInv, rowVars
    <3> QED
      BY <2>2, <3>2, <3>3 DEF RowInv
  <2> QED
    BY <2>1, <2>2
<1> QED
  BY <1>5, <1>6, <1>7, <1>8, <1>9 DEF TruthInv

-----------------------------------------------------------------------------
(* Steps that write one row. *)

\* A session ends, having written the row it held: whoever else holds a copy of it has a
\* stale one, unless the status has not changed.
EndsWriting(s, o) ==
  /\ o = holds[s] /\ pc[s] # "idle" /\ Unlocked(o)
  /\ Finish(s)
  /\ UNCHANGED <<clerkVars, netVars>>
  /\ \A p \in Orders \ {o} : RowSame(p)
  /\ brokerId[o] # None =>
       brokerId'[o] = brokerId[o] \/ (brokerId'[o] # None /\ book[brokerId'[o]].owner = o)
  /\ \A t \in Sessions \ {s} :
       /\ fresh'[t] => fresh[t] /\ (holds[t] = o => status'[o] = status[o])
       /\ Carries(t) /\ holds[t] = o => attempt'[o] = attempt[o]

LEMMA WritingPreserves ==
  ASSUME TruthInv, OnceInv', NEW s \in Sessions, NEW o \in Orders, EndsWriting(s, o), RowInv(o)'
  PROVE  TruthInv'
<1> USE DEF EndsWriting, clerkVars, netVars
<1>1. /\ pc'[s] = "idle" /\ answer'[s] = "none" /\ ackId'[s] = None
      /\ \A t \in Sessions \ {s} : /\ pc'[t] = pc[t] /\ holds'[t] = holds[t]
                                    /\ answer'[t] = answer[t] /\ ackId'[t] = ackId[t]
  BY AtSession DEF Finish
<1>2. BookGrows /\ BookInv'
  BY BookIsKept
<1>3. OneCarrier'
  BY <1>1, CarriersAreKept DEF Carries
<1>4. ASSUME NEW t \in Sessions PROVE SessionInv(t)'
  <2>1. CASE t = s
    BY <1>1, <2>1 DEF SessionInv, Carries, Trusted, Ended
  <2>2. CASE t # s
    <3>1. SessionSame(t)
      BY <1>1, <2>2 DEF SessionSame
    <3>2. ASSUME pc[t] # "idle" PROVE holds[t] \in Orders
      BY <3>2, AtSession
    <3>3. fresh'[t] /\ pc[t] = "loaded" => status'[holds[t]] = status[holds[t]]
      BY <2>2, <3>2 DEF RowSame
    <3>4. Carries(t) => attempt'[holds[t]] = attempt[holds[t]]
      BY <2>2, <3>2 DEF RowSame, Carries
    <3> QED
      BY <1>2, <3>1, <3>3, <3>4, SessionIsKept DEF WireMoves
  <2> QED
    BY <2>1, <2>2
<1>5. TypeOK'
  BY DEF OnceInv, TypeInv
<1>6. ASSUME NEW c \in Clerks PROVE ClerkInv(c)'
  <2>1. c # None
    BY NamesAreApart
  <2> QED
    BY <1>2, <1>5, <2>1, ClerkIsKept DEF Unlocked, RowSame
<1>7. ASSUME NEW p \in Orders \ {o} PROVE RowInv(p)'
  <2>1. CommittedBefore(p)
    BY <1>1 DEF CommittedBefore
  <2>2. LinksGrow
    BY DEF LinksGrow, RowSame
  <2> QED
    BY <1>2, <1>5, <2>1, <2>2, RowIsKept DEF WireMoves
<1> QED
  BY <1>2, <1>3, <1>4, <1>6, <1>7 DEF TruthInv

\* An intent nobody has dispatched: nothing of it is, or will be, at the broker.
LEMMA AtIntent ==
  ASSUME TruthInv, NEW o \in Orders, status[o] = "pending_intent"
  PROVE  /\ attempt[o] = "none" /\ brokerId[o] = None /\ evidenceId[o] = None /\ filled[o] = 0
         /\ sent[o] = 0 /\ wire[o] = "none"
         /\ \A t \in Sessions : ~(Carries(t) /\ holds[t] = o)
         /\ \A b \in BrokerIds : book[b].owner # o
<1>1. RowInv(o) /\ attempt[o] = "none" /\ sent[o] \in Nat
  BY DEF TruthInv, OnceInv, IntentHasNoAttempt, TypeInv, TypeOK
<1>2. brokerId[o] = None /\ evidenceId[o] = None /\ filled[o] = 0
  BY <1>1 DEF RowInv, StageInv, AttemptInv
<1>3. sent[o] = 0 /\ wire[o] = "none"
  BY <1>1 DEF TruthInv, OnceInv, SentOnRecord, RowInv, StageInv
<1>4. ASSUME NEW t \in Sessions, Carries(t), holds[t] = o PROVE FALSE
  BY <1>1, <1>4 DEF TruthInv, SessionInv
<1>5. ASSUME NEW b \in BrokerIds, book[b].owner = o PROVE FALSE
  BY <1>3, <1>5 DEF TruthInv, BookInv
<1> QED
  BY <1>1, <1>2, <1>3, <1>4, <1>5

LEMMA IntentIsClosed ==
  ASSUME TruthInv, NEW o \in Orders, status[o] = "pending_intent", status'[o] \in TERMINAL_ORDER_STATUSES,
         brokerId'[o] = brokerId[o], attempt'[o] = attempt[o], evidenceId'[o] = evidenceId[o],
         UNCHANGED netVars, CommittedBefore(o)
  PROVE  RowInv(o)'
<1> USE AtIntent DEF netVars
<1>1. StageInv(o)' /\ AttemptInv(o)' /\ IdentityInv(o)' /\ AlarmInv(o)'
  BY DEF StageInv, AttemptInv, IdentityInv, AlarmInv, TERMINAL_ORDER_STATUSES
<1>2. EndInv(o)'
  BY DEF EndInv, CommittedBefore, Carries
<1> QED
  BY <1>1, <1>2 DEF RowInv

LEMMA BeforeDispatchPreserves ==
  ASSUME TruthInv, OnceInv', NEW s \in Sessions,
         BlockedByPolicy(s) \/ SimulateFill(s) \/ CannotPrepare(s)
  PROVE  TruthInv'
<1>1. PICK o \in Orders : o = holds[s] /\ pc[s] = "loaded"
  BY AtSession DEF BlockedByPolicy, SimulateFill, CannotPrepare
<1>2. pc'[s] = "idle" /\ answer'[s] = "none" /\ ackId'[s] = None /\ Finish(s) /\ UNCHANGED <<clerkVars, netVars>>
  BY <1>1, AtSession DEF BlockedByPolicy, SimulateFill, CannotPrepare, Finish
<1>3. CASE BlockedByPolicy(s) /\ ~(o \in Buys /\ o \notin DryRun)
  <2>1. OnlySession(s)
    BY <1>1, <1>2, <1>3, AtSession DEF BlockedByPolicy, OnlySession, Finish, rowVars
  <2>2. SessionInv(s)'
    BY <1>2 DEF SessionInv, Carries, Trusted, Ended
  <2> QED
    BY <1>2, <2>1, <2>2, SessionOnly DEF Carries
<1>4. CASE ~(BlockedByPolicy(s) /\ ~(o \in Buys /\ o \notin DryRun))
  <2>1. /\ MayWrite(s) /\ fresh' = OthersStale(o)
        /\ \E e \in TERMINAL_ORDER_STATUSES : status' = [status EXCEPT ![o] = e]
        /\ filled' = filled \/ filled' = [filled EXCEPT ![o] = Qty]
        /\ UNCHANGED <<brokerId, attempt, evidenceId, alarms, conflict>>
    BY <1>1, <1>4 DEF BlockedByPolicy, SimulateFill, CannotPrepare, TERMINAL_ORDER_STATUSES
  <2>2. status[o] = "pending_intent" /\ Unlocked(o)
    BY <1>1, <2>1, AtSession DEF MayWrite, SessionInv
  <2>3. status'[o] \in TERMINAL_ORDER_STATUSES /\ \A p \in Orders \ {o} : RowSame(p)
    BY <2>1 DEF RowSame, TruthInv, OnceInv, TypeInv, TypeOK
  <2>4. \A t \in Sessions : fresh'[t] => fresh[t] /\ holds[t] # o
    BY <2>1 DEF OthersStale
  <2>5. CommittedBefore(o)
    BY <1>2, AtSession DEF CommittedBefore, Finish
  <2>6. RowInv(o)'
    BY <1>2, <2>1, <2>2, <2>3, <2>5, IntentIsClosed
  <2>7. EndsWriting(s, o)
    BY <1>1, <1>2, <2>1, <2>2, <2>3, <2>4 DEF EndsWriting
  <2> QED
    BY <2>6, <2>7, WritingPreserves
<1> QED
  BY <1>3, <1>4

\* The dispatch: from here one session carries the order.
LEMMA CommitDispatchPreserves ==
  ASSUME TruthInv, OnceInv', NEW s \in Sessions, CommitDispatch(s)
  PROVE  TruthInv'
<1>1. PICK o \in Orders : o = holds[s]
  BY AtSession DEF CommitDispatch
<1>2. /\ pc[s] = "loaded" /\ MayWrite(s) /\ attempt[o] = "none"
      /\ status' = [status EXCEPT ![o] = "submission_unknown"]
      /\ attempt' = [attempt EXCEPT ![o] = "open"]
      /\ fresh' = [OthersStale(o) EXCEPT ![s] = TRUE] /\ pc' = [pc EXCEPT ![s] = "committed"]
      /\ UNCHANGED <<brokerId, filled, evidenceId, alarms, conflict, clerkVars, netVars, holds, answer, ackId>>
  BY <1>1 DEF CommitDispatch
<1> USE DEF clerkVars, netVars
<1>3. status[o] = "pending_intent" /\ Unlocked(o) /\ SessionInv(s)
  BY <1>1, <1>2, AtSession DEF MayWrite, SessionInv
<1>4. /\ status'[o] = "submission_unknown" /\ attempt'[o] = "open"
      /\ \A p \in Orders \ {o} : RowSame(p)
      /\ pc'[s] = "committed" /\ \A t \in Sessions \ {s} : pc'[t] = pc[t]
      /\ \A t \in Sessions \ {s} : fresh'[t] => fresh[t] /\ holds[t] # o
  BY <1>2 DEF RowSame, OthersStale, TruthInv, OnceInv, TypeInv, TypeOK
<1>5. BookGrows /\ BookInv'
  BY <1>2, BookIsKept
<1>6. OneCarrier'
  BY <1>1, <1>2, <1>3, <1>4, AtIntent DEF OneCarrier, Carries, TruthInv
<1>7. ASSUME NEW t \in Sessions PROVE SessionInv(t)'
  <2>1. CASE t = s
    BY <1>1, <1>2, <1>3, <1>4, <2>1 DEF SessionInv, Carries, Trusted, Ended
  <2>2. CASE t # s
    <3>1. Carries(t) => holds[t] # o
      BY <1>3, AtIntent
    <3>2. pc[t] # "idle" => holds[t] \in Orders
      BY AtSession
    <3>3. SessionSame(t) /\ pc[t] \in SessionSteps
      BY <1>2, <1>4, <2>2, AtSession DEF SessionSame
    <3>4. fresh'[t] /\ pc[t] = "loaded" => status'[holds[t]] = status[holds[t]]
      BY <1>4, <2>2, <3>2 DEF RowSame
    <3>5. Carries(t) => attempt'[holds[t]] = attempt[holds[t]]
      BY <1>4, <3>1, <3>2 DEF RowSame, Carries
    <3> QED
      BY <1>2, <1>5, <3>3, <3>4, <3>5, SessionIsKept DEF WireMoves
  <2> QED
    BY <2>1, <2>2
<1>8. TypeOK'
  BY DEF OnceInv, TypeInv
<1>9. ASSUME NEW c \in Clerks PROVE ClerkInv(c)'
  <2>1. c # None
    BY NamesAreApart
  <2> QED
    BY <1>2, <1>3, <1>4, <1>5, <1>8, <2>1, ClerkIsKept DEF Unlocked, RowSame
<1>10. ASSUME NEW p \in Orders PROVE RowInv(p)'
  <2>1. CASE p # o
    <3>1. CommittedBefore(p)
      BY <1>1, <1>2, <1>4, <2>1 DEF CommittedBefore
    <3> QED
      BY <1>2, <1>4, <1>5, <1>8, <2>1, <3>1, RowIsKept DEF WireMoves, LinksGrow
  <2>2. CASE p = o
    BY <1>2, <1>3, <1>4, <2>2, AtIntent
    DEF RowInv, StageInv, AttemptInv, IdentityInv, EndInv, AlarmInv, Outcomes, TERMINAL_ORDER_STATUSES
  <2> QED
    BY <2>1, <2>2
<1> QED
  BY <1>5, <1>6, <1>7, <1>9, <1>10 DEF TruthInv
-----------------------------------------------------------------------------
(* The outcome of a request, recorded by the session that carries it. *)

\* What a session knows of the order it is about to record an outcome for.
LEMMA AtOutcome ==
  ASSUME TruthInv, NEW s \in Sessions, AboutToRecord(s)
  PROVE  /\ holds[s] \in Orders /\ Carries(s) /\ Unlocked(holds[s])
         /\ attempt[holds[s]] = "open" /\ evidenceId[holds[s]] = None
         /\ SessionInv(s) /\ RowInv(holds[s]) /\ TypeOK
         /\ \A t \in Sessions \ {s} : ~(Carries(t) /\ holds[t] = holds[s])
<1>1. pc[s] \in {"answered", "retry"} /\ Unlocked(holds[s]) /\ holds[s] \in Orders
  BY AtSession DEF AboutToRecord
<1>2. Carries(s) /\ SessionInv(s) /\ RowInv(holds[s]) /\ TypeOK
  BY <1>1 DEF Carries, TruthInv, OnceInv, TypeInv
<1>3. attempt[holds[s]] = "open" /\ evidenceId[holds[s]] = None
  BY <1>2 DEF SessionInv, RowInv, AttemptInv
<1>4. \A t \in Sessions \ {s} : ~(Carries(t) /\ holds[t] = holds[s])
  BY <1>2 DEF TruthInv, OneCarrier
<1> QED
  BY <1>1, <1>2, <1>3, <1>4

\* The attempt is closed with the truth.
LEMMA AttemptIsClosed ==
  ASSUME TruthInv, NEW s \in Sessions, NEW o \in Orders, o = holds[s], AboutToRecord(s), CloseAttempt(s),
         UNCHANGED netVars, ackId[s] # None => brokerId'[o] # None
  PROVE  /\ attempt'[o] \in Outcomes /\ evidenceId'[o] = ackId[s] /\ AttemptInv(o)'
         /\ \A p \in Orders \ {o} : attempt'[p] = attempt[p] /\ evidenceId'[p] = evidenceId[p]
<1>1. SessionInv(s) /\ TypeOK
  BY AtOutcome
<1>2. /\ attempt'[o] = OutcomeOf(answer[s]) /\ evidenceId'[o] = ackId[s]
      /\ \A p \in Orders \ {o} : attempt'[p] = attempt[p] /\ evidenceId'[p] = evidenceId[p]
  BY <1>1 DEF CloseAttempt, TypeOK
<1>3. attempt'[o] \in Outcomes
  BY <1>2 DEF OutcomeOf, Outcomes
<1>4. ackId[s] # None => book'[ackId[s]].owner = o
  BY <1>1 DEF SessionInv, netVars
<1>5. /\ attempt'[o] = "not_transmitted" => sent'[o] = 0
      /\ attempt'[o] = "accepted" => ackId[s] # None
      /\ attempt'[o] = "rejected" /\ ackId[s] = None => wire'[o] = "refused"
  BY <1>1, <1>2 DEF OutcomeOf, SessionInv, netVars, Trusted, Ended
<1>6. AttemptInv(o)'
  BY <1>2, <1>3, <1>4, <1>5 DEF AttemptInv, Outcomes
<1> QED
  BY <1>2, <1>3, <1>6

LEMMA LateIsRecorded ==
  ASSUME TruthInv, OnceInv', NEW s \in Sessions, RecordLate(s)
  PROVE  TruthInv'
<1>1. PICK o \in Orders : o = holds[s]
  BY AtOutcome DEF RecordLate
<1>2. /\ AboutToRecord(s) /\ status[o] # "submission_unknown" /\ CloseAttempt(s) /\ Finish(s) /\ Forget(s)
      /\ UNCHANGED <<status, brokerId, filled, alarms, clerkVars, netVars>>
      /\ conflict' = [conflict EXCEPT ![o] =
           conflict[o] \/ (ackId[s] # None /\ brokerId[o] # None /\ ackId[s] # brokerId[o])]
  BY <1>1 DEF RecordLate
<1>3. /\ attempt[o] = "open" /\ RowInv(o) /\ TypeOK /\ Carries(s) /\ Unlocked(o)
      /\ \A t \in Sessions \ {s} : ~(Carries(t) /\ holds[t] = o)
  BY <1>1, <1>2, AtOutcome
<1>4. brokerId[o] # None
  BY <1>2, <1>3 DEF RowInv, StageInv
<1>5. /\ attempt'[o] \in Outcomes /\ evidenceId'[o] = ackId[s] /\ AttemptInv(o)'
      /\ \A p \in Orders \ {o} : attempt'[p] = attempt[p] /\ evidenceId'[p] = evidenceId[p]
  BY <1>1, <1>2, <1>4, AttemptIsClosed
<1>6. StageInv(o)' /\ AlarmInv(o)'
  BY <1>2, <1>3, <1>4, <1>5 DEF RowInv, StageInv, AlarmInv, netVars, Outcomes
<1>7. IdentityInv(o)'
  <2>1. ackId[s] \notin {None, brokerId[o]} => conflict'[o]
    BY <1>2, <1>3, <1>4 DEF TypeOK
  <2> QED
    BY <1>2, <1>3, <1>4, <1>5, <2>1 DEF RowInv, IdentityInv, netVars, MayBe
<1>8. EndInv(o)'
  <2>1. \A t \in Sessions : ~(pc'[t] = "committed" /\ holds'[t] = o)
    BY <1>1, <1>2, <1>3, AtSession, NamesAreApart DEF Finish, Carries
  <2> QED
    BY <1>2, <1>3, <2>1 DEF RowInv, EndInv, netVars
<1>9. EndsWriting(s, o)
  <2>1. \A p \in Orders \ {o} : RowSame(p)
    BY <1>2, <1>3, <1>5 DEF RowSame, TypeOK
  <2>2. \A t \in Sessions \ {s} : fresh'[t] => fresh[t]
    BY <1>2, AtSession DEF Forget
  <2>3. pc[s] # "idle"
    BY <1>3 DEF Carries
  <2> QED
    BY <1>1, <1>2, <1>3, <2>1, <2>2, <2>3 DEF EndsWriting
<1> QED
  BY <1>5, <1>6, <1>7, <1>8, <1>9, WritingPreserves DEF RowInv

\* A session that still finds its order unknown and has a current copy of it.
Concludes(s, o) ==
  /\ o = holds[s] /\ StillUnknown(s) /\ fresh[s] /\ CloseAttempt(s) /\ Finish(s)
  /\ fresh' = OthersStale(o)
  /\ UNCHANGED <<clerkVars, netVars>>

LEMMA OutcomePreserves ==
  ASSUME TruthInv, OnceInv', NEW s \in Sessions, NEW o \in Orders, Concludes(s, o),
         \A p \in Orders \ {o} : /\ status'[p] = status[p] /\ brokerId'[p] = brokerId[p]
                                  /\ filled'[p] = filled[p] /\ alarms'[p] = alarms[p]
                                  /\ conflict'[p] = conflict[p],
         brokerId'[o] = IF ackId[s] # None THEN ackId[s] ELSE brokerId[o],
         status'[o] \in {"submission_unknown", "accepted"} \cup TERMINAL_ORDER_STATUSES,
         status'[o] = "accepted" => ackId[s] # None,
         status'[o] = "submission_unknown" => filled'[o] = 0 /\ alarms'[o] > 0,
         brokerId'[o] = None /\ status'[o] # "submission_unknown" => wire[o] \in {"none", "refused"},
         o \notin DryRun \cup LookAlikes =>
           /\ brokerId'[o] # None => filled'[o] <= book[brokerId'[o]].fill
           /\ status'[o] \in TERMINAL_ORDER_STATUSES =>
                /\ wire[o] # "flying"
                /\ \A b \in BrokerIds : book[b].owner = o =>
                     book[b].state = status'[o] /\ book[b].fill = filled'[o]
  PROVE  TruthInv'
<1> USE DEF Concludes
<1>1. AboutToRecord(s)
  BY DEF StillUnknown
<1>2. /\ SessionInv(s) /\ RowInv(o) /\ TypeOK /\ Carries(s) /\ Unlocked(o)
      /\ \A t \in Sessions \ {s} : ~(Carries(t) /\ holds[t] = o)
  BY <1>1, AtOutcome
<1>3. ackId[s] # None => brokerId'[o] = ackId[s] /\ book[ackId[s]].owner = o
  BY <1>2 DEF SessionInv
<1>4. /\ attempt'[o] \in Outcomes /\ evidenceId'[o] = ackId[s] /\ AttemptInv(o)'
      /\ \A p \in Orders \ {o} : attempt'[p] = attempt[p] /\ evidenceId'[p] = evidenceId[p]
  BY <1>1, <1>3, AttemptIsClosed
<1>5. StageInv(o)'
  BY <1>2, <1>3, <1>4 DEF RowInv, StageInv, netVars, Outcomes, TERMINAL_ORDER_STATUSES
<1>6. AlarmInv(o)'
  BY DEF AlarmInv
<1>7. IdentityInv(o)'
  <2>1. CASE ackId[s] # None
    BY <1>3, <1>4, <2>1 DEF IdentityInv, MayBe, netVars
  <2>2. CASE ackId[s] = None
    BY <1>2, <1>4, <2>2 DEF RowInv, IdentityInv, MayBe, netVars
  <2> QED
    BY <2>1, <2>2
<1>8. EndInv(o)'
  <2>1. \A t \in Sessions : ~(pc'[t] = "committed" /\ holds'[t] = o)
    BY <1>2, AtSession, NamesAreApart DEF Finish, Carries
  <2> QED
    BY <2>1 DEF EndInv, netVars
<1>9. EndsWriting(s, o)
  <2>1. \A p \in Orders \ {o} : RowSame(p)
    BY <1>4 DEF RowSame
  <2>2. \A t \in Sessions \ {s} : fresh'[t] => fresh[t] /\ holds[t] # o
    BY DEF OthersStale
  <2>3. pc[s] # "idle"
    BY <1>2 DEF Carries
  <2> QED
    BY <1>2, <1>3, <2>1, <2>2, <2>3 DEF EndsWriting
<1> QED
  BY <1>4, <1>5, <1>6, <1>7, <1>8, <1>9, WritingPreserves DEF RowInv

LEMMA NoOrderIsRecorded ==
  ASSUME TruthInv, OnceInv', NEW s \in Sessions, RecordNoOrder(s)
  PROVE  TruthInv'
<1>1. PICK o \in Orders : o = holds[s]
  BY AtOutcome DEF RecordNoOrder, StillUnknown
<1>2. /\ Concludes(s, o) /\ answer[s] \in {"not_transmitted", "refused"}
      /\ status' = [status EXCEPT ![o] = IF answer[s] = "refused" THEN "rejected" ELSE "error"]
      /\ UNCHANGED <<brokerId, filled, alarms, conflict>>
  BY <1>1 DEF RecordNoOrder, Concludes
<1>3. SessionInv(s) /\ RowInv(o) /\ TypeOK
  BY <1>1, <1>2, AtOutcome DEF Concludes, StillUnknown
<1>4. wire[o] \in {"none", "refused"} /\ ackId[s] = None
  BY <1>1, <1>2, <1>3 DEF SessionInv, RowInv, StageInv
<1>5. \A b \in BrokerIds : book[b].owner # o
  BY <1>4 DEF TruthInv, BookInv
<1>6. o \notin LookAlikes => brokerId[o] = None
  <2> SUFFICES ASSUME o \notin LookAlikes, brokerId[o] # None PROVE FALSE
    OBVIOUS
  <2>1. brokerId[o] \in BrokerIds /\ book[brokerId[o]].owner = o
    BY <1>3, IdsAreTaken DEF RowInv, IdentityInv, MayBe
  <2> QED
    BY <1>5, <2>1
<1>7. status'[o] \in {"rejected", "error"} /\ \A p \in Orders \ {o} : status'[p] = status[p]
  BY <1>2, <1>3 DEF TypeOK
<1>8. status'[o] \in TERMINAL_ORDER_STATUSES /\ status'[o] \notin {"accepted", "submission_unknown"}
  BY <1>7 DEF TERMINAL_ORDER_STATUSES
<1>9. brokerId'[o] = (IF ackId[s] # None THEN ackId[s] ELSE brokerId[o]) /\ wire[o] # "flying"
  BY <1>2, <1>4
<1> QED
  BY <1>2, <1>4, <1>5, <1>6, <1>7, <1>8, <1>9, OutcomePreserves

LEMMA UnknownIsRecorded ==
  ASSUME TruthInv, OnceInv', NEW s \in Sessions, RecordUnknownOutcome(s)
  PROVE  TruthInv'
<1>1. PICK o \in Orders : o = holds[s]
  BY AtOutcome DEF RecordUnknownOutcome, StillUnknown
<1>2. /\ Concludes(s, o)
      /\ brokerId' = [brokerId EXCEPT ![o] = IF ackId[s] # None THEN ackId[s] ELSE brokerId[o]]
      /\ alarms' = [alarms EXCEPT ![o] = alarms[o] + 1]
      /\ UNCHANGED <<status, filled, conflict>>
  BY <1>1 DEF RecordUnknownOutcome, Concludes
<1>3. SessionInv(s) /\ RowInv(o) /\ TypeOK /\ status[o] = "submission_unknown"
  BY <1>1, <1>2, AtOutcome DEF Concludes, StillUnknown
<1>4. filled[o] = 0 /\ alarms[o] \in Nat
  BY <1>3 DEF RowInv, StageInv, TypeOK
<1>5. /\ brokerId'[o] = IF ackId[s] # None THEN ackId[s] ELSE brokerId[o]
      /\ alarms'[o] > 0
      /\ \A p \in Orders \ {o} : brokerId'[p] = brokerId[p] /\ alarms'[p] = alarms[p]
  BY <1>2, <1>3, <1>4 DEF TypeOK
<1>6. brokerId'[o] # None => 0 <= book[brokerId'[o]].fill
  <2> SUFFICES ASSUME brokerId'[o] # None PROVE 0 <= book[brokerId'[o]].fill
    OBVIOUS
  <2>1. brokerId'[o] \in BrokerIds
    BY <1>5, IdsAreTaken
  <2> QED
    BY <1>3, <2>1, QtyPositive DEF TypeOK, BrokerOrder
<1>7. status'[o] = "submission_unknown" /\ status'[o] \notin TERMINAL_ORDER_STATUSES
  BY <1>2, <1>3 DEF TERMINAL_ORDER_STATUSES
<1> QED
  BY <1>2, <1>4, <1>5, <1>6, <1>7, OutcomePreserves

LEMMA AcknowledgementIsRecorded ==
  ASSUME TruthInv, OnceInv', NEW s \in Sessions, RecordAcknowledgement(s)
  PROVE  TruthInv'
<1>1. PICK o \in Orders : o = holds[s]
  BY AtOutcome DEF RecordAcknowledgement, StillUnknown
<1>2. /\ Concludes(s, o) /\ answer[s] \in Trusted
      /\ brokerId' = [brokerId EXCEPT ![o] = ackId[s]]
      /\ status' = [status EXCEPT ![o] = answer[s]]
      /\ filled' = [filled EXCEPT ![o] = IF answer[s] = "filled" THEN Qty ELSE filled[o]]
      /\ UNCHANGED <<alarms, conflict>>
  BY <1>1 DEF RecordAcknowledgement, Concludes
<1>3. SessionInv(s) /\ RowInv(o) /\ TypeOK /\ status[o] = "submission_unknown"
  BY <1>1, <1>2, AtOutcome DEF Concludes, StillUnknown
<1>4. filled[o] = 0
  BY <1>3 DEF RowInv, StageInv
<1>5. /\ brokerId'[o] = ackId[s] /\ status'[o] = answer[s]
      /\ filled'[o] = IF answer[s] = "filled" THEN Qty ELSE 0
      /\ \A p \in Orders \ {o} : status'[p] = status[p] /\ brokerId'[p] = brokerId[p] /\ filled'[p] = filled[p]
  BY <1>2, <1>3, <1>4 DEF TypeOK
<1>6. ackId[s] # None /\ ackId[s] \in BrokerIds /\ book[ackId[s]].owner = o
  BY <1>1, <1>2, <1>3, IdsAreTaken DEF SessionInv
<1>7. /\ wire[o] = "taken"
      /\ \A b \in BrokerIds : book[b].owner = o => b = ackId[s]
  BY <1>6 DEF TruthInv, BookInv
<1>8. /\ answer[s] \in Ended => book[ackId[s]].state = answer[s] /\ book[ackId[s]].fill = filled'[o]
      /\ filled'[o] <= book[ackId[s]].fill
  <2>1. book[ackId[s]].fill \in 0..Qty
    BY <1>3, <1>6 DEF TypeOK, BrokerOrder
  <2>2. answer[s] = "filled" => book[ackId[s]].state = "filled" /\ book[ackId[s]].fill = Qty
    BY <1>3, <1>6 DEF SessionInv, Ended, TruthInv, BookInv
  <2>3. answer[s] \in {"cancelled", "rejected"} => book[ackId[s]].state = answer[s] /\ book[ackId[s]].fill = 0
    BY <1>3 DEF SessionInv, Ended
  <2> QED
    BY <1>5, <2>1, <2>2, <2>3, QtyPositive DEF Ended
<1>9. answer[s] \in Ended <=> answer[s] \in TERMINAL_ORDER_STATUSES
  BY <1>2 DEF Trusted, Ended, TERMINAL_ORDER_STATUSES
<1>10. /\ status'[o] \in {"submission_unknown", "accepted"} \cup TERMINAL_ORDER_STATUSES
       /\ status'[o] # "submission_unknown" /\ wire[o] # "flying"
  BY <1>2, <1>5, <1>7, <1>9 DEF Trusted, Ended
<1> QED
  BY <1>2, <1>5, <1>6, <1>7, <1>8, <1>9, <1>10, OutcomePreserves
-----------------------------------------------------------------------------
(* Other hands on the row. *)

\* Whoever writes the row of o without being a session that runs it.
AnotherHand(o) ==
  /\ UNCHANGED <<pc, holds, answer, ackId, attempt, evidenceId, netVars>>
  /\ \A p \in Orders \ {o} : RowSame(p)
  /\ brokerId[o] # None => brokerId'[o] = brokerId[o]
  /\ \A t \in Sessions : fresh'[t] => fresh[t] /\ holds[t] # o

LEMMA AnotherHandPreserves ==
  ASSUME TruthInv, OnceInv', NEW o \in Orders, AnotherHand(o), RowInv(o)',
         \A c \in Clerks : ClerkInv(c)'
  PROVE  TruthInv'
<1> USE DEF AnotherHand, netVars
<1>1. BookGrows /\ BookInv'
  BY BookIsKept
<1>2. OneCarrier'
  BY CarriersAreKept DEF Carries
<1>3. ASSUME NEW t \in Sessions PROVE SessionInv(t)'
  <2>1. pc[t] # "idle" => holds[t] \in Orders
    BY AtSession
  <2>2. fresh'[t] /\ pc[t] = "loaded" => status'[holds[t]] = status[holds[t]]
    BY <2>1 DEF RowSame
  <2> QED
    BY <1>1, <2>2, SessionIsKept DEF SessionSame, WireMoves
<1>4. TypeOK'
  BY DEF OnceInv, TypeInv
<1>5. ASSUME NEW p \in Orders \ {o} PROVE RowInv(p)'
  <2>1. CommittedBefore(p)
    BY DEF CommittedBefore
  <2>2. LinksGrow
    BY DEF LinksGrow, RowSame
  <2> QED
    BY <1>1, <1>4, <2>1, <2>2, RowIsKept DEF WireMoves
<1> QED
  BY <1>1, <1>2, <1>3, <1>5 DEF TruthInv

LEMMA UnlockedPreserves ==
  ASSUME TruthInv, OnceInv', NEW o \in Orders, AnotherHand(o), RowInv(o)', Unlocked(o), UNCHANGED clerkVars
  PROVE  TruthInv'
<1>1. BookGrows
  BY BookIsKept DEF AnotherHand, netVars
<1>2. TypeOK' /\ \A c \in Clerks : c # None
  BY NamesAreApart DEF OnceInv, TypeInv
<1>3. ASSUME NEW c \in Clerks PROVE ClerkInv(c)'
  BY <1>1, <1>2, ClerkIsKept DEF Unlocked, AnotherHand, RowSame, clerkVars
<1> QED
  BY <1>3, AnotherHandPreserves

LEMMA CancelPreserves ==
  ASSUME TruthInv, OnceInv', NEW o \in Orders, CancelLocally(o)
  PROVE  TruthInv'
<1>1. RowInv(o) /\ TypeOK
  BY DEF TruthInv, OnceInv, TypeInv
<1>2. status[o] = "pending_intent"
  <2>1. /\ status[o] # "cancelled" /\ status[o] # "submission_unknown" /\ brokerId[o] = None
        /\ can_transition_order_status(status[o], "cancelled")
    BY DEF CancelLocally
  <2>2. status[o] \notin TERMINAL_ORDER_STATUSES
    BY <2>1 DEF can_transition_order_status, ORDER_STATUS_TRANSITIONS, KNOWN_ORDER_STATUSES,
                ACTIVE_ORDER_STATUSES, TERMINAL_ORDER_STATUSES
  <2> QED
    BY <1>1, <2>1, <2>2 DEF RowInv, StageInv
<1>3. /\ status'[o] = "cancelled" /\ \A p \in Orders \ {o} : RowSame(p)
      /\ \A t \in Sessions : fresh'[t] => fresh[t] /\ holds[t] # o
  BY <1>1 DEF CancelLocally, RowSame, OthersStale, TypeOK
<1>4. RowInv(o)'
  BY <1>2, <1>3, IntentIsClosed DEF CancelLocally, TERMINAL_ORDER_STATUSES, CommittedBefore
<1>5. AnotherHand(o)
  BY <1>3 DEF CancelLocally, AnotherHand
<1> QED
  BY <1>4, <1>5, UnlockedPreserves DEF CancelLocally

\* A broker order that is in the book under the name of o is all there is of it.
LEMMA OneInTheBook ==
  ASSUME TruthInv, NEW o \in Orders, NEW b \in BrokerIds, book[b].owner = o
  PROVE  /\ wire[o] = "taken"
         /\ \A x \in BrokerIds : book[x].owner = o => x = b
         /\ \A t \in Sessions : ~(pc[t] = "committed" /\ holds[t] = o)
<1>1. wire[o] = "taken" /\ \A x \in BrokerIds : book[x].owner = o => x = b
  BY DEF TruthInv, BookInv
<1>2. sent[o] # 0
  BY <1>1 DEF TruthInv, RowInv, StageInv
<1>3. \A t \in Sessions : ~(pc[t] = "committed" /\ holds[t] = o)
  BY <1>2 DEF TruthInv, OnceInv, CommittedNotSent
<1> QED
  BY <1>1, <1>3

LEMMA ReadPreserves ==
  ASSUME TruthInv, OnceInv', NEW o \in Orders,
         ReadRefused(o) \/ RecordStillOpen(o) \/ RecordFinalState(o)
  PROVE  TruthInv'
<1>1. ReadById(o) /\ RowInv(o) /\ TypeOK
  BY DEF ReadRefused, RecordStillOpen, RecordFinalState, TruthInv, OnceInv, TypeInv
<1>2. /\ Unlocked(o) /\ brokerId[o] # None
      /\ UNCHANGED <<brokerId, attempt, evidenceId, alarms, conflict, pc, holds, answer, ackId, clerkVars, netVars>>
      /\ \A t \in Sessions : fresh'[t] => fresh[t] /\ holds[t] # o
  BY <1>1 DEF ReadById, OthersStale
<1>3. status[o] \in {"submission_unknown", "accepted"}
  BY <1>1 DEF ReadById, RowInv, StageInv, ACTIVE_ORDER_STATUSES, TERMINAL_ORDER_STATUSES
<1>4. brokerId[o] \in BrokerIds /\ book[brokerId[o]] \in BrokerOrder
  BY <1>1, <1>2, IdsAreTaken DEF TypeOK
<1>5. \A p \in Orders \ {o} : RowSame(p)
  BY <1>1, <1>2 DEF ReadRefused, RecordStillOpen, RecordFinalState, RowSame, TypeOK
<1>6. AnotherHand(o)
  BY <1>2, <1>5 DEF AnotherHand
<1>7. CASE ReadRefused(o)
  <2>1. RowInv(o)'
    BY <1>1, <1>2, <1>7 DEF ReadRefused, RowInv, StageInv, AttemptInv, IdentityInv, EndInv, AlarmInv, MayBe, netVars
  <2> QED
    BY <1>2, <1>6, <2>1, UnlockedPreserves
<1>8. CASE RecordStillOpen(o)
  <2>1. status'[o] = "accepted" /\ filled' = filled
    BY <1>1, <1>3, <1>8 DEF RecordStillOpen, TypeOK
  <2>2. RowInv(o)'
    BY <1>1, <1>2, <2>1
    DEF RowInv, StageInv, AttemptInv, IdentityInv, EndInv, AlarmInv, MayBe, netVars, TERMINAL_ORDER_STATUSES
  <2> QED
    BY <1>2, <1>6, <2>2, UnlockedPreserves
<1>9. CASE RecordFinalState(o)
  <2> DEFINE entry == book[brokerId[o]]
  <2>1. /\ entry.state \in Ended /\ status'[o] = entry.state
        /\ filled'[o] = CASE entry.state = "filled"  -> Qty
                          [] entry.fill < filled[o]  -> filled[o]
                          [] OTHER                   -> entry.fill
    BY <1>1, <1>9 DEF RecordFinalState, TypeOK
  <2>2. status'[o] \in TERMINAL_ORDER_STATUSES /\ status'[o] \notin {"accepted", "submission_unknown", "pending_intent"}
    BY <2>1 DEF Ended, TERMINAL_ORDER_STATUSES
  <2>3. StageInv(o)' /\ AttemptInv(o)' /\ IdentityInv(o)' /\ AlarmInv(o)'
    BY <1>1, <1>2, <2>2 DEF RowInv, StageInv, AttemptInv, IdentityInv, AlarmInv, MayBe, netVars
  <2>4. ASSUME o \notin DryRun \cup LookAlikes
        PROVE  /\ filled'[o] = entry.fill /\ entry.owner = o
    <3>1. entry.owner = o /\ filled[o] <= entry.fill
      BY <1>1, <1>2, <2>4 DEF RowInv, IdentityInv, EndInv, MayBe
    <3>2. entry.state = "filled" => entry.fill = Qty
      BY <1>4 DEF TruthInv, BookInv
    <3>3. filled[o] \in 0..Qty /\ entry.fill \in 0..Qty
      BY <1>1, <1>4 DEF TypeOK, BrokerOrder
    <3>4. ~(entry.fill < filled[o])
      BY <3>1, <3>3, QtyPositive
    <3> QED
      BY <2>1, <3>1, <3>2, <3>4
  <2>5. EndInv(o)'
    <3> SUFFICES ASSUME o \notin DryRun \cup LookAlikes PROVE EndInv(o)'
      BY DEF EndInv
    <3>1. filled'[o] = entry.fill /\ entry.owner = o
      BY <2>4
    <3>2. /\ wire[o] = "taken"
          /\ \A x \in BrokerIds : book[x].owner = o => x = brokerId[o]
          /\ \A t \in Sessions : ~(pc[t] = "committed" /\ holds[t] = o)
      BY <1>4, <3>1, OneInTheBook
    <3>3. entry.fill <= entry.fill
      BY <1>4, QtyPositive DEF BrokerOrder
    <3> QED
      BY <1>2, <2>1, <3>1, <3>2, <3>3 DEF EndInv, netVars
  <2> QED
    BY <1>2, <1>6, <2>3, <2>5, UnlockedPreserves DEF RowInv
<1> QED
  BY <1>7, <1>8, <1>9

-----------------------------------------------------------------------------
(* The clerk's commit. *)

\* Nobody but o's clerk is disturbed when its row is let go.
LEMMA OtherClerks ==
  ASSUME TruthInv, TypeOK', NEW c \in Clerks, NEW o \in Orders, rowLock[o] = c, BookGrows,
         rowLock'[o] = None, phase'[c] = "idle", seen'[c] = {},
         \A p \in Orders \ {o} : rowLock'[p] = rowLock[p] /\ status'[p] = status[p] /\ brokerId'[p] = brokerId[p],
         \A d \in Clerks \ {c} : phase'[d] = phase[d] /\ seen'[d] = seen[d]
  PROVE  \A d \in Clerks : ClerkInv(d)'
<1>1. \A d \in Clerks : d # None
  BY NamesAreApart
<1>2. ASSUME NEW d \in Clerks \ {c} PROVE ClerkInv(d)'
  BY <1>1, ClerkIsKept
<1>3. ClerkInv(c)'
  <2>1. \A p \in Orders : rowLock'[p] # c
    BY <1>1 DEF TruthInv, ClerkInv
  <2> QED
    BY <2>1 DEF ClerkInv
<1> QED
  BY <1>2, <1>3

\* What is adopted can be the order's own, or that of one that has another identity.
LEMMA AdoptedIsShared ==
  ASSUME TruthInv, NEW c \in Clerks, NEW o \in Orders, rowLock[o] = c, NEW r \in Claimable(c, o)
  PROVE  /\ RecordInv(o, r) /\ r \in Record /\ r.id \in BrokerIds /\ r.id # None
         /\ \A p \in Orders \ {o} : book[r.id].owner = p =>
              brokerId[p] # None /\ book[brokerId[p]].owner # o
<1>1. r \in seen[c] /\ ~FitsAnotherUnknownSubmission(o, r)
  BY DEF Claimable
<1>2. RecordInv(o, r) /\ r \in Record /\ r.id \in BrokerIds /\ r.id # None /\ brokerId[o] = None
  BY <1>1, IdsAreTaken, NamesAreApart DEF TruthInv, ClerkInv
<1>3. ASSUME NEW p \in Orders \ {o}, book[r.id].owner = p
      PROVE  brokerId[p] # None /\ book[brokerId[p]].owner # o
  <2>1. wire[p] = "taken" /\ RowInv(p)
    BY <1>2, <1>3 DEF TruthInv, BookInv
  <2>2. ~(status[p] = "submission_unknown" /\ brokerId[p] = None)
    BY <1>1, <1>3 DEF FitsAnotherUnknownSubmission, MatchesUnknownSubmission
  <2>3. brokerId[p] # None
    BY <2>1, <2>2 DEF RowInv, StageInv
  <2> QED
    BY <1>2, <2>1, <2>3 DEF RowInv, IdentityInv
<1> QED
  BY <1>2, <1>3

\* An unknown order, let go with its identity and perhaps with its end.
LEMMA AdoptionIsTrue ==
  ASSUME TruthInv, NEW c \in Clerks, NEW o \in Orders, rowLock[o] = c, NEW r \in Claimable(c, o),
         UNCHANGED <<attempt, evidenceId, pc, holds, netVars>>,
         \A p \in Orders \ {o} : RowSame(p),
         brokerId'[o] = r.id, alarms'[o] > 0,
         \/ status'[o] \in {"submission_unknown", "accepted"}
         \/ status'[o] = r.state /\ r.state \in Ended,
         status'[o] = "submission_unknown" => filled'[o] = 0,
         filled'[o] \in {0, r.fill} \/ (r.state = "filled" /\ filled'[o] = Qty),
         status'[o] \in Ended => filled'[o] = IF r.state = "filled" THEN Qty ELSE r.fill
  PROVE  RowInv(o)'
<1>1. /\ RecordInv(o, r) /\ r \in Record /\ r.id \in BrokerIds /\ r.id # None
      /\ \A p \in Orders \ {o} : book[r.id].owner = p =>
           brokerId[p] # None /\ book[brokerId[p]].owner # o
  BY AdoptedIsShared
<1>2. /\ TypeOK /\ RowInv(o) /\ brokerId[o] = None /\ status[o] = "submission_unknown"
      /\ book[r.id] \in BrokerOrder
  BY <1>1 DEF TruthInv, OnceInv, TypeInv, ClerkInv, TypeOK
<1>3. evidenceId[o] = None
  BY <1>2 DEF RowInv, AttemptInv
<1>4. /\ status'[o] # "pending_intent"
      /\ status'[o] \in {"submission_unknown", "accepted"} \cup TERMINAL_ORDER_STATUSES
      /\ status'[o] \in TERMINAL_ORDER_STATUSES => status'[o] = r.state /\ r.state \in Ended /\ status'[o] \in Ended
  BY DEF Ended, TERMINAL_ORDER_STATUSES
<1>5. StageInv(o)' /\ AttemptInv(o)' /\ AlarmInv(o)'
  BY <1>1, <1>2, <1>3, <1>4 DEF RowInv, StageInv, AttemptInv, AlarmInv, netVars
<1>6. IdentityInv(o)'
  BY <1>1, <1>3 DEF IdentityInv, RecordInv, MayBe, netVars, RowSame
<1>7. EndInv(o)'
  <2> SUFFICES ASSUME o \notin DryRun \cup LookAlikes PROVE EndInv(o)'
    BY DEF EndInv
  <2>1. book[r.id].owner = o
    BY <1>1 DEF RecordInv, MayBe
  <2>2. /\ wire[o] = "taken"
        /\ \A x \in BrokerIds : book[x].owner = o => x = r.id
        /\ \A t \in Sessions : ~(pc[t] = "committed" /\ holds[t] = o)
    BY <1>1, <2>1, OneInTheBook
  <2>3. /\ r.state \in Ended => book[r.id].state = r.state /\ book[r.id].fill = r.fill
        /\ r.fill <= book[r.id].fill
        /\ book[r.id].state = "filled" => book[r.id].fill = Qty
    BY <1>1 DEF RecordInv, TruthInv, BookInv
  <2>4. book[r.id].fill \in 0..Qty /\ r.fill \in 0..Qty
    BY <1>1, <1>2 DEF Record, BrokerOrder
  <2>5. r.state = "filled" => r.fill = Qty /\ book[r.id].fill = Qty
    BY <2>3 DEF Ended
  <2>6. filled'[o] <= book[r.id].fill
    BY <2>3, <2>4, <2>5, QtyPositive
  <2>7. status'[o] \in TERMINAL_ORDER_STATUSES => status'[o] = book[r.id].state /\ filled'[o] = book[r.id].fill
    BY <1>4, <2>3, <2>5
  <2> QED
    BY <2>2, <2>6, <2>7 DEF EndInv, netVars
<1> QED
  BY <1>5, <1>6, <1>7 DEF RowInv

LEMMA ReleasePreserves ==
  ASSUME TruthInv, OnceInv', NEW c \in Clerks, NEW o \in Orders,
         LeaveUnresolved(c, o) \/ Identify(c, o) \/ Settle(c, o)
  PROVE  TruthInv'
<1>1. Release(c, o) /\ rowLock[o] = c /\ TypeOK /\ TypeOK'
  BY DEF LeaveUnresolved, Identify, Settle, Release, TruthInv, OnceInv, TypeInv
<1>2. /\ UNCHANGED <<attempt, evidenceId, conflict, pc, holds, answer, ackId, netVars>>
      /\ \A t \in Sessions : fresh'[t] => fresh[t] /\ holds[t] # o
      /\ rowLock'[o] = None /\ phase'[c] = "idle" /\ seen'[c] = {}
      /\ \A p \in Orders \ {o} : rowLock'[p] = rowLock[p] /\ alarms'[p] = alarms[p]
      /\ \A d \in Clerks \ {c} : phase'[d] = phase[d] /\ seen'[d] = seen[d]
      /\ alarms'[o] > 0
  <2>1. UNCHANGED <<attempt, evidenceId, conflict, pc, holds, answer, ackId, netVars>>
    BY <1>1 DEF Release
  <2>2. \A t \in Sessions : fresh'[t] => fresh[t] /\ holds[t] # o
    BY <1>1 DEF Release, OthersStale
  <2>3. /\ rowLock'[o] = None /\ phase'[c] = "idle" /\ seen'[c] = {}
        /\ \A p \in Orders \ {o} : rowLock'[p] = rowLock[p]
        /\ \A d \in Clerks \ {c} : phase'[d] = phase[d] /\ seen'[d] = seen[d]
    BY <1>1 DEF Release, TypeOK
  <2>4. /\ alarms[o] \in Nat /\ alarms'[o] = (IF alarms[o] = 0 THEN 1 ELSE alarms[o])
        /\ \A p \in Orders \ {o} : alarms'[p] = alarms[p]
    BY <1>1 DEF Release, TypeOK
  <2>5. alarms'[o] > 0
    BY <2>4
  <2> QED
    BY <2>1, <2>2, <2>3, <2>4, <2>5
<1>3. RowInv(o) /\ status[o] = "submission_unknown" /\ brokerId[o] = None /\ filled[o] = 0
  BY <1>1 DEF TruthInv, ClerkInv, RowInv, StageInv
<1>4. \A p \in Orders \ {o} : RowSame(p)
  BY <1>1, <1>2 DEF LeaveUnresolved, Identify, Settle, RowSame, TypeOK
<1>5. RowInv(o)'
  <2>1. CASE LeaveUnresolved(c, o)
    BY <1>2, <1>3, <2>1
    DEF LeaveUnresolved, RowInv, StageInv, AttemptInv, IdentityInv, EndInv, AlarmInv, netVars
  <2>2. CASE Identify(c, o)
    <3>1. PICK r \in Claimable(c, o) : brokerId' = [brokerId EXCEPT ![o] = r.id]
      BY <2>2 DEF Identify
    <3>2. brokerId'[o] = r.id /\ status'[o] = "submission_unknown" /\ filled'[o] = 0
      BY <1>1, <1>3, <2>2, <3>1 DEF Identify, TypeOK
    <3>3. status'[o] \notin Ended
      BY <3>2 DEF Ended
    <3> QED
      BY <1>1, <1>2, <1>4, <3>2, <3>3, AdoptionIsTrue
  <2>3. CASE Settle(c, o)
    <3>1. PICK r \in Claimable(c, o) :
            /\ brokerId' = [brokerId EXCEPT ![o] = r.id]
            /\ status' = [status EXCEPT ![o] = IF r.state = "working" THEN "accepted" ELSE r.state]
            /\ filled' = [filled EXCEPT ![o] = CASE r.state = "filled" -> Qty
                                                 [] r.fill > 0         -> r.fill
                                                 [] OTHER              -> filled[o]]
      BY <2>3 DEF Settle
    <3>2. r \in Record /\ (r.state = "filled" => r.fill = Qty)
      BY <1>1, AdoptedIsShared DEF RecordInv, Ended, TruthInv, BookInv
    <3>3. r.state \in {"working"} \cup Ended /\ r.fill \in 0..Qty
      BY <3>2 DEF Record
    <3>4. /\ brokerId'[o] = r.id
          /\ status'[o] = IF r.state = "working" THEN "accepted" ELSE r.state
          /\ filled'[o] = CASE r.state = "filled" -> Qty
                            [] r.fill > 0         -> r.fill
                            [] OTHER              -> 0
      BY <1>1, <1>3, <3>1 DEF TypeOK
    <3>5. /\ status'[o] = "accepted" \/ (status'[o] = r.state /\ r.state \in Ended)
          /\ status'[o] # "submission_unknown"
      BY <3>3, <3>4 DEF Ended
    <3>6. filled'[o] = IF r.state = "filled" THEN Qty ELSE r.fill
      <4>1. CASE r.state = "filled"
        BY <3>2, <3>4, <4>1
      <4>2. CASE r.state # "filled"
        <5>1. CASE r.fill > 0
          BY <3>4, <4>2, <5>1
        <5>2. CASE ~(r.fill > 0)
          <6>1. r.fill = 0
            BY <3>3, <5>2, QtyPositive
          <6> QED
            BY <3>4, <4>2, <5>2, <6>1
        <5> QED
          BY <5>1, <5>2
      <4> QED
        BY <4>1, <4>2
    <3> QED
      BY <1>1, <1>2, <1>4, <3>4, <3>5, <3>6, AdoptionIsTrue
  <2> QED
    BY <2>1, <2>2, <2>3
<1>6. BookGrows
  BY <1>2, BookIsKept DEF netVars
<1>7. \A d \in Clerks : ClerkInv(d)'
  BY <1>1, <1>2, <1>4, <1>6, OtherClerks DEF RowSame
<1>8. AnotherHand(o)
  BY <1>2, <1>3, <1>4 DEF AnotherHand
<1> QED
  BY <1>5, <1>7, <1>8, AnotherHandPreserves

-----------------------------------------------------------------------------
(* Steps that write no row and concern no session: clerks that read, the broker, time. *)

LEMMA ElsewherePreserves ==
  ASSUME TruthInv, OnceInv', UNCHANGED <<rowVars, sessionVars, sent>>, BookGrows, BookInv',
         \A o \in Orders : WireMoves(o),
         \A o \in Orders, b \in BrokerIds :
           book'[b].owner = o => book[b].owner = o \/ wire[o] = "flying",
         \A c \in Clerks : ClerkInv(c)'
  PROVE  TruthInv'
<1> USE DEF rowVars, sessionVars
<1>1. OneCarrier'
  BY CarriersAreKept DEF Carries
<1>2. ASSUME NEW s \in Sessions PROVE SessionInv(s)'
  <2>1. Carries(s) => holds[s] \in Orders
    BY AtSession DEF Carries
  <2> QED
    BY <2>1, SessionIsKept DEF SessionSame
<1>3. ASSUME NEW o \in Orders PROVE RowInv(o)'
  <2>1. RowSame(o) /\ LinksGrow /\ CommittedBefore(o) /\ TypeOK'
    BY DEF RowSame, LinksGrow, CommittedBefore, OnceInv, TypeInv
  <2> QED
    BY <2>1, RowIsKept
<1> QED
  BY <1>1, <1>2, <1>3 DEF TruthInv

LEMMA BrokerPreserves ==
  ASSUME TruthInv, OnceInv', UNCHANGED <<rowVars, sessionVars, clerkVars, sent>>, BookGrows, BookInv',
         \A o \in Orders : WireMoves(o),
         \A o \in Orders, b \in BrokerIds :
           book'[b].owner = o => book[b].owner = o \/ wire[o] = "flying"
  PROVE  TruthInv'
<1>1. TypeOK'
  BY DEF OnceInv, TypeInv
<1>2. ASSUME NEW c \in Clerks PROVE ClerkInv(c)'
  BY <1>1, ClerkIsKept DEF rowVars, clerkVars
<1> QED
  BY <1>2, ElsewherePreserves
LEMMA ClerkReads ==
  ASSUME TruthInv, OnceInv', NEW c \in Clerks, NEW o \in Orders,
         LookUp(c, o) \/ ReadHistory(c, o) \/ HistoryUnusable(c, o) \/ DropLinked(c, o) \/ ClerkFails(c, o)
  PROVE  TruthInv'
<1>1. /\ UNCHANGED <<rowVars, sessionVars, netVars>>
      /\ TypeOK /\ TypeOK' /\ ClerkInv(c)
  BY DEF LookUp, ReadHistory, HistoryUnusable, DropLinked, ClerkFails, TruthInv, OnceInv, TypeInv
<1>2. BookGrows /\ BookInv'
  BY <1>1, BookIsKept DEF netVars
<1>3. /\ rowLock'[o] \in {c, None}
      /\ \A p \in Orders \ {o} : rowLock'[p] = rowLock[p]
      /\ \A d \in Clerks \ {c} : phase'[d] = phase[d] /\ seen'[d] = seen[d]
  BY <1>1 DEF LookUp, ReadHistory, HistoryUnusable, DropLinked, ClerkFails, TypeOK
<1>4. \A d \in Clerks : d # None
  BY NamesAreApart
<1>5. ASSUME NEW d \in Clerks \ {c} PROVE ClerkInv(d)'
  <2>1. phase'[d] = phase[d] /\ seen'[d] = seen[d]
    BY <1>3
  <2>2. \A p \in Orders : rowLock'[p] = d => rowLock[p] = d /\ status'[p] = status[p] /\ brokerId'[p] = brokerId[p]
    BY <1>1, <1>3, <1>4 DEF rowVars
  <2> QED
    BY <1>1, <1>2, <2>1, <2>2, ClerkIsKept
<1>6. \A p \in Orders \ {o} : rowLock'[p] # c
  BY <1>1, <1>3 DEF LookUp, ReadHistory, HistoryUnusable, DropLinked, ClerkFails, ClerkInv
<1>7. ClerkInv(c)'
  <2>1. CASE LookUp(c, o)
    <3>1. /\ phase'[c] = "reading" /\ seen'[c] = {}
          /\ status'[o] = "submission_unknown" /\ brokerId'[o] = None
      BY <1>1, <2>1 DEF LookUp, TypeOK, ClerkInv, rowVars
    <3> QED
      BY <1>6, <3>1 DEF ClerkInv
  <2>2. CASE ClerkFails(c, o)
    <3>1. phase'[c] = "idle" /\ seen'[c] = {} /\ rowLock'[o] # c
      BY <1>1, <1>4, <2>2 DEF ClerkFails, TypeOK
    <3> QED
      BY <1>6, <3>1 DEF ClerkInv
  <2>3. CASE HistoryUnusable(c, o)
    <3>1. phase'[c] = "read" /\ seen'[c] = {} /\ rowLock[o] = c
      BY <1>1, <2>3 DEF HistoryUnusable, TypeOK
    <3>2. status'[o] = "submission_unknown" /\ brokerId'[o] = None
      BY <1>1, <3>1 DEF ClerkInv, rowVars
    <3> QED
      BY <1>6, <3>1, <3>2 DEF ClerkInv
  <2>4. CASE DropLinked(c, o)
    <3>1. phase'[c] = "linked" /\ seen'[c] \subseteq seen[c] /\ rowLock[o] = c
      BY <1>1, <2>4 DEF DropLinked, TypeOK
    <3>2. status'[o] = "submission_unknown" /\ brokerId'[o] = None
      BY <1>1, <3>1 DEF ClerkInv, rowVars
    <3>3. \A r \in seen'[c] : RecordInv(o, r)'
      BY <1>1, <3>1 DEF ClerkInv, RecordInv, MayBe, netVars
    <3> QED
      BY <1>6, <3>1, <3>2, <3>3 DEF ClerkInv
  <2>5. CASE ReadHistory(c, o)
    <3>1. phase'[c] = "read" /\ rowLock[o] = c
      BY <1>1, <2>5 DEF ReadHistory, TypeOK
    <3>2. status'[o] = "submission_unknown" /\ brokerId'[o] = None
      BY <1>1, <3>1 DEF ClerkInv, rowVars
    <3>3. ASSUME NEW r \in seen'[c] PROVE RecordInv(o, r)'
      <4>1. PICK b \in BrokerIds : /\ r = [id |-> b, state |-> book[b].state, fill |-> book[b].fill]
                                   /\ MatchesUnknownSubmission(o, b)
        BY <1>1, <2>5 DEF ReadHistory, TypeOK
      <4>2. r.id = b /\ r.state = book'[b].state /\ r.fill = book'[b].fill /\ MayBe(o, book'[b].owner)
        BY <1>1, <4>1 DEF MatchesUnknownSubmission, MayBe, netVars
      <4>3. book'[b].fill \in 0..Qty
        BY <1>1 DEF TypeOK, BrokerOrder
      <4> QED
        BY <4>2, <4>3, QtyPositive DEF RecordInv, MayBe
    <3> QED
      BY <1>6, <3>1, <3>2, <3>3 DEF ClerkInv
  <2> QED
    BY <2>1, <2>2, <2>3, <2>4, <2>5
<1>8. \A d \in Clerks : ClerkInv(d)'
  BY <1>5, <1>7
<1>9. sent' = sent /\ (\A p \in Orders : WireMoves(p)) /\ (\A p \in Orders, b \in BrokerIds :
         book'[b].owner = p => book[b].owner = p \/ wire[p] = "flying")
  BY <1>1 DEF netVars, WireMoves
<1> QED
  BY <1>1, <1>2, <1>8, <1>9, ElsewherePreserves

\* A free id is given out.
LEMMA BookedIsKept ==
  ASSUME TruthInv, NEW b \in BrokerIds, NEW owner \in Orders \cup {Outside}, book[b].state = "free",
         book' = [book EXCEPT ![b] = [owner |-> owner, state |-> "working", fill |-> 0]],
         owner \in Orders => wire[owner] # "taken" /\ wire'[owner] = "taken",
         \A o \in Orders : wire[o] = "taken" => wire'[o] = "taken"
  PROVE  BookGrows /\ BookInv'
<1>1. BookInv /\ \A x \in BrokerIds : book[x] \in BrokerOrder
  BY DEF TruthInv, OnceInv, TypeInv, TypeOK
<1>2. /\ book'[b].owner = owner /\ book'[b].state = "working"
      /\ \A x \in BrokerIds \ {b} : book'[x] = book[x]
  BY DEF TruthInv, OnceInv, TypeInv, TypeOK
<1>3. book[b].owner = None /\ owner # None
  BY <1>1, NamesAreApart DEF BookInv
<1>4. \A x \in BrokerIds : book[x].fill <= book[x].fill
  BY <1>1, QtyPositive DEF BrokerOrder
<1>5. BookGrows
  BY <1>2, <1>3, <1>4 DEF BookGrows
<1>6. \A x \in BrokerIds : book[x].owner = owner /\ owner \in Orders => FALSE
  BY <1>1 DEF BookInv
<1>7. BookInv'
  BY <1>1, <1>2, <1>3, <1>6 DEF BookInv
<1> QED
  BY <1>5, <1>7

LEMMA BrokerStepPreserves ==
  ASSUME TruthInv, OnceInv', NEW b \in BrokerIds, BrokerStep(b)
  PROVE  TruthInv'
<1>1. TypeOK /\ BookInv /\ book[b] \in BrokerOrder
  BY DEF TruthInv, OnceInv, TypeInv, TypeOK
<1>2. ASSUME NEW o \in Orders, BrokerTakes(o, b) PROVE TruthInv'
  <2>1. /\ wire[o] = "flying" /\ wire'[o] = "taken" /\ \A p \in Orders \ {o} : wire'[p] = wire[p]
    BY <1>1, <1>2 DEF BrokerTakes, TypeOK
  <2>2. BookGrows /\ BookInv'
    BY <1>2, <2>1, BookedIsKept DEF BrokerTakes
  <2>3. \A p \in Orders : WireMoves(p)
    BY <2>1 DEF WireMoves
  <2>4. \A p \in Orders, x \in BrokerIds : book'[x].owner = p => book[x].owner = p \/ wire[p] = "flying"
    BY <1>1, <1>2, <2>1 DEF BrokerTakes, TypeOK
  <2> QED
    BY <1>2, <2>2, <2>3, <2>4, BrokerPreserves DEF BrokerTakes
<1>3. CASE OrderFromOutside(b)
  <2>1. BookGrows /\ BookInv'
    BY <1>3, BookedIsKept, NamesAreApart DEF OrderFromOutside
  <2>2. \A p \in Orders, x \in BrokerIds : book'[x].owner = p => book[x].owner = p \/ wire[p] = "flying"
    BY <1>1, <1>3, NamesAreApart DEF OrderFromOutside, TypeOK
  <2> QED
    BY <1>3, <2>1, <2>2, BrokerPreserves DEF OrderFromOutside, WireMoves
<1>4. CASE BrokerFills(b) \/ BrokerEnds(b)
  <2>1. UNCHANGED <<rowVars, sessionVars, clerkVars, sent, wire>> /\ book[b].state = "working"
    BY <1>4 DEF BrokerFills, BrokerEnds
  <2>2. /\ book'[b].owner = book[b].owner /\ book'[b].state # "free"
        /\ book'[b].fill = book[b].fill + 1 \/ book'[b].fill = book[b].fill
        /\ book'[b].state = "filled" => book'[b].fill = Qty
        /\ \A x \in BrokerIds \ {b} : book'[x] = book[x]
    BY <1>1, <1>4 DEF BrokerFills, BrokerEnds, TypeOK, BrokerOrder
  <2>3. BookGrows
    <3>1. \A x \in BrokerIds : book[x].fill \in 0..Qty
      BY <1>1 DEF TypeOK, BrokerOrder
    <3>2. \A x \in BrokerIds : book[x].fill <= book'[x].fill
      BY <2>2, <3>1, QtyPositive
    <3> QED
      BY <2>1, <2>2, <3>2 DEF BookGrows, Ended
  <2>4. BookInv'
    BY <1>1, <2>1, <2>2 DEF BookInv
  <2>5. \A p \in Orders, x \in BrokerIds : book'[x].owner = p => book[x].owner = p
    BY <2>2
  <2>6. \A p \in Orders : WireMoves(p)
    BY <2>1 DEF WireMoves
  <2> QED
    BY <2>1, <2>3, <2>4, <2>5, <2>6, BrokerPreserves
<1> QED
  BY <1>2, <1>3, <1>4 DEF BrokerStep

LEMMA NetworkStepPreserves ==
  ASSUME TruthInv, OnceInv', NEW o \in Orders, NetworkStep(o)
  PROVE  TruthInv'
<1>1. /\ UNCHANGED <<rowVars, sessionVars, clerkVars, sent, book>>
      /\ wire[o] = "flying" /\ wire'[o] \in {"refused", "lost"} /\ \A p \in Orders \ {o} : wire'[p] = wire[p]
  BY DEF NetworkStep, BrokerRefuses, RequestLost, TruthInv, OnceInv, TypeInv, TypeOK
<1>2. BookGrows /\ BookInv'
  BY <1>1, BookIsKept
<1>3. \A p \in Orders : WireMoves(p)
  BY <1>1 DEF WireMoves
<1> QED
  BY <1>1, <1>2, <1>3, BrokerPreserves

\* Time passes for a row, or nothing happens at all.
LEMMA NothingPreserves ==
  ASSUME TruthInv, OnceInv', UNCHANGED <<rowVars, sessionVars, clerkVars, netVars>>
  PROVE  TruthInv'
<1>1. BookGrows /\ BookInv'
  BY BookIsKept DEF netVars
<1> QED
  BY <1>1, BrokerPreserves DEF netVars, WireMoves

LEMMA TruthInit == Init => TruthInv
<1> SUFFICES ASSUME Init PROVE TruthInv
  OBVIOUS
<1>1. OnceInv
  BY OnceInit
<1>2. BookInv
  BY NamesAreApart DEF Init, BookInv
<1>3. OneCarrier /\ \A s \in Sessions : SessionInv(s)
  BY DEF Init, OneCarrier, SessionInv, Carries, Trusted, Ended
<1>4. \A c \in Clerks : ClerkInv(c)
  BY NamesAreApart DEF Init, ClerkInv
<1>5. ASSUME NEW o \in Orders PROVE RowInv(o)
  BY DEF Init, RowInv, StageInv, AttemptInv, IdentityInv, EndInv, AlarmInv, TERMINAL_ORDER_STATUSES
<1> QED
  BY <1>1, <1>2, <1>3, <1>4, <1>5 DEF TruthInv

LEMMA TruthStep == TruthInv /\ [Next]_vars => TruthInv'
<1> SUFFICES ASSUME TruthInv, [Next]_vars PROVE TruthInv'
  OBVIOUS
<1>1. OnceInv'
  BY OnceStep DEF TruthInv
<1>2. ASSUME NEW s \in Sessions, SessionStep(s) PROVE TruthInv'
  BY <1>1, <1>2, MemoryPreserves, BeforeDispatchPreserves, CommitDispatchPreserves, TransmitPreserves,
     LateIsRecorded, NoOrderIsRecorded, UnknownIsRecorded, AcknowledgementIsRecorded DEF SessionStep
<1>3. ASSUME NEW c \in Clerks, NEW o \in Orders, ClerkStep(c, o) PROVE TruthInv'
  BY <1>1, <1>3, ClerkReads, ReleasePreserves DEF ClerkStep
<1>4. ASSUME NEW o \in Orders, RowStep(o) PROVE TruthInv'
  <2>1. CASE GrowOld(o)
    BY <1>1, <2>1, NothingPreserves DEF GrowOld, clerkVars
  <2> QED
    BY <1>1, <1>4, <2>1, CancelPreserves, ReadPreserves DEF RowStep
<1>5. ASSUME NEW o \in Orders, NetworkStep(o) PROVE TruthInv'
  BY <1>1, <1>5, NetworkStepPreserves
<1>6. ASSUME NEW b \in BrokerIds, BrokerStep(b) PROVE TruthInv'
  BY <1>1, <1>6, BrokerStepPreserves
<1>7. CASE UNCHANGED vars
  BY <1>1, <1>7, NothingPreserves DEF vars
<1> QED
  BY <1>2, <1>3, <1>4, <1>5, <1>6, <1>7 DEF Next

(* The invariant itself: what the rows, the sessions and the clerks believe of the  *)
(* broker is so, in every interleaving of theirs with the broker's own changes      *)
(* (submit_order, the outcome recorders, reconcile_unknown_submission).             *)
THEOREM WhatIsBelievedIsTrue == Spec => []TruthInv
  BY TruthInit, TruthStep, PTL DEF Spec

(* An order this program calls ended has ended at the broker with the same status   *)
(* and the same fill, and an attempt's outcome is what became of the request        *)
(* (the outcome recorders, reconciliation and local cancellation).                  *)
THEOREM OutcomesAreAlwaysTrue == Spec => []OutcomesAreTrue
<1>1. TruthInv => OutcomesAreTrue
  <2> SUFFICES ASSUME TruthInv PROVE OutcomesAreTrue
    OBVIOUS
  <2>1. FinalStatesAreTrue
    BY DEF TruthInv, RowInv, EndInv, FinalStatesAreTrue
  <2>2. AttemptsAreTrue
    BY DEF TruthInv, RowInv, AttemptInv, AttemptsAreTrue
  <2> QED
    BY <2>1, <2>2 DEF OutcomesAreTrue
<1> QED
  BY <1>1, WhatIsBelievedIsTrue, PTL

(* No unknown order stays unnoticed once somebody has looked at it or its answer    *)
(* was no help: its critical event has been raised                                  *)
(* (_add_unknown_submission_risk_event).                                            *)
THEOREM UnknownIsAlwaysAlarmed == Spec => []UnknownIsAlarmed
<1>1. TruthInv => UnknownIsAlarmed
  BY DEF TruthInv, RowInv, AlarmInv, UnknownIsAlarmed
<1> QED
  BY <1>1, WhatIsBelievedIsTrue, PTL

(* An order that was given the identity of another can be recognised: by the        *)
(* conflict on record, or by the other order, which has an identity that is not its *)
(* own either or the same one (_resolved_elsewhere and the queries before an        *)
(* adoption).                                                                       *)
THEOREM WrongIdentityAlwaysShows == Spec => []WrongIdentityShows
<1>1. TruthInv => WrongIdentityShows
  <2> SUFFICES ASSUME TruthInv PROVE WrongIdentityShows
    OBVIOUS
  <2>1. ConflictIsOnRecord
    BY DEF TruthInv, RowInv, IdentityInv, ConflictIsOnRecord
  <2>2. WrongIdentityIsShared
    <3> SUFFICES ASSUME NEW o \in Orders, NEW p \in Orders, NEW b \in BrokerIds,
                        brokerId[o] = b, book[b].owner = p, brokerId[p] # b
                 PROVE  brokerId[p] # None /\ book[brokerId[p]].owner \notin {o, p}
      BY DEF WrongIdentityIsShared
    <3>1. b # None /\ p # o
      BY NamesAreApart
    <3>2. brokerId[p] # None /\ book[brokerId[p]].owner # o
      BY <3>1 DEF TruthInv, RowInv, IdentityInv
    <3>3. book[brokerId[p]].owner # p
      BY <3>2, IdsAreTaken DEF TruthInv, BookInv
    <3> QED
      BY <3>2, <3>3
  <2> QED
    BY <2>1, <2>2 DEF WrongIdentityShows
<1> QED
  BY <1>1, WhatIsBelievedIsTrue, PTL
-----------------------------------------------------------------------------
(* What makes an unknown order known. *)

Evidence(o) ==
  \/ status'[o] = "rejected" /\ wire[o] = "refused"
  \/ status'[o] = "error" /\ sent[o] = 0
  \/ /\ brokerId'[o] # None
     /\ LET owner == book[brokerId'[o]].owner
        IN owner = o \/ {o, owner} \subseteq LookAlikes

BecomesKnown(o) == status[o] = "submission_unknown" /\ status'[o] # "submission_unknown"

LEMMA SessionsBringEvidence ==
  ASSUME TruthInv, NEW s \in Sessions, SessionStep(s), NEW o \in Orders, BecomesKnown(o)
  PROVE  Evidence(o)
<1> USE DEF BecomesKnown
<1>1. TypeOK
  BY DEF TruthInv, OnceInv, TypeInv
<1>2. CASE RecordNoOrder(s)
  <2>1. /\ SessionInv(s) /\ holds[s] \in Orders /\ answer[s] \in {"not_transmitted", "refused"}
        /\ status' = [status EXCEPT ![holds[s]] = IF answer[s] = "refused" THEN "rejected" ELSE "error"]
    BY <1>2, AtOutcome DEF RecordNoOrder, StillUnknown
  <2>2. o = holds[s] /\ status'[o] = IF answer[s] = "refused" THEN "rejected" ELSE "error"
    BY <1>1, <2>1 DEF TypeOK
  <2> QED
    BY <2>1, <2>2 DEF SessionInv, Evidence
<1>3. CASE RecordAcknowledgement(s)
  <2>1. /\ SessionInv(s) /\ holds[s] \in Orders /\ answer[s] \in Trusted
        /\ status' = [status EXCEPT ![holds[s]] = answer[s]]
        /\ brokerId' = [brokerId EXCEPT ![holds[s]] = ackId[s]]
    BY <1>3, AtOutcome DEF RecordAcknowledgement, StillUnknown
  <2>2. o = holds[s] /\ brokerId'[o] = ackId[s]
    BY <1>1, <2>1 DEF TypeOK
  <2> QED
    BY <2>1, <2>2 DEF SessionInv, Evidence
<1>4. CASE BlockedByPolicy(s) \/ SimulateFill(s) \/ CannotPrepare(s) \/ CommitDispatch(s)
  <2>1. pc[s] = "loaded" /\ holds[s] \in Orders
    BY <1>4, AtSession DEF BlockedByPolicy, SimulateFill, CannotPrepare, CommitDispatch
  <2>2. status'[holds[s]] # status[holds[s]] => status[holds[s]] = "pending_intent"
    BY <1>1, <1>4, <2>1, AtSession
    DEF BlockedByPolicy, SimulateFill, CannotPrepare, CommitDispatch, MayWrite, SessionInv, TypeOK
  <2>3. \A p \in Orders : p # holds[s] => status'[p] = status[p]
    BY <1>1, <1>4, <2>1 DEF BlockedByPolicy, SimulateFill, CannotPrepare, CommitDispatch, TypeOK
  <2> QED
    BY <2>2, <2>3
<1>5. CASE ~(RecordNoOrder(s) \/ RecordAcknowledgement(s) \/ BlockedByPolicy(s) \/ SimulateFill(s)
             \/ CannotPrepare(s) \/ CommitDispatch(s))
  <2>1. status' = status
    BY <1>5 DEF SessionStep, Load, StaleWrite, SessionDies, NotTransmitted, Transmit, AnswerUnusable,
       ReceiveRefusal, ReceiveContradiction, ReceiveAcknowledgement, RecordLate, RecordUnknownOutcome,
       AcknowledgementNotSaved, rowVars
  <2> QED
    BY <2>1
<1> QED
  BY <1>2, <1>3, <1>4, <1>5

LEMMA ClerksBringEvidence ==
  ASSUME TruthInv, NEW c \in Clerks, NEW p \in Orders, ClerkStep(c, p), NEW o \in Orders, BecomesKnown(o)
  PROVE  Evidence(o)
<1> USE DEF BecomesKnown
<1>1. TypeOK
  BY DEF TruthInv, OnceInv, TypeInv
<1>2. CASE Settle(c, p)
  <2>1. PICK r \in Claimable(c, p) : brokerId' = [brokerId EXCEPT ![p] = r.id]
    BY <1>2 DEF Settle
  <2>2. rowLock[p] = c /\ \A q \in Orders \ {p} : status'[q] = status[q]
    BY <1>1, <1>2 DEF Settle, Release, TypeOK
  <2>3. o = p /\ RecordInv(p, r) /\ r.id # None /\ brokerId'[p] = r.id
    BY <1>1, <2>1, <2>2, AdoptedIsShared DEF TypeOK
  <2> QED
    BY <2>3 DEF Evidence, RecordInv, MayBe
<1>3. CASE ~Settle(c, p)
  <2>1. status' = status
    BY <1>3 DEF ClerkStep, LookUp, ReadHistory, HistoryUnusable, DropLinked, LeaveUnresolved, Identify,
       ClerkFails, rowVars
  <2> QED
    BY <2>1
<1> QED
  BY <1>2, <1>3

LEMMA ReadsBringEvidence ==
  ASSUME TruthInv, NEW p \in Orders, RowStep(p), NEW o \in Orders, BecomesKnown(o)
  PROVE  Evidence(o)
<1> USE DEF BecomesKnown
<1>1. TypeOK
  BY DEF TruthInv, OnceInv, TypeInv
<1>2. CASE RecordStillOpen(p) \/ RecordFinalState(p)
  <2>1. brokerId[p] # None /\ brokerId' = brokerId /\ \A q \in Orders \ {p} : status'[q] = status[q]
    BY <1>1, <1>2 DEF RecordStillOpen, RecordFinalState, ReadById, TypeOK
  <2>2. o = p /\ MayBe(p, book[brokerId[p]].owner)
    BY <2>1 DEF TruthInv, RowInv, IdentityInv
  <2> QED
    BY <2>1, <2>2 DEF Evidence, MayBe
<1>3. CASE ~(RecordStillOpen(p) \/ RecordFinalState(p))
  <2>1. status[p] # "submission_unknown" \/ status' = status
    BY <1>3 DEF RowStep, GrowOld, CancelLocally, ReadRefused, rowVars
  <2>2. \A q \in Orders \ {p} : status'[q] = status[q]
    BY <1>1, <1>3 DEF RowStep, GrowOld, CancelLocally, ReadRefused, rowVars, TypeOK
  <2> QED
    BY <2>1, <2>2
<1> QED
  BY <1>2, <1>3

(* An unknown order becomes known only on evidence: the broker refused it, it was   *)
(* never sent, or a broker order has been identified that is its own, or one of an  *)
(* order the history search cannot tell from it (state_machine.py; the outcome      *)
(* recorders and both ways of reconciling).                                         *)
THEOREM KnownOnlyOnEvidence == Spec => KnownOnEvidence
<1>1. ASSUME TruthInv, Next, NEW o \in Orders, BecomesKnown(o) PROVE Evidence(o)
  <2>1. ASSUME NEW b \in BrokerIds, BrokerStep(b) PROVE status' = status
    BY <2>1 DEF BrokerStep, BrokerTakes, BrokerFills, BrokerEnds, OrderFromOutside, rowVars
  <2>2. ASSUME NEW p \in Orders, NetworkStep(p) PROVE status' = status
    BY <2>2 DEF NetworkStep, BrokerRefuses, RequestLost, rowVars
  <2> QED
    BY <1>1, <2>1, <2>2, SessionsBringEvidence, ClerksBringEvidence, ReadsBringEvidence
    DEF Next, BecomesKnown
<1>2. TruthInv /\ [Next]_vars =>
        [\A o \in Orders :
           status[o] = "submission_unknown" /\ status'[o] # "submission_unknown" =>
             \/ status'[o] = "rejected" /\ wire[o] = "refused"
             \/ status'[o] = "error" /\ sent[o] = 0
             \/ /\ brokerId'[o] # None
                /\ LET owner == book[brokerId'[o]].owner
                   IN owner = o \/ {o, owner} \subseteq LookAlikes]_vars
  BY <1>1 DEF BecomesKnown, Evidence
<1> QED
  BY <1>2, WhatIsBelievedIsTrue, PTL DEF Spec, KnownOnEvidence
============================================================================
