------------------------ MODULE OrderCancellationProofs ------------------------
(***************************************************************************)
(* Proofs about OrderCancellation, for any number of orders and sessions,  *)
(* any of them single cancellations, and any quantity.                     *)
(***************************************************************************)
EXTENDS OrderCancellation, TLAPS

(* The inductive invariant. *)

(* What NoLiveOrderIsHidden asks of a row, committed or not. *)
IsTold(r, o) ==
  r.status \in TERMINAL_ORDER_STATUSES =>
    \/ book[o] = "absent" /\ ~r.id
    \/ book[o] = r.status /\ fill[o] = r.filled

(* A row nobody holds is as committed; one that is held has only gained: an event, a final *)
(* state.  What is known of a fill is no more than the broker's.                           *)
OrderInv(o) ==
  /\ lock[o] = None => draft[o] = row[o]
  /\ draft[o].id = row[o].id
  /\ row[o].accepted => draft[o].accepted
  /\ row[o].status \in TERMINAL_ORDER_STATUSES => draft[o].status = row[o].status
  /\ row[o].filled <= fill[o] /\ draft[o].filled <= fill[o]
  /\ book[o] = "filled" => fill[o] = Qty
  /\ ~row[o].id => book[o] = "absent" \/ row[o].status = "submission_unknown"
  /\ ~draft[o].id => book[o] = "absent" \/ draft[o].status = "submission_unknown"
  /\ IsTold(row[o], o) /\ IsTold(draft[o], o)

(* A session holds the rows it has come to, and what it says of each is in its draft. *)
OpenInv(s, o) ==
  /\ (fate[s][o] \notin {"none", "listed"}) <=> lock[o] = s
  /\ o \in took[s] => lock[o] = s /\ draft[o].accepted
  /\ fate[s][o] = "cancelled" => draft[o].status = "cancelled"
  /\ fate[s][o] = "finished" => draft[o].status \in TERMINAL_ORDER_STATUSES \ {"cancelled"}
  /\ fate[s][o] \in {"asked", "again", "unconfirmed"} => draft[o].accepted
  /\ fate[s][o] \in {"asked", "again"} => row[o].id /\ row[o].status \in ACTIVE_ORDER_STATUSES
  /\ fate[s][o] = "again" => book[o] # "cancelling"

(* What a session that is over said of each is in the committed row. *)
OverInv(s, o) ==
  /\ lock[o] # s
  /\ fate[s][o] \in Reported \cup {"none"}
  /\ fate[s][o] = "cancelled" => row[o].status = "cancelled"
  /\ fate[s][o] = "finished" => row[o].status \in TERMINAL_ORDER_STATUSES \ {"cancelled"}
  /\ fate[s][o] = "unconfirmed" => row[o].accepted
  /\ fate[s][o] # "none" /\ o \in took[s] => row[o].accepted

SessionInv(s, o) ==
  /\ waits[s] = o => running[s] /\ fate[s][o] = "listed"
  /\ IF running[s] THEN OpenInv(s, o) ELSE OverInv(s, o)

IInv ==
  /\ TypeOK
  /\ \A o \in Orders : OrderInv(o)
  /\ \A s \in Sessions, o \in Orders : SessionInv(s, o)
  /\ NobodyAsksTwice

-----------------------------------------------------------------------------
(* Types. *)

LEMMA Statuses ==
  /\ Ended \subseteq TERMINAL_ORDER_STATUSES
  /\ Ended \subseteq KNOWN_ORDER_STATUSES
  /\ TERMINAL_ORDER_STATUSES \subseteq KNOWN_ORDER_STATUSES
  /\ ACTIVE_ORDER_STATUSES \cap TERMINAL_ORDER_STATUSES = {}
  /\ "cancelled" \in TERMINAL_ORDER_STATUSES /\ "accepted" \in ACTIVE_ORDER_STATUSES
  /\ "submission_unknown" \in ACTIVE_ORDER_STATUSES
  BY DEF Ended, TERMINAL_ORDER_STATUSES, ACTIVE_ORDER_STATUSES, KNOWN_ORDER_STATUSES

LEMMA FinalStateIsARow ==
  ASSUME TypeOK, NEW o \in Orders, NEW r \in Row, book[o] \in Ended
  PROVE  /\ FinalState(r, o) \in Row
         /\ FinalState(r, o).status = book[o]
         /\ FinalState(r, o).id = r.id /\ FinalState(r, o).accepted = r.accepted
         /\ r.filled <= fill[o] /\ (book[o] = "filled" => fill[o] = Qty) =>
              FinalState(r, o).filled = fill[o]
<1> DEFINE q == IF book[o] = "filled" THEN Qty ELSE IF fill[o] < r.filled THEN r.filled ELSE fill[o]
<1>1. q \in 0..Qty
  BY QtyIsPositive DEF TypeOK, Row
<1>2. r.filled <= fill[o] /\ (book[o] = "filled" => fill[o] = Qty) => q = fill[o]
  BY QtyIsPositive DEF TypeOK, Row
<1>3. FinalState(r, o) = [r EXCEPT !.status = book[o], !.filled = q]
  BY DEF FinalState
<1> HIDE DEF q
<1> QED
  BY <1>1, <1>2, <1>3, Statuses DEF Row

LEMMA RowUpdates ==
  ASSUME NEW r \in Row
  PROVE  /\ [r EXCEPT !.accepted = TRUE] \in Row
         /\ [r EXCEPT !.status = "cancelled"] \in Row
         /\ [r EXCEPT !.status = "accepted"] \in Row
<1>1. /\ "cancelled" \in KNOWN_ORDER_STATUSES /\ "accepted" \in KNOWN_ORDER_STATUSES
      /\ TRUE \in BOOLEAN
  BY DEF KNOWN_ORDER_STATUSES, TERMINAL_ORDER_STATUSES, ACTIVE_ORDER_STATUSES
<1>2. ASSUME NEW status \in KNOWN_ORDER_STATUSES PROVE [r EXCEPT !.status = status] \in Row
  BY DEF Row
<1>3. ASSUME NEW yes \in BOOLEAN PROVE [r EXCEPT !.accepted = yes] \in Row
  BY DEF Row
<1> QED
  BY <1>1, <1>2, <1>3

(* What a session writes of one order's fate, and of nothing else. *)
FateOf(s, o, f) ==
  /\ fate' \in [Sessions -> [Orders -> Fates]]
  /\ fate'[s][o] = f
  /\ \A p \in Orders \ {o} : fate'[s][p] = fate[s][p]
  /\ \A t \in Sessions \ {s} : fate'[t] = fate[t]

LEMMA FateIsOfOne ==
  ASSUME TypeOK, NEW s \in Sessions, NEW o \in Orders, NEW f \in Fates, Fate(s, o, f)
  PROVE  FateOf(s, o, f)
BY DEF TypeOK, Fate, FateOf

(* A step of a session on one order. *)
OnOne(s, o) ==
  /\ row' = row /\ running' = running
  /\ draft' \in [Orders -> Row] /\ \A p \in Orders \ {o} : draft'[p] = draft[p]
  /\ lock' = [lock EXCEPT ![o] = s]
  /\ waits' = [waits EXCEPT ![s] = None]
  /\ \E f \in Fates \ {"none", "listed"} : FateOf(s, o, f)
  /\ took' = took \/ took' = [took EXCEPT ![s] = took[s] \cup {o}]
  /\ book' \in [Orders -> {"absent", "working", "cancelling"} \cup Ended]
  /\ \A p \in Orders \ {o} : book'[p] = book[p]
  /\ fill' = fill
  /\ stopped' \in [Sessions -> BOOLEAN]
  /\ acceptedNow' \in [Sessions -> SUBSET Orders]
  /\ repeated' = {}

(* Only that order, and that session's account of it, have to be looked at. *)
LEMMA OnOnePreserves ==
  ASSUME IInv, NEW s \in Sessions, NEW o \in Orders, OnOne(s, o),
         running[s], lock[o] \in {None, s}, OrderInv(o)', OpenInv(s, o)'
  PROVE  IInv'
<1> USE DEF IInv
<1>0. None \notin Orders /\ None \notin Sessions
  BY NoneIsNobody
<1>1. TypeOK'
  <2>1. took' \in [Sessions -> SUBSET Orders]
    <3>1. took[s] \cup {o} \in SUBSET Orders /\ took \in [Sessions -> SUBSET Orders]
      BY DEF TypeOK
    <3> HIDE DEF IInv
    <3> QED
      BY <3>1 DEF OnOne
  <2>2. lock' \in [Orders -> Sessions \cup {None}] /\ waits' \in [Sessions -> Orders \cup {None}]
    BY DEF TypeOK, OnOne
  <2>3. fate' \in [Sessions -> [Orders -> Fates]]
    BY DEF OnOne, FateOf
  <2> QED
    BY <2>1, <2>2, <2>3 DEF TypeOK, OnOne
<1>2. ASSUME NEW p \in Orders \ {o} PROVE OrderInv(p)'
  <2>1. OrderInv(p)
    OBVIOUS
  <2>2. /\ lock'[p] = lock[p] /\ draft'[p] = draft[p] /\ row'[p] = row[p]
        /\ book'[p] = book[p] /\ fill'[p] = fill[p]
    BY DEF OnOne, TypeOK
  <2> QED
    BY <2>1, <2>2 DEF OrderInv, IsTold
<1>3. ASSUME NEW t \in Sessions, NEW p \in Orders \ {o} PROVE SessionInv(t, p)'
  <2>1. SessionInv(t, p)
    OBVIOUS
  <2>2. /\ lock'[p] = lock[p] /\ draft'[p] = draft[p] /\ row'[p] = row[p] /\ book'[p] = book[p]
        /\ fate'[t][p] = fate[t][p] /\ running'[t] = running[t]
        /\ p \in took'[t] <=> p \in took[t]
        /\ waits'[t] = p => waits[t] = p
    BY <1>0 DEF OnOne, FateOf, TypeOK
  <2> QED
    BY <2>1, <2>2 DEF SessionInv, OpenInv, OverInv
<1>4. ASSUME NEW t \in Sessions \ {s} PROVE SessionInv(t, o)'
  <2>1. SessionInv(t, o)
    OBVIOUS
  <2>2. /\ row'[o] = row[o] /\ lock[o] # t /\ lock'[o] # t
        /\ fate'[t][o] = fate[t][o] /\ running'[t] = running[t]
        /\ took'[t] = took[t] /\ waits'[t] = waits[t]
    BY <1>0 DEF OnOne, FateOf, TypeOK
  <2> QED
    BY <2>1, <2>2 DEF SessionInv, OpenInv, OverInv
<1>5. SessionInv(s, o)'
  BY <1>0 DEF SessionInv, OnOne, FateOf, TypeOK
<1>6. NobodyAsksTwice'
  BY DEF NobodyAsksTwice, OnOne
<1> QED
  BY <1>1, <1>2, <1>3, <1>4, <1>5, <1>6

(* What a session may know of the order it is on. *)
LEMMA AtOneOrder ==
  ASSUME IInv, NEW s \in Sessions, NEW o \in Orders
  PROVE  /\ OrderInv(o) /\ SessionInv(s, o)
         /\ row[o] \in Row /\ draft[o] \in Row
         /\ RowLocked(s, o) =>
              /\ running[s] /\ lock[o] = None /\ draft[o] = row[o] /\ fate[s][o] = "listed"
              /\ \A t \in Sessions : ~(running[t] /\ o \in took[t])
              /\ o \notin took[s]
         /\ running[s] /\ ~Asking(s) => waits[s] = None
<1>1. OrderInv(o) /\ (\A t \in Sessions : SessionInv(t, o)) /\ row[o] \in Row /\ draft[o] \in Row
  BY DEF IInv, TypeOK
<1>2. ASSUME RowLocked(s, o)
      PROVE  /\ running[s] /\ lock[o] = None /\ draft[o] = row[o] /\ fate[s][o] = "listed"
             /\ \A t \in Sessions : ~(running[t] /\ o \in took[t])
             /\ o \notin took[s]
  <2>1. running[s] /\ lock[o] = None /\ draft[o] = row[o] /\ fate[s][o] = "listed"
    BY <1>1, <1>2 DEF RowLocked, OrderInv, SessionInv
  <2>2. None \notin Sessions
    BY NoneIsNobody
  <2>3. ASSUME NEW t \in Sessions, running[t] PROVE o \notin took[t]
    BY <1>1, <2>1, <2>2, <2>3 DEF SessionInv, OpenInv
  <2> QED
    BY <2>1, <2>3
<1>3. ASSUME running[s], ~Asking(s) PROVE waits[s] = None
  <2>1. ASSUME NEW p \in Orders, waits[s] = p PROVE FALSE
    <3>1. SessionInv(s, p)
      BY DEF IInv
    <3> QED
      BY <1>3, <2>1, <3>1 DEF SessionInv, Asking
  <2> QED
    BY <2>1 DEF IInv, TypeOK
<1> QED
  BY <1>1, <1>2, <1>3

-----------------------------------------------------------------------------
(* Asking for the orders, one at a time. *)

LEMMA EndedRowIsFound ==
  ASSUME IInv, NEW s \in Sessions, NEW o \in Orders, FindEnded(s, o)
  PROVE  IInv'
<1>1. RowLocked(s, o)
  BY DEF FindEnded
<1>2. /\ running[s] /\ lock[o] = None /\ draft[o] = row[o] /\ o \notin took[s]
      /\ OrderInv(o) /\ SessionInv(s, o)
  BY <1>1, AtOneOrder
<1>3. FateOf(s, o, PartOf(row[o].status))
  BY FateIsOfOne DEF FindEnded, IInv, Fates, Reported, PartOf
<1>4. OnOne(s, o)
  <2>1. PartOf(row[o].status) \in Fates \ {"none", "listed"}
    BY DEF Fates, Reported, PartOf
  <2> QED
    BY <1>1, <1>3, <2>1 DEF OnOne, FindEnded, RowLocked, IInv, TypeOK, NobodyAsksTwice, brokerVars
<1>5. fate'[s][o] = PartOf(row[o].status) /\ lock'[o] = s
  BY <1>1, <1>3 DEF RowLocked, FateOf, IInv, TypeOK
<1>6. OrderInv(o)'
  BY <1>2, <1>5, NoneIsNobody DEF OrderInv, IsTold, brokerVars, FindEnded
<1>7. OpenInv(s, o)'
  BY <1>2, <1>5, Statuses DEF OpenInv, FindEnded, PartOf
<1> QED
  BY <1>2, <1>4, <1>6, <1>7, OnOnePreserves

LEMMA UnknownIsBlocked ==
  ASSUME IInv, NEW s \in Sessions, NEW o \in Orders, BlockUnknown(s, o)
  PROVE  IInv'
<1>1. RowLocked(s, o)
  BY DEF BlockUnknown
<1>2. /\ running[s] /\ lock[o] = None /\ draft[o] = row[o] /\ o \notin took[s]
      /\ OrderInv(o) /\ SessionInv(s, o)
  BY <1>1, AtOneOrder
<1>3. FateOf(s, o, "failed")
  BY FateIsOfOne DEF BlockUnknown, IInv, Fates, Reported
<1>4. OnOne(s, o)
  <2>1. "failed" \in Fates \ {"none", "listed"}
    BY DEF Fates, Reported
  <2> QED
    BY <1>1, <1>3, <2>1 DEF OnOne, BlockUnknown, RowLocked, IInv, TypeOK, NobodyAsksTwice, brokerVars
<1>5. fate'[s][o] = "failed" /\ lock'[o] = s
  BY <1>1, <1>3 DEF RowLocked, FateOf, IInv, TypeOK
<1>6. OrderInv(o)'
  BY <1>2, <1>5, NoneIsNobody DEF OrderInv, IsTold, brokerVars, BlockUnknown
<1>7. OpenInv(s, o)'
  BY <1>2, <1>5, Statuses DEF OpenInv, BlockUnknown
<1> QED
  BY <1>2, <1>4, <1>6, <1>7, OnOnePreserves

LEMMA AcceptedIsFound ==
  ASSUME IInv, NEW s \in Sessions, NEW o \in Orders, FindAccepted(s, o)
  PROVE  IInv'
<1>1. RowLocked(s, o)
  BY DEF FindAccepted
<1>2. /\ running[s] /\ lock[o] = None /\ draft[o] = row[o] /\ o \notin took[s]
      /\ OrderInv(o) /\ SessionInv(s, o)
  BY <1>1, AtOneOrder
<1>3. FateOf(s, o, "asked")
  BY FateIsOfOne DEF FindAccepted, IInv, Fates, Reported
<1>4. OnOne(s, o)
  <2>1. "asked" \in Fates \ {"none", "listed"}
    BY DEF Fates, Reported
  <2> QED
    BY <1>1, <1>3, <2>1 DEF OnOne, FindAccepted, RowLocked, IInv, TypeOK, NobodyAsksTwice, brokerVars
<1>5. fate'[s][o] = "asked" /\ lock'[o] = s
  BY <1>1, <1>3 DEF RowLocked, FateOf, IInv, TypeOK
<1>6. OrderInv(o)'
  BY <1>2, <1>5, NoneIsNobody DEF OrderInv, IsTold, brokerVars, FindAccepted
<1>7. OpenInv(s, o)'
  BY <1>2, <1>5, Statuses DEF OpenInv, FindAccepted, OrderInv
<1> QED
  BY <1>2, <1>4, <1>6, <1>7, OnOnePreserves

LEMMA LocalIsCancelled ==
  ASSUME IInv, NEW s \in Sessions, NEW o \in Orders, CancelLocally(s, o)
  PROVE  IInv'
<1> DEFINE r == [draft[o] EXCEPT !.status = "cancelled"]
<1>1. RowLocked(s, o)
  BY DEF CancelLocally
<1>2. /\ running[s] /\ lock[o] = None /\ draft[o] = row[o] /\ o \notin took[s]
      /\ OrderInv(o) /\ SessionInv(s, o) /\ draft[o] \in Row
  BY <1>1, AtOneOrder
<1>3. r \in Row /\ r.status = "cancelled" /\ r.filled = draft[o].filled
      /\ r.id = draft[o].id /\ r.accepted = draft[o].accepted
  BY <1>2, RowUpdates DEF Row
<1>4. draft' = [draft EXCEPT ![o] = r]
  BY DEF CancelLocally
<1> HIDE DEF r
<1>5. FateOf(s, o, "cancelled")
  BY FateIsOfOne DEF CancelLocally, IInv, Fates, Reported
<1>6. draft' \in [Orders -> Row] /\ draft'[o] = r /\ \A p \in Orders \ {o} : draft'[p] = draft[p]
  BY <1>3, <1>4 DEF IInv, TypeOK
<1>7. OnOne(s, o)
  <2>1. "cancelled" \in Fates \ {"none", "listed"}
    BY DEF Fates, Reported
  <2> QED
    BY <1>1, <1>5, <1>6, <2>1
    DEF OnOne, CancelLocally, RowLocked, IInv, TypeOK, NobodyAsksTwice, brokerVars
<1>8. fate'[s][o] = "cancelled" /\ lock'[o] = s
  BY <1>1, <1>5 DEF RowLocked, FateOf, IInv, TypeOK
<1>9. OrderInv(o)'
  BY <1>2, <1>3, <1>6, <1>8, NoneIsNobody, Statuses DEF OrderInv, IsTold, brokerVars, CancelLocally
<1>10. OpenInv(s, o)'
  BY <1>2, <1>3, <1>6, <1>8 DEF OpenInv, CancelLocally
<1> QED
  BY <1>2, <1>7, <1>9, <1>10, OnOnePreserves

(* The broker has an order under its id, and a request leaves what is known of it true. *)
LEMMA RequestLeavesItTold ==
  ASSUME IInv, NEW o \in Orders, BrokerTakesRequest(o)
  PROVE  /\ book' \in [Orders -> {"absent", "working", "cancelling"} \cup Ended]
         /\ \A p \in Orders \ {o} : book'[p] = book[p]
         /\ fill' = fill
         /\ book[o] \in {"working", "cancelling"}
         /\ book'[o] \in {"working", "cancelling", "cancelled"}
BY DEF BrokerTakesRequest, Ended, IInv, TypeOK

LEMMA FirstRequestIsTaken ==
  ASSUME IInv, NEW s \in Sessions, NEW o \in Orders, SendTaken(s, o)
  PROVE  IInv'
<1> DEFINE r == [draft[o] EXCEPT !.accepted = TRUE]
<1>1. RowLocked(s, o) /\ row[o].id /\ row[o].status \in ACTIVE_ORDER_STATUSES /\ ~row[o].accepted
      /\ BrokerTakesRequest(o)
  BY DEF SendTaken, MayBeAsked
<1>2. /\ running[s] /\ lock[o] = None /\ draft[o] = row[o]
      /\ OrderInv(o) /\ SessionInv(s, o) /\ draft[o] \in Row
  BY <1>1, AtOneOrder
<1>3. repeated' = {}
  <2>1. ~UnderWay(o)
    BY <1>1, AtOneOrder DEF UnderWay
  <2> QED
    BY <2>1 DEF SendTaken, Sent, IInv, NobodyAsksTwice
<1>4. r \in Row /\ r.status = draft[o].status /\ r.filled = draft[o].filled
      /\ r.id = draft[o].id /\ r.accepted
  BY <1>2, RowUpdates DEF Row
<1>5. draft' = [draft EXCEPT ![o] = r]
  BY DEF SendTaken, RecordAccepted
<1> HIDE DEF r
<1>6. FateOf(s, o, "asked")
  BY FateIsOfOne DEF SendTaken, IInv, Fates
<1>7. draft' \in [Orders -> Row] /\ draft'[o] = r /\ \A p \in Orders \ {o} : draft'[p] = draft[p]
  BY <1>4, <1>5 DEF IInv, TypeOK
<1>8. acceptedNow' \in [Sessions -> SUBSET Orders]
  BY DEF SendTaken, IInv, TypeOK
<1>9. OnOne(s, o)
  <2>1. "asked" \in Fates \ {"none", "listed"}
    BY DEF Fates
  <2>2. took' = [took EXCEPT ![s] = took[s] \cup {o}]
    BY DEF SendTaken, RecordAccepted
  <2> QED
    BY <1>1, <1>3, <1>6, <1>7, <1>8, <2>1, <2>2, RequestLeavesItTold
    DEF OnOne, SendTaken, RowLocked, IInv, TypeOK
<1>10. fate'[s][o] = "asked" /\ lock'[o] = s /\ row' = row
  BY <1>1, <1>6 DEF RowLocked, FateOf, IInv, TypeOK, SendTaken
<1>11. OrderInv(o)'
  BY <1>1, <1>2, <1>4, <1>7, <1>10, NoneIsNobody, Statuses, RequestLeavesItTold DEF OrderInv, IsTold
<1>12. OpenInv(s, o)'
  BY <1>1, <1>2, <1>4, <1>7, <1>10 DEF OpenInv
<1> QED
  BY <1>2, <1>9, <1>11, <1>12, OnOnePreserves

LEMMA FirstRequestFails ==
  ASSUME IInv, NEW s \in Sessions, NEW o \in Orders, SendFails(s, o)
  PROVE  IInv'
<1>1. RowLocked(s, o) /\ row[o].id /\ row[o].status \in ACTIVE_ORDER_STATUSES /\ ~row[o].accepted
  BY DEF SendFails, MayBeAsked
<1>2. /\ running[s] /\ lock[o] = None /\ draft[o] = row[o] /\ o \notin took[s]
      /\ OrderInv(o) /\ SessionInv(s, o)
  BY <1>1, AtOneOrder
<1>3. repeated' = {}
  <2>1. ~UnderWay(o)
    BY <1>1, AtOneOrder DEF UnderWay
  <2> QED
    BY <2>1 DEF SendFails, RequestFails, Sent, IInv, NobodyAsksTwice
<1>4. FateOf(s, o, "failed")
  BY FateIsOfOne DEF SendFails, IInv, Fates, Reported
<1>5. /\ book' \in [Orders -> {"absent", "working", "cancelling"} \cup Ended]
      /\ \A p \in Orders \ {o} : book'[p] = book[p]
      /\ fill' = fill
      /\ book'[o] = book[o]
         \/ (book[o] \in {"working", "cancelling"} /\ book'[o] \in {"working", "cancelling", "cancelled"})
  <2>1. CASE UNCHANGED brokerVars
    BY <2>1 DEF brokerVars, IInv, TypeOK
  <2>2. CASE BrokerTakesRequest(o)
    BY <2>2, RequestLeavesItTold
  <2> QED
    BY <2>1, <2>2 DEF SendFails, RequestFails
<1>6. OnOne(s, o)
  <2>1. "failed" \in Fates \ {"none", "listed"}
    BY DEF Fates, Reported
  <2> QED
    BY <1>1, <1>3, <1>4, <1>5, <2>1 DEF OnOne, SendFails, RowLocked, IInv, TypeOK
<1>7. fate'[s][o] = "failed" /\ lock'[o] = s /\ row' = row /\ draft' = draft /\ took' = took
  BY <1>1, <1>4 DEF RowLocked, FateOf, IInv, TypeOK, SendFails
<1>8. OrderInv(o)'
  BY <1>1, <1>2, <1>5, <1>7, NoneIsNobody, Statuses DEF OrderInv, IsTold
<1>9. OpenInv(s, o)'
  BY <1>2, <1>7 DEF OpenInv
<1> QED
  BY <1>2, <1>6, <1>8, <1>9, OnOnePreserves

-----------------------------------------------------------------------------
(* The reads that confirm, and what is asked again. *)

(* A session that has asked for all its orders holds each it still has to come to. *)
LEMMA AtOneHeld ==
  ASSUME IInv, NEW s \in Sessions, NEW o \in Orders, running[s], ~Asking(s),
         fate[s][o] \notin {"none", "listed"}
  PROVE  /\ lock[o] = s /\ waits[s] = None
         /\ lock = [lock EXCEPT ![o] = s] /\ waits = [waits EXCEPT ![s] = None]
         /\ OrderInv(o) /\ OpenInv(s, o) /\ row[o] \in Row /\ draft[o] \in Row
<1>1. lock[o] = s /\ waits[s] = None /\ OrderInv(o) /\ OpenInv(s, o)
      /\ row[o] \in Row /\ draft[o] \in Row
  BY AtOneOrder DEF SessionInv, OpenInv
<1> QED
  BY <1>1 DEF IInv, TypeOK

(* A read that leaves the draft alone: what it makes of the order is all there is to show. *)
LEMMA OnlyTheFate ==
  ASSUME IInv, NEW s \in Sessions, NEW o \in Orders, running[s], ~Asking(s),
         fate[s][o] \in {"asked", "again"},
         NEW f \in {"again", "unconfirmed"}, f = "again" => book[o] # "cancelling" /\ fate[s][o] = "asked",
         Fate(s, o, f), stopped' \in [Sessions -> BOOLEAN],
         acceptedNow' \in [Sessions -> SUBSET Orders],
         UNCHANGED <<brokerVars, rowVars, running, waits, took, repeated>>
  PROVE  IInv'
<1> USE AtOneHeld DEF rowVars, brokerVars
<1>1. FateOf(s, o, f)
  BY FateIsOfOne DEF IInv, Fates, Reported
<1>2. OnOne(s, o)
  <2>1. f \in Fates \ {"none", "listed"}
    BY DEF Fates, Reported
  <2> QED
    BY <1>1, <2>1 DEF OnOne, IInv, TypeOK, NobodyAsksTwice
<1>3. OrderInv(o)'
  BY DEF OrderInv, IsTold
<1>4. OpenInv(s, o)'
  BY <1>1 DEF OpenInv, FateOf
<1> QED
  BY <1>2, <1>3, <1>4, OnOnePreserves

LEMMA ConfirmPreserves ==
  ASSUME IInv, NEW s \in Sessions, NEW o \in Orders, Confirm(s, o)
  PROVE  IInv'
<1>1. running[s] /\ ~Asking(s) /\ fate[s][o] = "asked"
  BY DEF Confirm, ReadFinal, NotSaved, ReadOpen, ReadNothing, ReadFails, NotRead, ToRead, Reading
<1>2. stopped' \in [Sessions -> BOOLEAN] /\ acceptedNow' \in [Sessions -> SUBSET Orders]
  <2>1. stopped' = stopped \/ stopped' = [stopped EXCEPT ![s] = TRUE]
    BY DEF Confirm, ReadFinal, NotSaved, ReadOpen, ReadNothing, ReadFails, NotRead
  <2>2. acceptedNow' = [acceptedNow EXCEPT ![s] = acceptedNow[s] \ {o}]
    BY DEF Confirm, ReadFinal, NotSaved, ReadOpen, ReadNothing, ReadFails, NotRead, Confirmed
  <2> QED
    BY <2>1, <2>2 DEF IInv, TypeOK
<1>3. CASE ReadFinal(s, o)
  <2> DEFINE r == FinalState(draft[o], o)
  <2>1. book[o] \in Ended /\ Fate(s, o, PartOf(book[o])) /\ draft' = [draft EXCEPT ![o] = r]
    BY <1>3 DEF ReadFinal
  <2>2. /\ lock[o] = s /\ waits[s] = None
        /\ lock = [lock EXCEPT ![o] = s] /\ waits = [waits EXCEPT ![s] = None]
        /\ OrderInv(o) /\ OpenInv(s, o) /\ row[o] \in Row /\ draft[o] \in Row /\ row[o].id
    BY <1>1, AtOneHeld DEF OpenInv
  <2>3. r \in Row /\ r.status = book[o] /\ r.id = draft[o].id /\ r.accepted = draft[o].accepted
        /\ r.filled = fill[o]
    BY <2>1, <2>2, FinalStateIsARow DEF IInv, OrderInv
  <2> HIDE DEF r
  <2>4. FateOf(s, o, PartOf(book[o]))
    BY <2>1, FateIsOfOne DEF IInv, PartOf, Fates, Reported
  <2>5. draft' \in [Orders -> Row] /\ draft'[o] = r /\ \A p \in Orders \ {o} : draft'[p] = draft[p]
    BY <2>1, <2>3 DEF IInv, TypeOK
  <2>6. OnOne(s, o)
    <3>1. PartOf(book[o]) \in Fates \ {"none", "listed"}
      BY DEF PartOf, Fates, Reported
    <3> QED
      BY <1>2, <1>3, <2>2, <2>4, <2>5, <3>1
      DEF OnOne, ReadFinal, Confirmed, IInv, TypeOK, NobodyAsksTwice, brokerVars
  <2>7. fill[o] \in 0..Qty /\ row'[o] = row[o] /\ lock'[o] = s /\ book'[o] = book[o] /\ fill'[o] = fill[o]
        /\ took' = took /\ fate'[s][o] = PartOf(book[o])
    BY <1>3, <2>2, <2>4 DEF ReadFinal, Confirmed, brokerVars, IInv, TypeOK, FateOf
  <2>8. OrderInv(o)'
    <3>1. r.filled <= fill[o] /\ row[o].filled <= fill[o] /\ (book[o] = "filled" => fill[o] = Qty)
      BY <2>2, <2>3, <2>7, QtyIsPositive DEF OrderInv
    <3>2. row[o].status \notin TERMINAL_ORDER_STATUSES
      BY <1>1, <2>2, Statuses DEF OpenInv
    <3> QED
      BY <2>2, <2>3, <2>5, <2>7, <3>1, <3>2, NoneIsNobody DEF OrderInv, IsTold
  <2>9. OpenInv(s, o)'
    BY <2>1, <2>2, <2>3, <2>5, <2>7, Statuses DEF OpenInv, PartOf
  <2> QED
    BY <1>1, <2>2, <2>6, <2>8, <2>9, OnOnePreserves
<1>4. CASE NotSaved(s, o) \/ ReadNothing(s, o) \/ ReadFails(s, o) \/ NotRead(s, o)
  BY <1>1, <1>2, <1>4, OnlyTheFate
  DEF NotSaved, ReadNothing, ReadFails, NotRead, Confirmed, rowVars
<1>5. CASE ReadOpen(s, o)
  <2> DEFINE f == IF o \notin acceptedNow[s] /\ book[o] = "working" THEN "again" ELSE "unconfirmed"
  <2>1. f \in {"again", "unconfirmed"} /\ (f = "again" => book[o] # "cancelling") /\ Fate(s, o, f)
    BY <1>5 DEF ReadOpen
  <2> HIDE DEF f
  <2> QED
    BY <1>1, <1>2, <1>5, <2>1, OnlyTheFate DEF ReadOpen, Confirmed, rowVars
<1> QED
  BY <1>3, <1>4, <1>5 DEF Confirm

LEMMA AskAgainPreserves ==
  ASSUME IInv, NEW s \in Sessions, NEW o \in Orders, AskAgain(s, o)
  PROVE  IInv'
<1>1. running[s] /\ ~Asking(s) /\ fate[s][o] = "again"
  BY DEF AskAgain, AskAgainTaken, AskAgainFails, NotAskedAgain, ToAskAgain, Again
<1>2. /\ lock[o] = s /\ waits[s] = None
      /\ lock = [lock EXCEPT ![o] = s] /\ waits = [waits EXCEPT ![s] = None]
      /\ OrderInv(o) /\ OpenInv(s, o) /\ row[o] \in Row /\ draft[o] \in Row
  BY <1>1, AtOneHeld
<1>3. ~UnderWay(o) /\ row[o].id /\ row[o].status \in ACTIVE_ORDER_STATUSES /\ draft[o].accepted
  BY <1>1, <1>2 DEF UnderWay, OpenInv
<1>4. Sent(o) => repeated' = {}
  BY <1>3 DEF Sent, IInv, NobodyAsksTwice
<1>5. CASE AskAgainTaken(s, o)
  <2> DEFINE r == [draft[o] EXCEPT !.accepted = TRUE]
             f == IF s \in Singles THEN "asked" ELSE "unconfirmed"
  <2>1. Fate(s, o, f) /\ draft' = [draft EXCEPT ![o] = r] /\ BrokerTakesRequest(o)
    BY <1>5 DEF AskAgainTaken, AfterAskingAgain, RecordAccepted
  <2>2. r \in Row /\ r.status = draft[o].status /\ r.filled = draft[o].filled
        /\ r.id = draft[o].id /\ r.accepted
    BY <1>2, RowUpdates DEF Row
  <2>3. f \in {"asked", "unconfirmed"}
    OBVIOUS
  <2> HIDE DEF r, f
  <2>4. FateOf(s, o, f)
    BY <2>1, <2>3, FateIsOfOne DEF IInv, Fates, Reported
  <2>5. draft' \in [Orders -> Row] /\ draft'[o] = r /\ \A p \in Orders \ {o} : draft'[p] = draft[p]
    BY <2>1, <2>2 DEF IInv, TypeOK
  <2>6. acceptedNow' \in [Sessions -> SUBSET Orders]
    BY <1>5 DEF AskAgainTaken, AfterAskingAgain, IInv, TypeOK
  <2>7. OnOne(s, o)
    <3>1. f \in Fates \ {"none", "listed"}
      BY <2>3 DEF Fates, Reported
    <3>2. took' = [took EXCEPT ![s] = took[s] \cup {o}]
      BY <1>5 DEF AskAgainTaken, RecordAccepted
    <3> QED
      BY <1>2, <1>4, <1>5, <2>1, <2>4, <2>5, <2>6, <3>1, <3>2, RequestLeavesItTold
      DEF OnOne, AskAgainTaken, IInv, TypeOK
  <2>8. row' = row /\ lock' = lock /\ fate'[s][o] = f
    BY <1>5, <2>4 DEF AskAgainTaken, FateOf
  <2>9. OrderInv(o)'
    <3>1. book[o] \in {"working", "cancelling"} /\ book'[o] \in {"working", "cancelling", "cancelled"}
          /\ fill' = fill
      BY <2>1, RequestLeavesItTold
    <3>2. draft[o].status \notin TERMINAL_ORDER_STATUSES
      BY <1>2, <3>1 DEF OrderInv, IsTold, TERMINAL_ORDER_STATUSES
    <3> QED
      BY <1>2, <1>3, <2>2, <2>5, <2>8, <3>1, <3>2, NoneIsNobody, Statuses DEF OrderInv, IsTold
  <2>10. OpenInv(s, o)'
    BY <1>2, <1>3, <2>2, <2>3, <2>5, <2>8 DEF OpenInv
  <2> QED
    BY <1>1, <1>2, <2>7, <2>9, <2>10, OnOnePreserves
<1>6. CASE AskAgainFails(s, o)
  <2>1. /\ book' \in [Orders -> {"absent", "working", "cancelling"} \cup Ended]
        /\ \A p \in Orders \ {o} : book'[p] = book[p]
        /\ fill' = fill
        /\ book'[o] = book[o]
           \/ (book[o] \in {"working", "cancelling"} /\ book'[o] \in {"working", "cancelling", "cancelled"})
    <3>1. CASE UNCHANGED brokerVars
      BY <3>1 DEF brokerVars, IInv, TypeOK
    <3>2. CASE BrokerTakesRequest(o)
      BY <3>2, RequestLeavesItTold
    <3> QED
      BY <1>6, <3>1, <3>2 DEF AskAgainFails, RequestFails
  <2>2. FateOf(s, o, "failed")
    BY <1>6, FateIsOfOne DEF AskAgainFails, IInv, Fates, Reported
  <2>3. OnOne(s, o)
    <3>1. "failed" \in Fates \ {"none", "listed"}
      BY DEF Fates, Reported
    <3> QED
      BY <1>2, <1>4, <1>6, <2>1, <2>2, <3>1
      DEF OnOne, AskAgainFails, RequestFails, rowVars, IInv, TypeOK
  <2>4. row' = row /\ lock' = lock /\ draft' = draft /\ took' = took /\ fate'[s][o] = "failed"
    BY <1>6, <2>2 DEF AskAgainFails, rowVars, FateOf
  <2>5. OrderInv(o)'
    <3>1. book[o] \in {"working", "cancelling"} => draft[o].status \notin TERMINAL_ORDER_STATUSES
      BY <1>2 DEF OrderInv, IsTold, TERMINAL_ORDER_STATUSES
    <3>2. lock'[o] = s /\ lock[o] = s /\ row'[o] = row[o] /\ draft'[o] = draft[o] /\ fill'[o] = fill[o]
      BY <1>2, <2>1, <2>4
    <3> QED
      BY <1>2, <1>3, <2>1, <3>1, <3>2, NoneIsNobody, Statuses DEF OrderInv, IsTold
  <2>6. OpenInv(s, o)'
    BY <1>2, <2>4 DEF OpenInv
  <2> QED
    BY <1>1, <1>2, <2>3, <2>5, <2>6, OnOnePreserves
<1>7. CASE NotAskedAgain(s, o)
  BY <1>1, <1>7, OnlyTheFate DEF NotAskedAgain, IInv, TypeOK
<1> QED
  BY <1>5, <1>6, <1>7 DEF AskAgain

-----------------------------------------------------------------------------
(* How a session starts, waits and ends. *)

LEMMA BeginPreserves ==
  ASSUME IInv, NEW s \in Sessions, NEW list \in SUBSET Orders, Begin(s, list)
  PROVE  IInv'
<1> DEFINE l == [o \in Orders |-> IF o \in list THEN "listed" ELSE "none"]
<1>1. /\ ~running[s] /\ running' = [running EXCEPT ![s] = TRUE]
      /\ fate' = [fate EXCEPT ![s] = l] /\ took' = [took EXCEPT ![s] = {}]
      /\ UNCHANGED <<book, fill, row, draft, lock, waits, stopped, acceptedNow, repeated>>
  BY DEF Begin, brokerVars, rowVars
<1>2. l \in [Orders -> Fates] /\ \A o \in Orders : l[o] \in {"none", "listed"}
  BY DEF Fates
<1> HIDE DEF l
<1>3. TypeOK'
  BY <1>1, <1>2 DEF IInv, TypeOK
<1>4. ASSUME NEW o \in Orders PROVE OrderInv(o)'
  BY <1>1, AtOneOrder DEF OrderInv, IsTold
<1>5. ASSUME NEW t \in Sessions, NEW o \in Orders PROVE SessionInv(t, o)'
  <2>1. SessionInv(t, o)
    BY AtOneOrder
  <2>2. CASE t = s
    <3>1. running'[s] /\ fate'[s][o] \in {"none", "listed"} /\ took'[s] = {} /\ lock[o] # s /\ waits[s] # o
      BY <1>1, <1>2, <2>1, <2>2 DEF IInv, TypeOK, SessionInv, OverInv
    <3> QED
      BY <1>1, <2>2, <3>1 DEF SessionInv, OpenInv
  <2>3. CASE t # s
    <3>1. running'[t] = running[t] /\ fate'[t] = fate[t] /\ took'[t] = took[t]
      BY <1>1, <2>3 DEF IInv, TypeOK
    <3> QED
      BY <1>1, <2>1, <3>1 DEF SessionInv, OpenInv, OverInv
  <2> QED
    BY <2>2, <2>3
<1> QED
  BY <1>1, <1>3, <1>4, <1>5 DEF IInv, NobodyAsksTwice

LEMMA AskForRowPreserves ==
  ASSUME IInv, NEW s \in Sessions, NEW o \in Orders, AskForRow(s, o)
  PROVE  IInv'
<1>1. /\ running[s] /\ fate[s][o] = "listed" /\ waits' = [waits EXCEPT ![s] = o]
      /\ UNCHANGED <<book, fill, row, draft, lock, running, fate, stopped, acceptedNow, took, repeated>>
  BY DEF AskForRow, Asking, brokerVars, rowVars
<1>2. TypeOK'
  BY <1>1 DEF IInv, TypeOK
<1>3. ASSUME NEW p \in Orders PROVE OrderInv(p)'
  BY <1>1, AtOneOrder DEF OrderInv, IsTold
<1>4. ASSUME NEW t \in Sessions, NEW p \in Orders PROVE SessionInv(t, p)'
  <2>1. SessionInv(t, p) /\ waits'[t] = IF t = s THEN o ELSE waits[t]
    BY <1>1, AtOneOrder DEF IInv, TypeOK
  <2> QED
    BY <1>1, <2>1 DEF SessionInv, OpenInv, OverInv
<1> QED
  BY <1>1, <1>2, <1>3, <1>4 DEF IInv, NobodyAsksTwice

(* What LetGo does to a row. *)
LEMMA RowsLetGo ==
  ASSUME IInv, NEW s \in Sessions, LetGo(s)
  PROVE  /\ lock' \in [Orders -> Sessions \cup {None}]
         /\ \A o \in Orders : lock'[o] = IF lock[o] = s THEN None ELSE lock[o]
         /\ running' \in [Sessions -> BOOLEAN]
         /\ ~running'[s] /\ \A t \in Sessions \ {s} : running'[t] = running[t]
         /\ waits' \in [Sessions -> Orders \cup {None}]
         /\ \A t \in Sessions : waits'[t] = IF t = s THEN None ELSE waits[t]
         /\ stopped' \in [Sessions -> BOOLEAN] /\ acceptedNow' \in [Sessions -> SUBSET Orders]
         /\ UNCHANGED <<book, fill, repeated>>
BY DEF LetGo, IInv, TypeOK, brokerVars

LEMMA CommitPreserves ==
  ASSUME IInv, NEW s \in Sessions, Commit(s)
  PROVE  IInv'
<1>1. /\ running[s] /\ \A o \in Orders : fate[s][o] \in Reported \cup {"none"}
      /\ row' = [o \in Orders |-> IF lock[o] = s THEN draft[o] ELSE row[o]]
      /\ LetGo(s) /\ UNCHANGED <<draft, fate, took>>
  BY DEF Commit, OneIsReported, AllAreReported, Through
<1>2. row' \in [Orders -> Row] /\ \A o \in Orders : row'[o] = IF lock[o] = s THEN draft[o] ELSE row[o]
  BY <1>1 DEF IInv, TypeOK
<1>3. TypeOK'
  BY <1>1, <1>2, RowsLetGo DEF IInv, TypeOK
<1>4. ASSUME NEW o \in Orders PROVE OrderInv(o)'
  <2>1. OrderInv(o)
    BY AtOneOrder
  <2>2. CASE lock[o] = s
    <3>1. row'[o] = draft[o] /\ draft' = draft /\ book' = book /\ fill' = fill
      BY <1>1, <1>2, <2>2, RowsLetGo
    <3> QED
      BY <2>1, <3>1 DEF OrderInv, IsTold
  <2>3. CASE lock[o] # s
    <3>1. lock'[o] = lock[o] /\ row'[o] = row[o] /\ draft' = draft /\ book' = book /\ fill' = fill
      BY <1>1, <1>2, <2>3, RowsLetGo
    <3> QED
      BY <2>1, <3>1 DEF OrderInv, IsTold
  <2> QED
    BY <2>2, <2>3
<1>5. ASSUME NEW t \in Sessions, NEW o \in Orders PROVE SessionInv(t, o)'
  <2>1. SessionInv(t, o) /\ SessionInv(s, o) /\ OrderInv(o)
    BY AtOneOrder
  <2>2. None # s /\ None # t /\ None # o
    BY NoneIsNobody
  <2>3. CASE t = s
    <3>1. ~running'[s] /\ lock'[o] # s /\ waits'[s] = None /\ fate' = fate /\ took' = took
          /\ fate[s][o] \in Reported \cup {"none"} /\ OpenInv(s, o)
      BY <1>1, <2>1, <2>2, RowsLetGo DEF SessionInv
    <3>2. fate[s][o] # "none" => row'[o] = draft[o]
      BY <1>2, <3>1 DEF OpenInv, Reported
    <3>3. OverInv(s, o)'
      BY <3>1, <3>2 DEF OpenInv, OverInv
    <3> QED
      BY <2>2, <2>3, <3>1, <3>3 DEF SessionInv
  <2>4. CASE t # s
    <3>1. /\ running'[t] = running[t] /\ waits'[t] = waits[t] /\ fate' = fate /\ took' = took
          /\ draft' = draft /\ book' = book /\ (lock'[o] = t <=> lock[o] = t)
          /\ row'[o] = IF lock[o] = s THEN draft[o] ELSE row[o]
      BY <1>1, <1>2, <2>2, <2>4, RowsLetGo
    <3>2. CASE lock[o] # s
      BY <2>1, <3>1, <3>2 DEF SessionInv, OpenInv, OverInv
    <3>3. CASE lock[o] = s
      <4>1. row'[o] = draft[o] /\ lock[o] # t /\ lock'[o] # t
        BY <2>4, <3>1, <3>3
      <4>2. CASE running[t]
        BY <2>1, <3>1, <4>1, <4>2 DEF SessionInv, OpenInv
      <4>3. CASE ~running[t]
        <5>1. OverInv(t, o)
          BY <2>1, <4>3 DEF SessionInv
        <5>2. OverInv(t, o)'
          BY <2>1, <3>1, <4>1, <5>1, Statuses DEF OverInv, OrderInv
        <5> QED
          BY <2>1, <3>1, <4>3, <5>2 DEF SessionInv
      <4> QED
        BY <4>2, <4>3
    <3> QED
      BY <3>2, <3>3
  <2> QED
    BY <2>3, <2>4
<1> QED
  BY <1>3, <1>4, <1>5, RowsLetGo, <1>1 DEF IInv, NobodyAsksTwice

LEMMA UndoPreserves ==
  ASSUME IInv, NEW s \in Sessions, Undo(s)
  PROVE  IInv'
<1> DEFINE none == [o \in Orders |-> "none"]
<1>1. /\ draft' = [o \in Orders |-> IF lock[o] = s THEN row[o] ELSE draft[o]]
      /\ fate' = [fate EXCEPT ![s] = none] /\ took' = [took EXCEPT ![s] = {}]
      /\ LetGo(s) /\ row' = row
  BY DEF Undo
<1>2. draft' \in [Orders -> Row] /\ \A o \in Orders : draft'[o] = IF lock[o] = s THEN row[o] ELSE draft[o]
  BY <1>1 DEF IInv, TypeOK
<1>3. none \in [Orders -> Fates] /\ \A o \in Orders : none[o] = "none"
  BY DEF Fates
<1> HIDE DEF none
<1>4. /\ fate' \in [Sessions -> [Orders -> Fates]] /\ took' \in [Sessions -> SUBSET Orders]
      /\ fate'[s] = none /\ took'[s] = {}
      /\ \A t \in Sessions \ {s} : fate'[t] = fate[t] /\ took'[t] = took[t]
  BY <1>1, <1>3 DEF IInv, TypeOK
<1>5. TypeOK'
  BY <1>1, <1>2, <1>4, RowsLetGo DEF IInv, TypeOK
<1>6. ASSUME NEW o \in Orders PROVE OrderInv(o)'
  <2>1. OrderInv(o)
    BY AtOneOrder
  <2>2. CASE lock[o] = s
    <3>1. draft'[o] = row[o] /\ row'[o] = row[o] /\ book' = book /\ fill' = fill
      BY <1>1, <1>2, <2>2, RowsLetGo
    <3> QED
      BY <2>1, <3>1 DEF OrderInv, IsTold
  <2>3. CASE lock[o] # s
    <3>1. lock'[o] = lock[o] /\ row' = row /\ draft'[o] = draft[o] /\ book' = book /\ fill' = fill
      BY <1>1, <1>2, <2>3, RowsLetGo
    <3> QED
      BY <2>1, <3>1 DEF OrderInv, IsTold
  <2> QED
    BY <2>2, <2>3
<1>7. ASSUME NEW t \in Sessions, NEW o \in Orders PROVE SessionInv(t, o)'
  <2>1. SessionInv(t, o)
    BY AtOneOrder
  <2>2. None # s /\ None # t /\ None # o
    BY NoneIsNobody
  <2>3. CASE t = s
    <3>1. ~running'[s] /\ lock'[o] # s /\ waits'[s] = None /\ fate'[s][o] = "none"
      BY <1>1, <1>3, <1>4, <2>2, RowsLetGo
    <3> QED
      BY <2>2, <2>3, <3>1 DEF SessionInv, OverInv
  <2>4. CASE t # s
    <3>1. /\ running'[t] = running[t] /\ waits'[t] = waits[t] /\ fate'[t] = fate[t] /\ took'[t] = took[t]
          /\ row' = row /\ book' = book /\ (lock'[o] = t <=> lock[o] = t)
          /\ (lock[o] # s => draft'[o] = draft[o])
      BY <1>1, <1>2, <1>4, <2>2, <2>4, RowsLetGo
    <3>2. CASE running[t]
      BY <2>1, <2>4, <3>1, <3>2 DEF SessionInv, OpenInv, Reported
    <3>3. CASE ~running[t]
      BY <2>1, <3>1, <3>3 DEF SessionInv, OverInv
    <3> QED
      BY <3>2, <3>3
  <2> QED
    BY <2>3, <2>4
<1> QED
  BY <1>1, <1>5, <1>6, <1>7, RowsLetGo DEF IInv, NobodyAsksTwice

-----------------------------------------------------------------------------
(* The broker and the reconciler. *)

(* The sessions know of the broker only that what they would ask again is not under way. *)
LEMMA BrokerPreserves ==
  ASSUME IInv, NEW o \in Orders, BrokerFills(o) \/ BrokerEnds(o)
  PROVE  IInv'
<1>1. /\ UNCHANGED <<row, draft, lock, running, waits, fate, stopped, acceptedNow, took, repeated>>
      /\ book[o] \in {"working", "cancelling"}
      /\ book' \in [Orders -> {"absent", "working", "cancelling"} \cup Ended]
      /\ fill' \in [Orders -> 0..Qty]
      /\ \A p \in Orders \ {o} : book'[p] = book[p] /\ fill'[p] = fill[p]
      /\ fill[o] \in 0..Qty /\ fill[o] <= fill'[o]
      /\ book'[o] = "filled" => fill'[o] = Qty
      /\ book'[o] = "cancelling" => book[o] = "cancelling"
      /\ book'[o] # "absent"
  <2>1. CASE BrokerFills(o)
    <3>1. fill[o] \in 0..Qty /\ fill[o] < Qty /\ fill[o] + 1 \in 0..Qty /\ Qty \in Nat
      BY <2>1, QtyIsPositive DEF BrokerFills, IInv, TypeOK
    <3>2. /\ book' = [book EXCEPT ![o] = IF fill[o] + 1 = Qty THEN "filled" ELSE book[o]]
          /\ fill' = [fill EXCEPT ![o] = fill[o] + 1]
          /\ book[o] \in {"working", "cancelling"}
      BY <2>1 DEF BrokerFills
    <3>3. fill'[o] = fill[o] + 1 /\ book'[o] = IF fill[o] + 1 = Qty THEN "filled" ELSE book[o]
      BY <3>2 DEF IInv, TypeOK
    <3> QED
      BY <2>1, <3>1, <3>2, <3>3 DEF BrokerFills, Ended, rowVars, sessionVars, IInv, TypeOK
  <2>2. CASE BrokerEnds(o)
    BY <2>2, QtyIsPositive DEF BrokerEnds, Ended, rowVars, sessionVars, IInv, TypeOK
  <2> QED
    BY <2>1, <2>2
<1>2. TypeOK'
  BY <1>1 DEF IInv, TypeOK
<1>3. ASSUME NEW p \in Orders PROVE OrderInv(p)'
  <2>1. OrderInv(p) /\ row[p] \in Row /\ draft[p] \in Row
    BY DEF IInv, TypeOK
  <2>2. CASE p # o
    BY <1>1, <2>1, <2>2 DEF OrderInv, IsTold
  <2>3. CASE p = o
    <3>1. row[o].filled \in 0..Qty /\ draft[o].filled \in 0..Qty /\ Qty \in Nat /\ fill'[o] \in 0..Qty
      BY <1>1, <2>1, <2>3, QtyIsPositive DEF Row
    <3>2. row[o].filled <= fill'[o] /\ draft[o].filled <= fill'[o]
      BY <1>1, <2>1, <2>3, <3>1 DEF OrderInv
    <3>3. row[o].status \notin TERMINAL_ORDER_STATUSES /\ draft[o].status \notin TERMINAL_ORDER_STATUSES
      BY <1>1, <2>1, <2>3 DEF OrderInv, IsTold, TERMINAL_ORDER_STATUSES
    <3> QED
      BY <1>1, <2>1, <2>3, <3>2, <3>3 DEF OrderInv, IsTold
  <2> QED
    BY <2>2, <2>3
<1>4. ASSUME NEW t \in Sessions, NEW p \in Orders PROVE SessionInv(t, p)'
  <2>1. SessionInv(t, p)
    BY AtOneOrder
  <2>2. book'[p] = "cancelling" => book[p] = "cancelling"
    BY <1>1
  <2> QED
    BY <1>1, <2>1, <2>2 DEF SessionInv, OpenInv, OverInv
<1> QED
  BY <1>1, <1>2, <1>3, <1>4 DEF IInv, NobodyAsksTwice

(* The reconciler writes rows that no session holds, so no session has said anything of them *)
(* that is not on record already.                                                            *)
LEMMA ReconcilerPreserves ==
  ASSUME IInv, NEW o \in Orders, Reconciler(o)
  PROVE  IInv'
<1>1. lock[o] = None /\ row[o].id /\ row[o].status \in ACTIVE_ORDER_STATUSES
  BY DEF Reconciler, ReconcilerSettles, ReconcilerSeesWorking, Due
<1>2. OrderInv(o) /\ draft[o] = row[o] /\ row[o] \in Row
  BY <1>1 DEF IInv, TypeOK, OrderInv
<1>3. \E r \in Row :
        /\ row' = [row EXCEPT ![o] = r] /\ draft' = [draft EXCEPT ![o] = r]
        /\ r.id = row[o].id /\ r.accepted = row[o].accepted /\ r.filled <= fill[o]
        /\ r.status \in TERMINAL_ORDER_STATUSES => r.status = book[o] /\ r.filled = fill[o]
        /\ UNCHANGED <<book, fill, lock, running, waits, fate, stopped, acceptedNow, took, repeated>>
  <2>1. CASE ReconcilerSettles(o)
    <3> DEFINE r == FinalState(row[o], o)
    <3>1. book[o] \in Ended /\ row' = [row EXCEPT ![o] = r] /\ draft' = [draft EXCEPT ![o] = r]
      BY <2>1 DEF ReconcilerSettles
    <3>2. r \in Row /\ r.status = book[o] /\ r.id = row[o].id /\ r.accepted = row[o].accepted
          /\ r.filled = fill[o]
      BY <1>2, <3>1, FinalStateIsARow DEF IInv, OrderInv
    <3>3. fill[o] <= fill[o]
      BY QtyIsPositive DEF IInv, TypeOK
    <3> HIDE DEF r
    <3> QED
      BY <2>1, <3>1, <3>2, <3>3 DEF ReconcilerSettles, brokerVars, sessionVars
  <2>2. CASE ReconcilerSeesWorking(o)
    <3> DEFINE r == [row[o] EXCEPT !.status = "accepted"]
    <3>1. row' = [row EXCEPT ![o] = r] /\ draft' = [draft EXCEPT ![o] = r]
      BY <1>2, <2>2 DEF ReconcilerSeesWorking
    <3>2. r \in Row /\ r.status = "accepted" /\ r.id = row[o].id /\ r.accepted = row[o].accepted
          /\ r.filled = row[o].filled
      BY <1>2, RowUpdates DEF Row
    <3> HIDE DEF r
    <3> QED
      BY <1>2, <2>2, <3>1, <3>2, Statuses DEF ReconcilerSeesWorking, brokerVars, sessionVars, OrderInv
  <2> QED
    BY <2>1, <2>2 DEF Reconciler
<1>4. PICK r \in Row :
        /\ row' = [row EXCEPT ![o] = r] /\ draft' = [draft EXCEPT ![o] = r]
        /\ r.id = row[o].id /\ r.accepted = row[o].accepted /\ r.filled <= fill[o]
        /\ r.status \in TERMINAL_ORDER_STATUSES => r.status = book[o] /\ r.filled = fill[o]
        /\ UNCHANGED <<book, fill, lock, running, waits, fate, stopped, acceptedNow, took, repeated>>
  BY <1>3
<1>5. /\ row'[o] = r /\ draft'[o] = r
      /\ \A p \in Orders \ {o} : row'[p] = row[p] /\ draft'[p] = draft[p]
  BY <1>4 DEF IInv, TypeOK
<1>6. TypeOK'
  BY <1>4 DEF IInv, TypeOK
<1>7. ASSUME NEW p \in Orders PROVE OrderInv(p)'
  <2>1. OrderInv(p)
    BY DEF IInv
  <2>2. CASE p # o
    BY <1>4, <1>5, <2>1, <2>2 DEF OrderInv, IsTold
  <2>3. CASE p = o
    BY <1>1, <1>4, <1>5, <2>1, <2>3 DEF OrderInv, IsTold
  <2> QED
    BY <2>2, <2>3
<1>8. ASSUME NEW t \in Sessions, NEW p \in Orders PROVE SessionInv(t, p)'
  <2>1. SessionInv(t, p) /\ None # t
    BY AtOneOrder, NoneIsNobody
  <2>2. CASE p # o
    BY <1>4, <1>5, <2>1, <2>2 DEF SessionInv, OpenInv, OverInv
  <2>3. CASE p = o /\ running[t]
    BY <1>1, <1>4, <2>1, <2>3 DEF SessionInv, OpenInv
  <2>4. CASE p = o /\ ~running[t]
    <3>1. OverInv(t, o)
      BY <2>1, <2>4 DEF SessionInv
    <3>2. fate[t][o] \notin {"cancelled", "finished"}
      BY <1>1, <3>1, Statuses DEF OverInv
    <3>3. OverInv(t, o)'
      BY <1>4, <1>5, <3>1, <3>2 DEF OverInv
    <3> QED
      BY <1>4, <2>1, <2>4, <3>3 DEF SessionInv
  <2> QED
    BY <2>2, <2>3, <2>4
<1> QED
  BY <1>4, <1>6, <1>7, <1>8 DEF IInv, NobodyAsksTwice

-----------------------------------------------------------------------------
(* The invariant, and what follows from it. *)

LEMMA InitEstablishesIt == Init => IInv
<1> SUFFICES ASSUME Init PROVE IInv
  OBVIOUS
<1>1. TypeOK
  <2>1. row \in [Orders -> Row]
    <3>1. [status: ACTIVE_ORDER_STATUSES, filled: 0..(Qty - 1), id: BOOLEAN, accepted: {FALSE}] \subseteq Row
      <4>1. 0..(Qty - 1) \subseteq 0..Qty /\ {FALSE} \subseteq BOOLEAN
            /\ ACTIVE_ORDER_STATUSES \subseteq KNOWN_ORDER_STATUSES
        BY QtyIsPositive DEF KNOWN_ORDER_STATUSES
      <4> QED
        BY <4>1 DEF Row
    <3> QED
      BY <3>1 DEF Init
  <2>2. fill \in [Orders -> 0..Qty]
    BY <2>1 DEF Init, Row
  <2> QED
    BY <2>1, <2>2, NoneIsNobody DEF Init, TypeOK, Fates
<1>2. ASSUME NEW o \in Orders PROVE OrderInv(o)
  <2>1. /\ row[o].status \in ACTIVE_ORDER_STATUSES /\ row[o].filled \in 0..Qty /\ ~row[o].accepted
        /\ draft = row /\ fill[o] = row[o].filled /\ book[o] \in {"absent", "working"}
        /\ Prepared(o) \/ Unanswered(o) \/ Acknowledged(o)
    BY <1>1 DEF Init, TypeOK, Row
  <2>2. row[o].filled <= fill[o]
    BY <2>1, QtyIsPositive
  <2> QED
    BY <2>1, <2>2, Statuses DEF OrderInv, IsTold, Prepared, Unanswered, Acknowledged
<1>3. ASSUME NEW s \in Sessions, NEW o \in Orders PROVE SessionInv(s, o)
  BY NoneIsNobody DEF Init, SessionInv, OverInv
<1> QED
  BY <1>1, <1>2, <1>3 DEF IInv, NobodyAsksTwice, Init

LEMMA StepPreservesIt == IInv /\ [Next]_vars => IInv'
<1> SUFFICES ASSUME IInv, [Next]_vars PROVE IInv'
  OBVIOUS
<1>1. ASSUME NEW s \in Sessions, NEW o \in Orders, Request(s, o) PROVE IInv'
  BY <1>1, AskForRowPreserves, EndedRowIsFound, UnknownIsBlocked, LocalIsCancelled, AcceptedIsFound,
     FirstRequestIsTaken, FirstRequestFails DEF Request
<1>2. ASSUME NEW s \in Sessions, GoOn(s) PROVE IInv'
  BY <1>1, <1>2, ConfirmPreserves, AskAgainPreserves, CommitPreserves DEF GoOn
<1>3. CASE UNCHANGED vars
  <2>1. UNCHANGED <<book, fill, row, draft, lock, running, waits, fate, stopped, acceptedNow, took, repeated>>
    BY <1>3 DEF vars, brokerVars, rowVars, sessionVars
  <2> QED
    BY <2>1 DEF IInv, TypeOK, OrderInv, IsTold, SessionInv, OpenInv, OverInv, NobodyAsksTwice
<1>4. CASE Next
  BY <1>2, <1>4, BeginPreserves, UndoPreserves, BrokerPreserves, ReconcilerPreserves
  DEF Next, Abort, DeadlockVictim
<1> QED
  BY <1>3, <1>4

(* A session holds a row from when it looks at it until its report goes out: the sentences  *)
(* above about locks, drafts and the committed rows hold in every reachable state           *)
(* (request_cancel's SELECT ... FOR UPDATE and cancel_many's single commit).                *)
THEOREM DraftsAreHeldUntilReported == Spec => []IInv
<1>1. Init => IInv
  BY InitEstablishesIt
<1>2. IInv /\ [Next]_vars => IInv'
  BY StepPreservesIt
<1> QED
  BY <1>1, <1>2, PTL DEF Spec

(* An order is never ended here while it may be live at the broker, and what is on record of *)
(* an ended one is how it ended and how much of it filled first (confirm_cancel).            *)
THEOREM NothingLiveIsHidden == Spec => []NoLiveOrderIsHidden
<1>1. IInv => NoLiveOrderIsHidden
  BY DEF IInv, OrderInv, IsTold, NoLiveOrderIsHidden
<1> QED
  BY <1>1, DraftsAreHeldUntilReported, PTL

(* What a session did and what it reported is what the committed rows say: what the request  *)
(* was accepted for is on record, and what was called cancelled is (cancel_many's report).   *)
THEOREM WhatIsReportedIsOnRecord == Spec => []ReportIsTrue
<1>1. IInv => ReportIsTrue
  BY DEF IInv, SessionInv, OverInv, ReportIsTrue, AcceptedIsOnRecord
<1> QED
  BY <1>1, DraftsAreHeldUntilReported, PTL

(* The broker is never asked for an order it is known to be cancelling already               *)
(* (request_cancel reads the accepted event under the row's lock).                           *)
THEOREM NothingIsAskedTwice == Spec => []NobodyAsksTwice
<1>1. IInv => NobodyAsksTwice
  BY DEF IInv
<1> QED
  BY <1>1, DraftsAreHeldUntilReported, PTL
=============================================================================
