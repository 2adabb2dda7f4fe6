-------------------------- MODULE EodFlattenProofs --------------------------
(***************************************************************************)
(* Proofs about EodFlatten, for any number of strategies, workers and      *)
(* sessions, workers that overlap included: first who may send and what    *)
(* blocks it (IInv), then how much there is to sell (FiguresInv).          *)
(***************************************************************************)
EXTENDS EodFlatten, FiniteSetTheorems, TLAPS

(***************************************************************************)
(* Total, by which shares are added up: it is a number, it changes by what *)
(* the number at one place does, and it is none when every number is.      *)
(***************************************************************************)

\* The shares at a place are as many as its number says, or none.
LEMMA CountAtOne ==
  ASSUME NEW x, NEW n \in Int
  PROVE  /\ IsFiniteSet({x} \X (1..n))
         /\ Cardinality({x} \X (1..n)) = IF n > 0 THEN n ELSE 0
<1>1. IsFiniteSet({x}) /\ Cardinality({x}) = 1
  BY FS_Singleton
<1>2. IsFiniteSet(1..n) /\ Cardinality(1..n) = IF n > 0 THEN n ELSE 0
  BY FS_Interval
<1>3. /\ IsFiniteSet({x} \X (1..n))
      /\ Cardinality({x} \X (1..n)) = Cardinality({x}) * Cardinality(1..n)
  BY <1>1, <1>2, FS_Product
<1> QED
  BY <1>1, <1>2, <1>3

\* Finitely many places hold finitely many shares.
LEMMA CountIsFinite ==
  ASSUME NEW S, IsFiniteSet(S), NEW f \in [S -> Int]
  PROVE  IsFiniteSet(UNION {{y} \X (1..f[y]) : y \in S})
<1>1. PICK h : h = [y \in S |-> {y} \X (1..f[y])]
  OBVIOUS
<1>2. PICK T : T = {{y} \X (1..f[y]) : y \in S}
  OBVIOUS
<1>3. h \in Surjection(S, T)
  <2>1. h \in [S -> T]
    BY <1>1, <1>2
  <2>2. \A t \in T : \E y \in S : h[y] = t
    BY <1>1, <1>2
  <2> QED
    BY <2>1, <2>2 DEF Surjection
<1>4. IsFiniteSet(T)
  BY <1>3, FS_Surjection
<1>5. ASSUME NEW t \in T PROVE IsFiniteSet(t)
  <2>1. PICK y \in S : t = {y} \X (1..f[y])
    BY <1>2
  <2>2. f[y] \in Int
    OBVIOUS
  <2> QED
    BY <2>1, <2>2, CountAtOne
<1> QED
  BY <1>2, <1>4, <1>5, FS_UNION

\* A count is of what is at one place and of what is at the others.
LEMMA CountSplit ==
  ASSUME NEW S, IsFiniteSet(S), NEW f \in [S -> Int], NEW x \in S
  PROVE  /\ IsFiniteSet(UNION {{y} \X (1..f[y]) : y \in S \ {x}})
         /\ Count(f) = Cardinality(UNION {{y} \X (1..f[y]) : y \in S \ {x}})
                         + (IF f[x] > 0 THEN f[x] ELSE 0)
<1> DEFINE At(y) == {y} \X (1..f[y])
           Rest == UNION {At(y) : y \in S \ {x}}
<1>1. IsFiniteSet(S \ {x})
  BY FS_Subset
<1>2. PICK r : r = [y \in S \ {x} |-> f[y]]
  OBVIOUS
<1>3. r \in [S \ {x} -> Int] /\ \A y \in S \ {x} : r[y] = f[y]
  BY <1>2
<1>4. IsFiniteSet(Rest)
  <2>1. IsFiniteSet(UNION {{y} \X (1..r[y]) : y \in S \ {x}})
    BY <1>1, <1>3, CountIsFinite
  <2>2. {{y} \X (1..r[y]) : y \in S \ {x}} = {At(y) : y \in S \ {x}}
    BY <1>3
  <2> QED
    BY <2>1, <2>2
<1>5. IsFiniteSet(At(x)) /\ Cardinality(At(x)) = IF f[x] > 0 THEN f[x] ELSE 0
  BY CountAtOne
<1>6. Rest \cap At(x) = {}
  OBVIOUS
<1>7. UNION {At(y) : y \in S} = Rest \cup At(x)
  OBVIOUS
<1>8. Cardinality(Rest \cup At(x))
        = Cardinality(Rest) + Cardinality(At(x)) - Cardinality(Rest \cap At(x))
  BY <1>4, <1>5, FS_Union
<1>9. Cardinality(Rest \cap At(x)) = 0
  BY <1>6, FS_EmptySet
<1>10. Cardinality(Rest) \in Nat /\ Cardinality(At(x)) \in Nat
  BY <1>4, <1>5, FS_CardinalityType
<1>11. Count(f) = Cardinality(UNION {At(y) : y \in S})
  BY DEF Count
<1>12. Count(f) = Cardinality(Rest \cup At(x))
  BY <1>7, <1>11
<1>13. Count(f) = Cardinality(Rest) + Cardinality(At(x))
  <2> HIDE DEF Rest, At
  <2> QED
    BY <1>8, <1>9, <1>10, <1>12
<1> QED
  BY <1>4, <1>5, <1>13

LEMMA CountType ==
  ASSUME NEW S, IsFiniteSet(S), NEW f \in [S -> Int]
  PROVE  Count(f) \in Nat
  BY CountIsFinite, FS_CardinalityType DEF Count

LEMMA CountNone ==
  ASSUME NEW S, NEW f \in [S -> Int], \A x \in S : f[x] <= 0
  PROVE  Count(f) = 0
<1>1. UNION {{x} \X (1..f[x]) : x \in S} = {}
  OBVIOUS
<1> QED
  BY <1>1, FS_EmptySet DEF Count

LEMMA CountChange ==
  ASSUME NEW S, IsFiniteSet(S), NEW f \in [S -> Int], NEW g \in [S -> Int],
         NEW x \in S, \A y \in S \ {x} : f[y] = g[y]
  PROVE  Count(g) = Count(f) - (IF f[x] > 0 THEN f[x] ELSE 0)
                             + (IF g[x] > 0 THEN g[x] ELSE 0)
<1> DEFINE Rest(h) == Cardinality(UNION {{y} \X (1..h[y]) : y \in S \ {x}})
<1>1. Rest(f) = Rest(g)
  <2>1. {{y} \X (1..f[y]) : y \in S \ {x}} = {{y} \X (1..g[y]) : y \in S \ {x}}
    OBVIOUS
  <2> QED
    BY <2>1
<1>2. Rest(f) \in Nat
  BY CountSplit, FS_CardinalityType
<1>3. Count(f) = Rest(f) + (IF f[x] > 0 THEN f[x] ELSE 0)
  BY CountSplit
<1>4. Count(g) = Rest(g) + (IF g[x] > 0 THEN g[x] ELSE 0)
  BY CountSplit
<1> HIDE DEF Rest
<1> QED
  BY <1>1, <1>2, <1>3, <1>4

LEMMA TotalType ==
  ASSUME NEW S, IsFiniteSet(S), NEW f \in [S -> Int]
  PROVE  Total(f) \in Int
<1>1. [x \in S |-> 0 - f[x]] \in [S -> Int] /\ DOMAIN f = S
  OBVIOUS
<1> QED
  BY <1>1, CountType DEF Total

\* A total changes by what its one number that changes does.
LEMMA TotalChange ==
  ASSUME NEW S, IsFiniteSet(S), NEW f \in [S -> Int], NEW g \in [S -> Int],
         NEW x \in S, \A y \in S \ {x} : f[y] = g[y]
  PROVE  Total(g) = Total(f) - f[x] + g[x]
<1>1. PICK u : u = [y \in S |-> 0 - f[y]]
  OBVIOUS
<1>2. PICK v : v = [y \in S |-> 0 - g[y]]
  OBVIOUS
<1>3. u \in [S -> Int] /\ v \in [S -> Int] /\ \A y \in S \ {x} : u[y] = v[y]
  BY <1>1, <1>2
<1>4. Total(f) = Count(f) - Count(u) /\ Total(g) = Count(g) - Count(v)
  BY <1>1, <1>2 DEF Total
<1>5. Count(f) \in Nat /\ Count(g) \in Nat /\ Count(u) \in Nat /\ Count(v) \in Nat
  BY <1>3, CountType
<1>6. Count(g) = Count(f) - (IF f[x] > 0 THEN f[x] ELSE 0) + (IF g[x] > 0 THEN g[x] ELSE 0)
  BY CountChange
<1>7. Count(v) = Count(u) - (IF u[x] > 0 THEN u[x] ELSE 0) + (IF v[x] > 0 THEN v[x] ELSE 0)
  BY <1>3, CountChange
<1>8. u[x] = 0 - f[x] /\ v[x] = 0 - g[x] /\ f[x] \in Int /\ g[x] \in Int
  BY <1>1, <1>2
<1> QED
  BY <1>4, <1>5, <1>6, <1>7, <1>8

LEMMA TotalZero ==
  ASSUME NEW S, NEW f \in [S -> Int], \A x \in S : f[x] = 0
  PROVE  Total(f) = 0
<1>1. [x \in S |-> 0 - f[x]] \in [S -> Int] /\ DOMAIN f = S
      /\ \A x \in S : [y \in S |-> 0 - f[y]][x] <= 0 /\ f[x] <= 0
  OBVIOUS
<1> QED
  BY <1>1, CountNone DEF Total

LEMMA TotalNat ==
  ASSUME NEW S, IsFiniteSet(S), NEW f \in [S -> Nat]
  PROVE  Total(f) \in Nat
<1>1. f \in [S -> Int] /\ [x \in S |-> 0 - f[x]] \in [S -> Int] /\ DOMAIN f = S
      /\ \A x \in S : [y \in S |-> 0 - f[y]][x] <= 0
  OBVIOUS
<1>2. Count([x \in S |-> 0 - f[x]]) = 0 /\ Count(f) \in Nat
  BY <1>1, CountNone, CountType
<1> QED
  BY <1>1, <1>2 DEF Total

(* The types of what the first two properties rest on; what is bought and sold comes *)
(* later.                                                                            *)
Sending == {"submit", "dispatched", "sent", "conclude"}
AtHand  == {"weigh", "decide", "mark"} \cup Sending

OrderRow == [status: KNOWN_ORDER_STATUSES \cup {"absent"}, filled: Nat]
BrokerOrder == [state: {"absent", "flying", "working", "filled", "cancelled", "rejected"},
                fill: Nat, sent: Nat]

Shape ==
  /\ today \in Days
  /\ op \in [Strategies -> [Days -> OpStatus]]
  /\ row \in [Strategies -> [Days -> OrderRow]]
  /\ book \in [Strategies -> [Days -> BrokerOrder]]
  /\ pc \in [Workers -> Steps]
  /\ session \in [Workers -> Days]
  /\ todo \in [Workers -> SUBSET Strategies]
  /\ cur \in [Workers -> Strategies \cup {None}]
  /\ candidates \in [Workers -> SUBSET Strategies]
  /\ target \in [Workers -> Days]
  /\ verdict \in [Workers -> OpStatus]
  /\ \A w \in Workers : pc[w] \in AtHand => cur[w] \in Strategies

(* A run works on the current session only: no operation lies ahead of it. *)
RunsAreOfToday ==
  /\ \A w \in Workers : pc[w] # "idle" => session[w] = today
  /\ \A s \in Strategies, d \in Days : op[s][d] # "none" => d <= today

(* A worker that sends has claimed the key, and nobody else has; until it transmits, *)
(* nothing was sent.                                                                 *)
ClaimsAreExclusive ==
  /\ \A w \in Workers : pc[w] \in Sending =>
       /\ target[w] = session[w]
       /\ cur[w] \in candidates[w]
       /\ op[cur[w]][target[w]] # "none"
  /\ \A w, v \in Workers :
       pc[w] \in Sending /\ pc[v] \in Sending /\ w # v =>
         cur[w] # cur[v] \/ target[w] # target[v]
  /\ \A w \in Workers :
       /\ pc[w] = "submit" => book[cur[w]][target[w]].sent = 0
       /\ pc[w] = "dispatched" =>
            /\ book[cur[w]][target[w]].sent = 0
            /\ row[cur[w]][target[w]].status \notin {"absent", "pending_intent"}

(* What is about to be written on an operation: it is there, and an operation of an *)
(* earlier session is one that a stopped worker left.                               *)
VerdictsAreOnRows ==
  /\ \A w \in Workers : pc[w] = "conclude" => verdict[w] # "none"
  /\ \A w \in Workers : pc[w] = "mark" =>
       /\ verdict[w] \in NeedsPerson
       /\ target[w] <= session[w]
       /\ op[cur[w]][target[w]] # "none"
       /\ target[w] < session[w] =>
            /\ verdict[w] = "manual_reconciliation_required"
            /\ op[cur[w]][target[w]] \in {"intent_persisted", "manual_reconciliation_required"}

(* A candidate was found free of unresolved sessions, and past sessions do not change *)
(* from resolved to unresolved.                                                       *)
CandidatesAreFree ==
  \A w \in Workers, s \in Strategies, d \in Days :
    s \in candidates[w] =>
      /\ pc[w] # "idle"
      /\ d < session[w] => op[s][d] \in Resolved

IInv ==
  /\ Shape /\ RunsAreOfToday /\ ClaimsAreExclusive /\ VerdictsAreOnRows /\ CandidatesAreFree
  /\ OneSellPerSession /\ UnresolvedBlocksLater

LEMMA Members ==
  /\ 1 \in Days
  /\ \A d \in Days : 1..(d - 1) \subseteq Days
  /\ {"none", "completed", "intent_persisted", "submission_pending",
      "manual_reconciliation_required", "reentry_blocked"} \subseteq OpStatus
  /\ {"pending_intent", "submission_unknown", "accepted", "filled", "cancelled", "rejected",
      "error"} \subseteq KNOWN_ORDER_STATUSES
  BY DaysAndShares DEF Days, OpStatus, Resolved, NeedsPerson, KNOWN_ORDER_STATUSES,
     ACTIVE_ORDER_STATUSES, TERMINAL_ORDER_STATUSES

LEMMA OutcomeIsAStatus == \A x : StatusAfter(x) \in OpStatus \ {"none"}
  BY DEF StatusAfter, OpStatus, Resolved, NeedsPerson

LEMMA ShapeWorker ==
  ASSUME Shape, NEW w \in Workers, WorkerStep(w)
  PROVE  Shape'
<1> USE Members DEF Shape, OrderRow, worldVars, orderVars, Go, Drop, Steps, AtHand, Sending
<1>1. ASSUME NEW due \in SUBSET Strategies, Begin(w, due) PROVE Shape'
  BY <1>1 DEF Begin
<1>2. ASSUME NEW s \in Strategies, Synchronize(w, s) PROVE Shape'
  BY <1>2 DEF Synchronize, Promoted
<1>3. ASSUME NEW s \in Strategies, Refuse(w, s) PROVE Shape'
  BY <1>3 DEF Refuse, RecordAmbiguity, Settled
<1>4. ASSUME NEW s \in Strategies, ClaimWithOrderIntent(w, s) PROVE Shape'
  BY <1>4 DEF ClaimWithOrderIntent
<1>5. ASSUME NEW s \in Strategies, ClaimLost(w, s) PROVE Shape'
  BY <1>5 DEF ClaimLost, Settled
<1>6. CASE Weigh(w)
  BY <1>6 DEF Weigh
<1>7. CASE CannotWeigh(w)
  BY <1>7 DEF CannotWeigh, RecordAmbiguity
<1>8. CASE FindCompleted(w)
  BY <1>8 DEF FindCompleted, Deciding, ToMark
<1>9. CASE FindStopped(w)
  BY <1>9 DEF FindStopped, Deciding, ToMark
<1>10. CASE FindUnderWay(w)
  BY <1>10 DEF FindUnderWay, Deciding, PassOver
<1>11. CASE Blocked(w)
  <2>1. PICK d \in PriorUnresolved(cur[w], session[w]) :
          IF op[cur[w]][d] = "intent_persisted"
            THEN ToMark(w, d, "manual_reconciliation_required")
            ELSE PassOver(w) /\ UNCHANGED op
    BY <1>11 DEF Blocked
  <2>2. d \in Days
    BY DEF PriorUnresolved
  <2>3. CASE ToMark(w, d, "manual_reconciliation_required")
    BY <1>11, <2>2, <2>3 DEF Blocked, Deciding, ToMark
  <2>4. CASE PassOver(w) /\ UNCHANGED op
    BY <1>11, <2>4 DEF Blocked, Deciding, PassOver
  <2> QED
    BY <2>1, <2>3, <2>4
<1>12. CASE RefuseNegative(w)
  BY <1>12 DEF RefuseNegative, Deciding, PassOver, RecordAmbiguity
<1>13. CASE BecomeCandidate(w)
  BY <1>13 DEF BecomeCandidate, Deciding
<1>14. CASE Mark(w)
  BY <1>14 DEF Mark, WriteVerdict
<1>15. CASE ReadPosition(w)
  BY <1>15 DEF ReadPosition
<1>16. CASE ReadFails(w)
  BY <1>16 DEF ReadFails
<1>17. CASE Check(w)
  BY <1>17 DEF Check
<1>18. CASE Finish(w)
  BY <1>18 DEF Finish, End
<1>19. CASE GateRefuses(w)
  BY <1>19 DEF GateRefuses, OutcomeKnown
<1>20. CASE Dispatch(w)
  <2> DEFINE s == cur[w]
             d == target[w]
  <2>1. s \in Strategies /\ d \in Days
    BY <1>20 DEF Dispatch
  <2>2. row[s][d] \in OrderRow
    BY <2>1
  <2>3. row' = [row EXCEPT ![s][d].status = "submission_unknown"]
    BY <1>20 DEF Dispatch
  <2>4. row' \in [Strategies -> [Days -> OrderRow]]
    BY <2>1, <2>2, <2>3
  <2> QED
    BY <1>20, <2>4 DEF Dispatch
<1>21. CASE StaleIntent(w)
  BY <1>21 DEF StaleIntent, End
<1>22. CASE Transmit(w)
  <2> DEFINE s == cur[w]
             d == target[w]
  <2>1. s \in Strategies /\ d \in Days
    BY <1>22 DEF Transmit
  <2>2. [book[s][d] EXCEPT !.state = "flying", !.sent = book[s][d].sent + 1] \in BrokerOrder
    <3>1. book[s][d] \in BrokerOrder
      BY <2>1
    <3>2. book[s][d].sent + 1 \in Nat
      BY <3>1 DEF BrokerOrder
    <3> HIDE DEF s, d
    <3> QED
      BY <3>1, <3>2 DEF BrokerOrder
  <2>3. book' = [book EXCEPT ![s][d] =
          [book[s][d] EXCEPT !.state = "flying", !.sent = book[s][d].sent + 1]]
    BY <1>22, <2>1 DEF Transmit
  <2>4. book' \in [Strategies -> [Days -> BrokerOrder]]
    BY <2>1, <2>2, <2>3
  <2> QED
    BY <1>22, <2>4 DEF Transmit
<1>23. CASE NotTransmitted(w)
  <2> DEFINE s == cur[w]
             d == target[w]
  <2>1. s \in Strategies /\ d \in Days
    BY <1>23 DEF NotTransmitted
  <2>2. row[s][d] \in OrderRow
    BY <2>1
  <2>3. row' = [row EXCEPT ![s][d].status = "error"]
    BY <1>23 DEF NotTransmitted
  <2>4. row' \in [Strategies -> [Days -> OrderRow]]
    BY <2>1, <2>2, <2>3
  <2> QED
    BY <1>23, <2>4, OutcomeIsAStatus DEF NotTransmitted, OutcomeKnown
<1>24. CASE Answer(w)
  <2> DEFINE s == cur[w]
             d == target[w]
             new == IF Linked(w).status = "submission_unknown"
                      THEN Acknowledged(Linked(w), book[s][d]) ELSE Linked(w)
  <2>1. s \in Strategies /\ d \in Days
    BY <1>24 DEF Answer
  <2>2. Linked(w) \in OrderRow /\ book[s][d] \in BrokerOrder
    BY <2>1 DEF Linked
  <2>3. Acknowledged(Linked(w), book[s][d]) \in OrderRow
    BY <2>2 DEF Acknowledged, OrderRow, BrokerOrder, Failed, TERMINAL_ORDER_STATUSES
  <2>4. new \in OrderRow
    BY <2>2, <2>3
  <2>5. row' = [row EXCEPT ![s][d] = new]
    BY <1>24 DEF Answer
  <2>6. row' \in [Strategies -> [Days -> OrderRow]]
    BY <2>1, <2>4, <2>5
  <2> HIDE DEF new
  <2> QED
    BY <1>24, <2>6, OutcomeIsAStatus DEF Answer, OutcomeKnown
<1>25. CASE NoAnswer(w)
  BY <1>25, OutcomeIsAStatus DEF NoAnswer, OutcomeKnown
<1>26. CASE Conclude(w)
  BY <1>26 DEF Conclude, WriteVerdict
<1>27. CASE Die(w)
  BY <1>27 DEF Die, End
<1> QED
  BY <1>1, <1>2, <1>3, <1>4, <1>5, <1>6, <1>7, <1>8, <1>9, <1>10, <1>11, <1>12, <1>13,
     <1>14, <1>15, <1>16, <1>17, <1>18, <1>19, <1>20, <1>21, <1>22, <1>23, <1>24, <1>25,
     <1>26, <1>27 DEF WorkerStep, Decide

LEMMA ShapeElsewhere ==
  ASSUME Shape,
         \/ \E s \in Strategies, d \in Days : OrderStep(s, d)
         \/ \E s \in Strategies : Buy(s) \/ StartExit(s) \/ EndExit(s)
         \/ TurnSwitch
         \/ NextDay
  PROVE  Shape'
<1> USE Members DEF Shape, OrderRow, worldVars, orderVars, workerVars
<1>1. ASSUME NEW s \in Strategies, NEW d \in Days, OrderStep(s, d) PROVE Shape'
  <2>1. row[s][d] \in OrderRow /\ book[s][d] \in BrokerOrder
    OBVIOUS
  <2>2. ASSUME NEW new \in BrokerOrder, Book(s, d, new) PROVE Shape'
    BY <2>2 DEF Book
  <2>3. CASE BrokerTakes(s, d)
    BY <2>1, <2>2, <2>3 DEF BrokerTakes, BrokerOrder
  <2>4. CASE BrokerFills(s, d) \/ BrokerEnds(s, d)
    <3>1. book[s][d].fill + 1 \in Nat
      BY <2>1 DEF BrokerOrder
    <3>2. ASSUME NEW x \in {"working", "filled", "cancelled", "rejected"}
          PROVE  /\ [book[s][d] EXCEPT !.state = x] \in BrokerOrder
                 /\ [book[s][d] EXCEPT !.fill = book[s][d].fill + 1, !.state = x]
                      \in BrokerOrder
      BY <2>1, <3>1 DEF BrokerOrder
    <3> QED
      BY <2>2, <2>4, <3>2 DEF BrokerFills, BrokerEnds
  <2>5. CASE Reconcile(s, d)
    <3>1. Reconciled(row[s][d], book[s][d]) \in
            OrderRow
      BY <2>1 DEF Reconciled, BrokerOrder, TERMINAL_ORDER_STATUSES
    <3> QED
      BY <2>5, <3>1 DEF Reconcile
  <2>6. CASE CancelIntent(s, d)
    BY <2>1, <2>6 DEF CancelIntent
  <2> QED
    BY <1>1, <2>3, <2>4, <2>5, <2>6 DEF OrderStep
<1>2. ASSUME NEW s \in Strategies, Buy(s) \/ StartExit(s) \/ EndExit(s) PROVE Shape'
  BY <1>2 DEF Buy, StartExit, EndExit, Trades
<1>3. CASE TurnSwitch
  BY <1>3 DEF TurnSwitch
<1>4. CASE NextDay
  BY <1>4, DaysAndShares DEF NextDay, Days
<1> QED
  BY <1>1, <1>2, <1>3, <1>4

-----------------------------------------------------------------------------
(* What a step of a worker does to the records it shares, and to its own place: seven *)
(* kinds of step stand for the actions.                                               *)

Unsent == {"absent", "pending_intent"}

RowsGoOn ==
  \A s \in Strategies, d \in Days :
    row[s][d].status \notin Unsent => row'[s][d].status \notin Unsent

SentStays ==
  \A s \in Strategies, d \in Days : book'[s][d].sent = book[s][d].sent

Alone(w) ==
  /\ today' = today
  /\ \A v \in Workers \ {w} :
       /\ pc'[v] = pc[v] /\ session'[v] = session[v] /\ cur'[v] = cur[v]
       /\ target'[v] = target[v] /\ verdict'[v] = verdict[v] /\ candidates'[v] = candidates[v]

Stops(w) ==
  /\ pc'[w] = "idle" /\ candidates'[w] = {}
  /\ UNCHANGED <<op, row, book, session>>

Starts(w) ==
  /\ pc[w] = "idle" /\ pc'[w] = "next"
  /\ session'[w] = today /\ candidates'[w] = candidates[w]
  /\ UNCHANGED <<op, row, book>>

Looks(w) ==
  /\ pc[w] # "idle" /\ pc'[w] \notin Sending \cup {"mark", "idle"}
  /\ session'[w] = session[w] /\ candidates'[w] \subseteq candidates[w]
  /\ UNCHANGED <<row, book>>

Chooses(w) ==
  /\ pc[w] = "decide" /\ pc'[w] = "next" /\ Free(w)
  /\ session'[w] = session[w] /\ candidates'[w] = candidates[w] \cup {cur[w]}
  /\ UNCHANGED <<op, row, book>>

Finds(w) ==
  /\ pc[w] = "decide" /\ pc'[w] = "mark" /\ verdict'[w] \in NeedsPerson
  /\ cur'[w] = cur[w] /\ session'[w] = session[w] /\ candidates'[w] = candidates[w]
  /\ \/ target'[w] = session[w] /\ op[cur[w]][session[w]] # "none"
     \/ /\ target'[w] \in Days /\ target'[w] < session[w]
        /\ op[cur[w]][target'[w]] = "intent_persisted"
        /\ verdict'[w] = "manual_reconciliation_required"
  /\ UNCHANGED <<op, row, book>>

Claims(w) ==
  /\ pc[w] = "claim" /\ pc'[w] = "submit"
  /\ cur'[w] \in candidates[w] /\ target'[w] = session[w] /\ session'[w] = session[w]
  /\ candidates'[w] = candidates[w]
  /\ op[cur'[w]][session[w]] = "none" /\ op'[cur'[w]][session[w]] = "intent_persisted"
  /\ \A s \in Strategies, d \in Days :
       s # cur'[w] \/ d # session[w] => row'[s][d] = row[s][d]
  /\ UNCHANGED book

Sends(w) ==
  /\ pc[w] \in Sending /\ pc'[w] \in Sending \ {"submit"}
  /\ cur'[w] = cur[w] /\ target'[w] = target[w] /\ session'[w] = session[w]
  /\ candidates'[w] = candidates[w]
  /\ pc'[w] = "conclude" => verdict'[w] # "none"
  /\ RowsGoOn
  /\ pc'[w] = "dispatched" =>
       pc[w] = "submit" /\ row'[cur[w]][target[w]].status = "submission_unknown"
  /\ pc'[w] # "sent" => UNCHANGED book
  /\ pc'[w] = "sent" =>
       /\ pc[w] = "dispatched" /\ UNCHANGED row
       /\ \A s \in Strategies, d \in Days :
            book'[s][d].sent = IF s = cur[w] /\ d = target[w]
                                 THEN book[s][d].sent + 1 ELSE book[s][d].sent
  /\ UNCHANGED op

Kinds(w) ==
  Stops(w) \/ Starts(w) \/ Looks(w) \/ Chooses(w) \/ Finds(w) \/ Claims(w) \/ Sends(w)

LEMMA WorkerIsAlone ==
  ASSUME Shape, NEW w \in Workers, WorkerStep(w)
  PROVE  Alone(w)
<1> USE Members DEF Shape, Alone, Go, Drop, worldVars, orderVars, AtHand, Sending
<1>1. ASSUME NEW due \in SUBSET Strategies, Begin(w, due) PROVE Alone(w)
  BY <1>1 DEF Begin
<1>2. ASSUME NEW s \in Strategies, Synchronize(w, s) PROVE Alone(w)
  BY <1>2 DEF Synchronize
<1>3. ASSUME NEW s \in Strategies, Refuse(w, s) PROVE Alone(w)
  BY <1>3 DEF Refuse, Settled
<1>4. ASSUME NEW s \in Strategies, ClaimWithOrderIntent(w, s) PROVE Alone(w)
  BY <1>4 DEF ClaimWithOrderIntent
<1>5. ASSUME NEW s \in Strategies, ClaimLost(w, s) PROVE Alone(w)
  BY <1>5 DEF ClaimLost, Settled
<1>6. CASE Weigh(w)
  BY <1>6 DEF Weigh
<1>7. CASE CannotWeigh(w)
  BY <1>7 DEF CannotWeigh
<1>8. CASE FindCompleted(w)
  BY <1>8 DEF FindCompleted, Deciding, ToMark, Existing
<1>9. CASE FindStopped(w)
  BY <1>9 DEF FindStopped, Deciding, ToMark, Existing
<1>10. CASE FindUnderWay(w)
  BY <1>10 DEF FindUnderWay, Deciding, PassOver
<1>11. CASE Blocked(w)
  BY <1>11 DEF Blocked, Deciding, ToMark, PassOver, PriorUnresolved, Days
<1>12. CASE RefuseNegative(w)
  BY <1>12 DEF RefuseNegative, Deciding, PassOver
<1>13. CASE BecomeCandidate(w)
  BY <1>13 DEF BecomeCandidate, Deciding
<1>14. CASE Mark(w)
  BY <1>14 DEF Mark
<1>15. CASE ReadPosition(w)
  BY <1>15 DEF ReadPosition, Chosen
<1>16. CASE ReadFails(w)
  BY <1>16 DEF ReadFails, Chosen
<1>17. CASE Check(w)
  BY <1>17 DEF Check
<1>18. CASE Finish(w)
  BY <1>18 DEF Finish, End
<1>19. CASE GateRefuses(w)
  BY <1>19 DEF GateRefuses, OutcomeKnown
<1>20. CASE Dispatch(w)
  BY <1>20 DEF Dispatch
<1>21. CASE StaleIntent(w)
  BY <1>21 DEF StaleIntent, End
<1>22. CASE Transmit(w)
  BY <1>22 DEF Transmit
<1>23. CASE NotTransmitted(w)
  BY <1>23 DEF NotTransmitted, OutcomeKnown
<1>24. CASE Answer(w)
  BY <1>24 DEF Answer, OutcomeKnown
<1>25. CASE NoAnswer(w)
  BY <1>25 DEF NoAnswer, OutcomeKnown
<1>26. CASE Conclude(w)
  BY <1>26 DEF Conclude
<1>27. CASE Die(w)
  BY <1>27 DEF Die, End
<1> QED
  BY <1>1, <1>2, <1>3, <1>4, <1>5, <1>6, <1>7, <1>8, <1>9, <1>10, <1>11, <1>12, <1>13,
     <1>14, <1>15, <1>16, <1>17, <1>18, <1>19, <1>20, <1>21, <1>22, <1>23, <1>24, <1>25,
     <1>26, <1>27
     DEF WorkerStep, Decide

LEMMA WorkerIsOfAKind ==
  ASSUME Shape, NEW w \in Workers, WorkerStep(w)
  PROVE  Kinds(w)
<1> USE Members DEF Shape, Go, Drop, worldVars, orderVars, AtHand, Sending, OrderRow
<1>1. ASSUME NEW due \in SUBSET Strategies, Begin(w, due) PROVE Kinds(w)
  BY <1>1 DEF Begin, Kinds, Starts
<1>2. ASSUME NEW s \in Strategies, Synchronize(w, s) PROVE Kinds(w)
  BY <1>2 DEF Synchronize, Kinds, Looks
<1>3. ASSUME NEW s \in Strategies, Refuse(w, s) PROVE Kinds(w)
  BY <1>3 DEF Refuse, Settled, Kinds, Looks
<1>4. ASSUME NEW s \in Strategies, ClaimWithOrderIntent(w, s) PROVE Kinds(w)
  BY <1>4 DEF ClaimWithOrderIntent, Kinds, Claims
<1>5. ASSUME NEW s \in Strategies, ClaimLost(w, s) PROVE Kinds(w)
  BY <1>5 DEF ClaimLost, Settled, Kinds, Looks
<1>6. CASE Weigh(w)
  BY <1>6 DEF Weigh, Kinds, Looks
<1>7. CASE CannotWeigh(w)
  BY <1>7 DEF CannotWeigh, Kinds, Looks
<1>8. CASE FindCompleted(w)
  BY <1>8 DEF FindCompleted, Deciding, ToMark, Existing, Kinds, Finds, NeedsPerson
<1>9. CASE FindStopped(w)
  BY <1>9 DEF FindStopped, Deciding, ToMark, Existing, Kinds, Finds, NeedsPerson
<1>10. CASE FindUnderWay(w)
  BY <1>10 DEF FindUnderWay, Deciding, PassOver, Kinds, Looks
<1>11. CASE Blocked(w)
  BY <1>11 DEF Blocked, Deciding, ToMark, PassOver, PriorUnresolved, Days, Kinds, Looks,
     Finds, Existing, NeedsPerson
<1>12. CASE RefuseNegative(w)
  BY <1>12 DEF RefuseNegative, Deciding, PassOver, Kinds, Looks
<1>13. CASE BecomeCandidate(w)
  BY <1>13 DEF BecomeCandidate, Deciding, Kinds, Chooses
<1>14. CASE Mark(w)
  BY <1>14 DEF Mark, Kinds, Looks
<1>15. CASE ReadPosition(w)
  BY <1>15 DEF ReadPosition, Chosen, Kinds, Looks
<1>16. CASE ReadFails(w)
  BY <1>16 DEF ReadFails, Chosen, Kinds, Looks
<1>17. CASE Check(w)
  BY <1>17 DEF Check, Kinds, Looks
<1>18. CASE Finish(w)
  BY <1>18 DEF Finish, End, Kinds, Stops
<1>19. CASE GateRefuses(w)
  BY <1>19 DEF GateRefuses, OutcomeKnown, Kinds, Sends, RowsGoOn, Unsent
<1>20. CASE Dispatch(w)
  BY <1>20 DEF Dispatch, Kinds, Sends, RowsGoOn, Unsent
<1>21. CASE StaleIntent(w)
  BY <1>21 DEF StaleIntent, End, Kinds, Stops
<1>22. CASE Transmit(w)
  BY <1>22 DEF Transmit, Kinds, Sends, RowsGoOn, Unsent
<1>23. CASE NotTransmitted(w)
  BY <1>23, OutcomeIsAStatus DEF NotTransmitted, OutcomeKnown, Kinds, Sends, RowsGoOn,
     Unsent
<1>24. CASE Answer(w)
  <2> DEFINE s == cur[w]
             d == target[w]
             new == IF Linked(w).status = "submission_unknown"
                      THEN Acknowledged(Linked(w), book[s][d]) ELSE Linked(w)
  <2>1. s \in Strategies /\ d \in Days /\ Linked(w) \in OrderRow
    BY <1>24 DEF Answer, Linked
  <2>2. Linked(w).status \notin Unsent => new.status \notin Unsent
    <3>1. Acknowledged(Linked(w), book[s][d]).status \notin Unsent
          \/ Acknowledged(Linked(w), book[s][d]) = Linked(w)
      BY <2>1 DEF Acknowledged, Unsent, Failed, TERMINAL_ORDER_STATUSES
    <3> QED
      BY <3>1
  <2>3. /\ row' = [row EXCEPT ![s][d] = new]
        /\ pc[w] = "sent" /\ OutcomeKnown(w, StatusAfter(new.status)) /\ UNCHANGED book
    BY <1>24 DEF Answer
  <2> HIDE DEF new
  <2>4. RowsGoOn
    BY <2>1, <2>2, <2>3 DEF RowsGoOn, Linked
  <2> QED
    BY <2>3, <2>4, OutcomeIsAStatus DEF OutcomeKnown, Kinds, Sends
<1>25. CASE NoAnswer(w)
  BY <1>25, OutcomeIsAStatus DEF NoAnswer, OutcomeKnown, Kinds, Sends, RowsGoOn, Unsent
<1>26. CASE Conclude(w)
  BY <1>26 DEF Conclude, Kinds, Looks
<1>27. CASE Die(w)
  BY <1>27 DEF Die, End, Kinds, Stops
<1> QED
  BY <1>1, <1>2, <1>3, <1>4, <1>5, <1>6, <1>7, <1>8, <1>9, <1>10, <1>11, <1>12, <1>13,
     <1>14, <1>15, <1>16, <1>17, <1>18, <1>19, <1>20, <1>21, <1>22, <1>23, <1>24, <1>25,
     <1>26, <1>27
     DEF WorkerStep, Decide

-----------------------------------------------------------------------------
(* What a step may do to the operations: they appear in their own session, stay, and those *)
(* of earlier sessions neither become unresolved nor, once with a person, anything else.   *)

LeftToPerson == {"intent_persisted", "manual_reconciliation_required"}

OperationsGrow ==
  \A s \in Strategies, d \in Days :
    /\ op[s][d] = "none" /\ op'[s][d] # "none" => d = today
    /\ op[s][d] # "none" => op'[s][d] # "none"
    /\ d < today /\ op[s][d] \in Resolved => op'[s][d] = op[s][d]
    /\ d < today /\ op[s][d] \in LeftToPerson => op'[s][d] \in LeftToPerson

LEMMA OperationsInWorker ==
  ASSUME Shape, RunsAreOfToday, ClaimsAreExclusive, VerdictsAreOnRows,
         NEW w \in Workers, WorkerStep(w)
  PROVE  OperationsGrow
<1>1. (pc[w] # "idle" => session[w] = today) /\ (pc[w] \in AtHand => cur[w] \in Strategies)
  BY DEF Shape, RunsAreOfToday
<1>2. ASSUME UNCHANGED op PROVE OperationsGrow
  BY <1>2 DEF OperationsGrow
<1>3. ASSUME NEW s \in Strategies, RecordAmbiguity(s, session[w]), pc[w] # "idle"
      PROVE  OperationsGrow
  <2>1. session[w] \in Days /\ session[w] = today
    BY <1>1, <1>3 DEF Shape
  <2>2. ASSUME NEW r \in Strategies, NEW d \in Days
        PROVE  \/ op'[r][d] = op[r][d]
               \/ /\ d = today /\ op[r][d] = "none"
                  /\ op'[r][d] = "manual_reconciliation_required"
    BY <1>3, <2>1 DEF RecordAmbiguity, Shape
  <2>3. \A d \in Days : d = today => ~(d < today)
    BY <2>1 DEF Days
  <2> QED
    BY <2>2, <2>3 DEF OperationsGrow
<1>4. ASSUME NEW s \in Strategies, Synchronize(w, s) PROVE OperationsGrow
  <2>1. op' = [op EXCEPT ![s] = [d \in Days |-> Promoted(s, d)]]
    BY <1>4 DEF Synchronize
  <2>2. ASSUME NEW d \in Days
        PROVE  \/ Promoted(s, d) = op[s][d]
               \/ /\ op[s][d] = "submission_pending"
                  /\ Promoted(s, d) \in {"completed", "manual_reconciliation_required"}
    BY DEF Promoted
  <2>3. ASSUME NEW r \in Strategies, NEW d \in Days
        PROVE  \/ op'[r][d] = op[r][d]
               \/ /\ op[r][d] = "submission_pending"
                  /\ op'[r][d] \in {"completed", "manual_reconciliation_required"}
    BY <2>1, <2>2 DEF Shape
  <2> QED
    BY <2>3 DEF OperationsGrow, Resolved, LeftToPerson
<1>5. ASSUME NEW s \in Strategies, ClaimWithOrderIntent(w, s) PROVE OperationsGrow
  <2>1. session[w] \in Days /\ session[w] = today
    BY <1>1, <1>5 DEF Shape, ClaimWithOrderIntent
  <2>2. ASSUME NEW r \in Strategies, NEW d \in Days
        PROVE  \/ op'[r][d] = op[r][d]
               \/ /\ d = today /\ op[r][d] = "none"
                  /\ op'[r][d] = "intent_persisted"
    BY <1>5, <2>1 DEF ClaimWithOrderIntent, Shape
  <2>3. \A d \in Days : d = today => ~(d < today)
    BY <2>1 DEF Days
  <2> QED
    BY <2>2, <2>3 DEF OperationsGrow
<1>6. CASE Mark(w)
  BY <1>1, <1>6 DEF Mark, WriteVerdict, OperationsGrow, Shape, VerdictsAreOnRows, Resolved,
     NeedsPerson, LeftToPerson, AtHand
<1>7. CASE Conclude(w)
  BY <1>1, <1>7 DEF Conclude, WriteVerdict, OperationsGrow, Shape, VerdictsAreOnRows,
     ClaimsAreExclusive, Resolved, LeftToPerson, AtHand, Sending, Days
<1>8. ASSUME NEW s \in Strategies, Refuse(w, s) PROVE OperationsGrow
  BY <1>3, <1>8 DEF Refuse
<1>9. CASE CannotWeigh(w) \/ RefuseNegative(w)
  BY <1>1, <1>3, <1>9 DEF CannotWeigh, RefuseNegative, Deciding, AtHand
<1>10. CASE FindCompleted(w) \/ FindStopped(w) \/ FindUnderWay(w) \/ Blocked(w)
              \/ BecomeCandidate(w)
  BY <1>2, <1>10 DEF FindCompleted, FindStopped, FindUnderWay, Blocked, BecomeCandidate, ToMark
<1>11. CASE (\E due \in SUBSET Strategies : Begin(w, due)) \/ Weigh(w) \/ ReadPosition(w)
              \/ ReadFails(w) \/ Check(w) \/ Finish(w) \/ (\E s \in Strategies : ClaimLost(w, s))
  BY <1>2, <1>11 DEF Begin, Weigh, ReadPosition, ReadFails, Check, Finish, ClaimLost, orderVars
<1>12. CASE GateRefuses(w) \/ Dispatch(w) \/ StaleIntent(w) \/ Transmit(w)
              \/ NotTransmitted(w) \/ Answer(w) \/ NoAnswer(w) \/ Die(w)
  BY <1>2, <1>12 DEF GateRefuses, Dispatch, StaleIntent, Transmit, NotTransmitted, Answer,
     NoAnswer, Die, OutcomeKnown, orderVars
<1> QED
  BY <1>4, <1>5, <1>6, <1>7, <1>8, <1>9, <1>10, <1>11, <1>12 DEF WorkerStep, Decide

-----------------------------------------------------------------------------
(* The kinds of step preserve the invariant. *)

LEMMA WorkerPreserves ==
  ASSUME IInv, NEW w \in Workers, WorkerStep(w)
  PROVE  IInv'
<1> USE DEF Sending
<1>1. Shape /\ Shape' /\ Alone(w) /\ Kinds(w) /\ OperationsGrow
  BY ShapeWorker, WorkerIsAlone, WorkerIsOfAKind, OperationsInWorker DEF IInv
<1>2. /\ \A v \in Workers : pc[v] # "idle" => session[v] = today
      /\ today \in Days /\ today' = today
      /\ \A d, e \in Days : d < e => e # d
      /\ \A d, e \in Days : ~(d < e) /\ d # e => e < d
      /\ \A d, e, f \in Days : d < e /\ e <= f => d < f
  BY <1>1 DEF IInv, RunsAreOfToday, Shape, Alone, Days
<1>3. RunsAreOfToday'
  <2>1. ASSUME NEW v \in Workers, pc'[v] # "idle" PROVE session'[v] = today
    BY <1>1, <1>2, <2>1 DEF Alone, Kinds, Stops, Starts, Looks, Chooses, Finds, Claims, Sends
  <2>2. ASSUME NEW s \in Strategies, NEW d \in Days, op'[s][d] # "none" PROVE d <= today
    BY <1>1, <1>2, <2>2 DEF IInv, RunsAreOfToday, OperationsGrow, Days
  <2> QED
    BY <1>2, <2>1, <2>2 DEF RunsAreOfToday
<1>4. ASSUME NEW v \in Workers, pc[v] \in Sending
      PROVE  /\ cur[v] \in Strategies /\ target[v] \in Days
             /\ target[v] = session[v] /\ session[v] = today
             /\ cur[v] \in candidates[v] /\ op[cur[v]][target[v]] # "none"
  BY <1>1, <1>2, <1>4 DEF IInv, ClaimsAreExclusive, Shape, AtHand
<1>5. ClaimsAreExclusive'
  <2>1. ASSUME NEW v \in Workers, pc'[v] \in Sending
        PROVE  /\ target'[v] = session'[v] /\ cur'[v] \in candidates'[v]
               /\ op'[cur'[v]][target'[v]] # "none"
    <3>1. CASE v # w
      BY <1>1, <1>4, <2>1, <3>1 DEF Alone, OperationsGrow
    <3>2. CASE v = w /\ Claims(w)
      BY <1>1, <3>2 DEF Claims
    <3>3. CASE v = w /\ Sends(w)
      BY <1>1, <1>4, <3>3 DEF Sends
    <3> QED
      BY <1>1, <2>1, <3>1, <3>2, <3>3 DEF Kinds, Stops, Starts, Looks, Chooses, Finds
  <2>2. ASSUME NEW v \in Workers, v # w, pc[v] \in Sending, pc'[w] \in Sending
        PROVE  cur[v] # cur'[w] \/ target[v] # target'[w]
    <3>1. CASE Claims(w)
      BY <1>4, <2>2, <3>1 DEF Claims
    <3>2. CASE Sends(w)
      BY <2>2, <3>2 DEF Sends, IInv, ClaimsAreExclusive
    <3> QED
      BY <1>1, <2>2, <3>1, <3>2 DEF Kinds, Stops, Starts, Looks, Chooses, Finds
  <2>3. ASSUME NEW v \in Workers, NEW u \in Workers, u # v,
               pc'[v] \in Sending, pc'[u] \in Sending
        PROVE  cur'[v] # cur'[u] \/ target'[v] # target'[u]
    BY <1>1, <2>2, <2>3 DEF Alone, IInv, ClaimsAreExclusive
  <2>4. ASSUME NEW v \in Workers, v # w, pc[v] \in {"submit", "dispatched"}
        PROVE  book'[cur[v]][target[v]].sent = book[cur[v]][target[v]].sent
    <3>1. CASE UNCHANGED book
      BY <3>1
    <3>2. CASE Sends(w) /\ pc'[w] = "sent"
      BY <1>4, <2>2, <2>4, <3>2 DEF Sends
    <3> QED
      BY <1>1, <3>1, <3>2 DEF Kinds, Stops, Starts, Looks, Chooses, Finds, Claims, Sends
  <2>5. ASSUME NEW v \in Workers, v # w, pc[v] = "dispatched",
               row[cur[v]][target[v]].status \notin Unsent
        PROVE  row'[cur[v]][target[v]].status \notin Unsent
    <3>1. CASE UNCHANGED row
      BY <2>5, <3>1
    <3>2. CASE Claims(w)
      BY <1>1, <1>4, <2>2, <2>5, <3>2 DEF Claims
    <3>3. CASE Sends(w)
      BY <1>4, <2>5, <3>3 DEF Sends, RowsGoOn
    <3> QED
      BY <1>1, <3>1, <3>2, <3>3 DEF Kinds, Stops, Starts, Looks, Chooses, Finds
  <2>6. ASSUME NEW v \in Workers, pc'[v] = "submit"
        PROVE  book'[cur'[v]][target'[v]].sent = 0
    <3>1. CASE v # w
      BY <1>1, <2>4, <2>6, <3>1 DEF Alone, IInv, ClaimsAreExclusive
    <3>2. CASE v = w
      <4>1. Claims(w)
        BY <1>1, <2>6, <3>2 DEF Kinds, Stops, Starts, Looks, Chooses, Finds, Sends
      <4>2. cur'[w] \in Strategies /\ session[w] \in Days
        BY <1>1, <4>1 DEF Claims, Shape
      <4>3. book[cur'[w]][session[w]].sent \in Nat
        BY <1>1, <4>2 DEF Shape, BrokerOrder
      <4> QED
        BY <3>2, <4>1, <4>2, <4>3 DEF Claims, IInv, OneSellPerSession
    <3> QED
      BY <3>1, <3>2
  <2>7. ASSUME NEW v \in Workers, pc'[v] = "dispatched"
        PROVE  /\ book'[cur'[v]][target'[v]].sent = 0
               /\ row'[cur'[v]][target'[v]].status \notin Unsent
    <3>1. CASE v # w
      BY <1>1, <2>4, <2>5, <2>7, <3>1 DEF Alone, IInv, ClaimsAreExclusive, Unsent
    <3>2. CASE v = w
      <4>1. Sends(w)
        BY <1>1, <2>7, <3>2 DEF Kinds, Stops, Starts, Looks, Chooses, Finds, Claims
      <4> QED
        BY <2>7, <3>2, <4>1 DEF Sends, IInv, ClaimsAreExclusive, Unsent
    <3> QED
      BY <3>1, <3>2
  <2> QED
    BY <2>1, <2>3, <2>6, <2>7 DEF ClaimsAreExclusive, Unsent
<1>6. VerdictsAreOnRows'
  <2>1. ASSUME NEW v \in Workers, pc'[v] = "conclude" PROVE verdict'[v] # "none"
    BY <1>1, <2>1 DEF Alone, Kinds, Stops, Starts, Looks, Chooses, Finds, Claims, Sends, IInv,
       VerdictsAreOnRows
  <2>2. ASSUME NEW v \in Workers, pc'[v] = "mark"
        PROVE  /\ verdict'[v] \in NeedsPerson
               /\ target'[v] <= session'[v]
               /\ op'[cur'[v]][target'[v]] # "none"
               /\ target'[v] < session'[v] =>
                    /\ verdict'[v] = "manual_reconciliation_required"
                    /\ op'[cur'[v]][target'[v]] \in LeftToPerson
    <3>1. CASE v # w
      <4>1. /\ pc[v] = "mark" /\ cur'[v] = cur[v] /\ target'[v] = target[v]
            /\ session'[v] = session[v] /\ verdict'[v] = verdict[v]
        BY <1>1, <2>2, <3>1 DEF Alone
      <4>2. cur[v] \in Strategies /\ target[v] \in Days /\ session[v] = today
        BY <1>1, <1>2, <4>1 DEF Shape, AtHand
      <4> QED
        BY <1>1, <4>1, <4>2 DEF IInv, VerdictsAreOnRows, OperationsGrow, LeftToPerson
    <3>2. CASE v = w
      <4>1. Finds(w)
        BY <1>1, <2>2, <3>2 DEF Kinds, Stops, Starts, Looks, Chooses, Claims, Sends
      <4>2. session[w] \in Days
        BY <1>1 DEF Shape
      <4> QED
        BY <3>2, <4>1, <4>2 DEF Finds, LeftToPerson, Days
    <3> QED
      BY <3>1, <3>2
  <2> QED
    BY <2>1, <2>2 DEF VerdictsAreOnRows, LeftToPerson
<1>7. CandidatesAreFree'
  <2>1. ASSUME NEW v \in Workers, NEW s \in candidates'[v], NEW d \in Days
        PROVE  /\ pc'[v] # "idle"
               /\ d < session'[v] => op'[s][d] \in Resolved
    <3>0. s \in Strategies
      BY <1>1 DEF Shape
    <3>1. CASE s \in candidates[v]
      <4>1. pc[v] # "idle" /\ session[v] = today
            /\ (d < today => op'[s][d] \in Resolved)
        BY <1>1, <1>2, <3>0, <3>1 DEF IInv, CandidatesAreFree, OperationsGrow
      <4> QED
        BY <1>1, <2>1, <4>1 DEF Alone, Kinds, Stops, Starts, Looks, Chooses, Finds, Claims, Sends
    <3>2. CASE s \notin candidates[v]
      <4>1. v = w /\ Chooses(w) /\ s = cur[w]
        BY <1>1, <2>1, <3>2 DEF Alone, Kinds, Stops, Starts, Looks, Chooses, Finds, Claims, Sends
      <4>2. session[w] \in Days
        BY <1>1 DEF Shape
      <4> QED
        BY <3>0, <4>1, <4>2 DEF Chooses, Free, PriorUnresolved, Days
    <3> QED
      BY <3>1, <3>2
  <2> QED
    BY <2>1 DEF CandidatesAreFree
<1>8. ASSUME NEW s \in Strategies, NEW d \in Days, book'[s][d].sent > 0
      PROVE  \/ book[s][d].sent > 0 /\ book'[s][d].sent = book[s][d].sent
             \/ /\ Sends(w) /\ pc[w] = "dispatched" /\ UNCHANGED row
                /\ s = cur[w] /\ d = target[w]
  BY <1>1, <1>8 DEF Kinds, Stops, Starts, Looks, Chooses, Finds, Claims, Sends
<1>9. OneSellPerSession'
  <2>1. ASSUME NEW s \in Strategies, NEW d \in Days, book'[s][d].sent > 0
        PROVE  /\ book'[s][d].sent = 1
               /\ op'[s][d] # "none"
               /\ row'[s][d].status \notin Unsent
    <3>1. CASE book[s][d].sent > 0 /\ book'[s][d].sent = book[s][d].sent
      <4>1. /\ book[s][d].sent = 1 /\ op[s][d] # "none" /\ op'[s][d] # "none"
            /\ row[s][d].status \notin Unsent
        BY <1>1, <3>1 DEF IInv, OneSellPerSession, OperationsGrow, Unsent
      <4> QED
        BY <1>1, <3>1, <4>1 DEF Kinds, Stops, Starts, Looks, Chooses, Finds, Claims, Sends,
           RowsGoOn
    <3>2. CASE /\ Sends(w) /\ pc[w] = "dispatched" /\ UNCHANGED row
               /\ s = cur[w] /\ d = target[w]
      <4>1. book[s][d].sent = 0 /\ row[s][d].status \notin Unsent /\ op[s][d] # "none"
        BY <1>4, <3>2 DEF IInv, ClaimsAreExclusive, Unsent
      <4>2. book'[s][d].sent = 0 \/ book'[s][d].sent = 1
        BY <3>2, <4>1 DEF Sends
      <4> QED
        BY <1>1, <2>1, <3>2, <4>1, <4>2 DEF OperationsGrow
    <3> QED
      BY <1>8, <2>1, <3>1, <3>2
  <2> QED
    BY <2>1 DEF OneSellPerSession, Unsent
<1>10. UnresolvedBlocksLater'
  <2>1. ASSUME NEW s \in Strategies, NEW d \in Days, NEW e \in Days,
               d < e, book'[s][e].sent > 0
        PROVE  op'[s][d] \in Resolved
    <3>1. CASE book[s][e].sent > 0
      <4>1. op[s][d] \in Resolved /\ e <= today
        BY <2>1, <3>1 DEF IInv, UnresolvedBlocksLater, OneSellPerSession, RunsAreOfToday
      <4> QED
        BY <1>1, <1>2, <2>1, <4>1 DEF OperationsGrow
    <3>2. CASE Sends(w) /\ pc[w] = "dispatched" /\ s = cur[w] /\ e = target[w]
      <4>1. s \in candidates[w] /\ e = session[w] /\ e = today
        BY <1>4, <3>2
      <4>2. op[s][d] \in Resolved
        BY <2>1, <4>1 DEF IInv, CandidatesAreFree
      <4> QED
        BY <1>1, <2>1, <4>1, <4>2 DEF OperationsGrow
    <3> QED
      BY <1>8, <2>1, <3>1, <3>2
  <2> QED
    BY <2>1 DEF UnresolvedBlocksLater
<1> QED
  BY <1>1, <1>3, <1>5, <1>6, <1>7, <1>9, <1>10 DEF IInv

-----------------------------------------------------------------------------
(* The broker, the reconciler, exits, the switch and the calendar leave the operations *)
(* alone, send nothing, and never take an order back to an intent.                     *)
Elsewhere ==
  \/ \E s \in Strategies, d \in Days : OrderStep(s, d)
  \/ \E s \in Strategies : Buy(s) \/ StartExit(s) \/ EndExit(s)
  \/ TurnSwitch
  \/ NextDay

LEMMA OrdersStayElsewhere ==
  ASSUME Shape, NEW s \in Strategies, NEW d \in Days, OrderStep(s, d)
  PROVE  SentStays /\ RowsGoOn /\ UNCHANGED <<today, op, workerVars>>
<1> USE DEF Shape, worldVars
<1>1. row[s][d] \in OrderRow /\ book[s][d] \in BrokerOrder
  OBVIOUS
<1>2. ASSUME UNCHANGED row PROVE RowsGoOn
  BY <1>2 DEF RowsGoOn
<1>3. ASSUME UNCHANGED book PROVE SentStays
  BY <1>3 DEF SentStays
<1>4. ASSUME NEW r, row' = [row EXCEPT ![s][d] = r], r.status \notin Unsent PROVE RowsGoOn
  BY <1>4 DEF RowsGoOn
<1>5. ASSUME NEW b, b.sent = book[s][d].sent, Book(s, d, b)
      PROVE  SentStays /\ RowsGoOn /\ UNCHANGED <<today, op, workerVars>>
  BY <1>2, <1>5 DEF Book, SentStays
<1>6. CASE BrokerTakes(s, d)
  BY <1>1, <1>5, <1>6 DEF BrokerTakes, BrokerOrder
<1>7. CASE BrokerFills(s, d)
  <2> DEFINE x == IF book[s][d].fill + 1 = size[s][d] THEN "filled" ELSE "working"
             b == [book[s][d] EXCEPT !.fill = book[s][d].fill + 1, !.state = x]
  <2>1. Book(s, d, b)
    BY <1>7 DEF BrokerFills
  <2> HIDE DEF x
  <2>2. b.sent = book[s][d].sent
    BY <1>1 DEF BrokerOrder
  <2> HIDE DEF b
  <2> QED
    BY <1>5, <2>1, <2>2
<1>8. CASE BrokerEnds(s, d)
  BY <1>1, <1>5, <1>8 DEF BrokerEnds, BrokerOrder
<1>9. CASE Reconcile(s, d)
  <2>1. Reconciled(row[s][d], book[s][d]).status \notin Unsent
    BY <1>1 DEF Reconciled, Unsent, OrderRow, TERMINAL_ORDER_STATUSES
  <2> HIDE DEF Shape
  <2> QED
    BY <1>3, <1>4, <1>9, <2>1 DEF Reconcile
<1>10. CASE CancelIntent(s, d)
  <2>1. row' = [row EXCEPT ![s][d] = [row[s][d] EXCEPT !.status = "cancelled"]]
    BY <1>10 DEF CancelIntent
  <2>2. [row[s][d] EXCEPT !.status = "cancelled"].status \notin Unsent
    BY <1>1 DEF OrderRow, Unsent
  <2> QED
    BY <1>3, <1>4, <1>10, <2>1, <2>2 DEF CancelIntent
<1> QED
  BY <1>6, <1>7, <1>8, <1>9, <1>10 DEF OrderStep

LEMMA ElsewherePreserves ==
  ASSUME IInv, Elsewhere
  PROVE  IInv'
<1>1. Shape /\ Shape'
  BY ShapeElsewhere DEF IInv, Elsewhere
<1>2. SentStays /\ RowsGoOn /\ UNCHANGED <<op, workerVars>>
  <2>1. ASSUME NEW s \in Strategies, NEW d \in Days, OrderStep(s, d)
        PROVE  SentStays /\ RowsGoOn /\ UNCHANGED <<op, workerVars>>
    BY <1>1, <2>1, OrdersStayElsewhere
  <2>2. ASSUME UNCHANGED <<op, row, book, workerVars>>
        PROVE  SentStays /\ RowsGoOn /\ UNCHANGED <<op, workerVars>>
    BY <2>2 DEF SentStays, RowsGoOn
  <2>3. CASE (\E s \in Strategies : Buy(s) \/ StartExit(s) \/ EndExit(s))
               \/ TurnSwitch \/ NextDay
    BY <2>2, <2>3 DEF Buy, StartExit, EndExit, Trades, TurnSwitch, NextDay, orderVars
  <2> QED
    BY <2>1, <2>3 DEF Elsewhere
<1>3. /\ today' = today \/ (today' = today + 1 /\ \A w \in Workers : pc[w] = "idle")
      /\ today <= today'
  <2>1. today \in Nat
    BY <1>1 DEF Shape, Days
  <2>2. CASE \E s \in Strategies, d \in Days : OrderStep(s, d)
    BY <1>1, <2>1, <2>2, OrdersStayElsewhere
  <2>3. CASE (\E s \in Strategies : Buy(s) \/ StartExit(s) \/ EndExit(s)) \/ TurnSwitch
    BY <2>1, <2>3 DEF Buy, StartExit, EndExit, Trades, TurnSwitch
  <2>4. CASE NextDay
    BY <2>1, <2>4 DEF NextDay
  <2> QED
    BY <2>2, <2>3, <2>4 DEF Elsewhere
<1>4. RunsAreOfToday'
  <2>1. \A d \in Days : d <= today => d <= today'
    BY <1>1, <1>3 DEF Shape, Days
  <2> QED
    BY <1>2, <1>3, <2>1 DEF IInv, RunsAreOfToday, workerVars
<1>5. ClaimsAreExclusive'
  <2>1. ASSUME NEW w \in Workers, pc[w] \in Sending
        PROVE  cur[w] \in Strategies /\ target[w] \in Days
    BY <1>1, <2>1 DEF Shape, AtHand
  <2> QED
    BY <1>2, <2>1 DEF IInv, ClaimsAreExclusive, Sending, workerVars, SentStays, RowsGoOn, Unsent
<1>6. VerdictsAreOnRows' /\ CandidatesAreFree'
  BY <1>2 DEF IInv, VerdictsAreOnRows, CandidatesAreFree, workerVars
<1>7. OneSellPerSession'
  BY <1>2 DEF IInv, OneSellPerSession, SentStays, RowsGoOn, Unsent
<1>8. UnresolvedBlocksLater'
  BY <1>2 DEF IInv, UnresolvedBlocksLater, SentStays
<1> QED
  BY <1>1, <1>4, <1>5, <1>6, <1>7, <1>8 DEF IInv

LEMMA InitIsSafe == Init => IInv
<1> SUFFICES ASSUME Init PROVE IInv
  OBVIOUS
<1>1. \A s \in Strategies, d \in Days :
        op[s][d] = "none" /\ book[s][d].sent = 0 /\ row[s][d].status = "absent"
  BY DEF Init
<1>2. \A w \in Workers : pc[w] = "idle" /\ candidates[w] = {}
  BY DEF Init
<1>3. Shape
  BY Members DEF Init, Shape, OrderRow, BrokerOrder, Steps, AtHand, Sending
<1>4. RunsAreOfToday /\ ClaimsAreExclusive /\ VerdictsAreOnRows /\ CandidatesAreFree
  BY <1>1, <1>2 DEF RunsAreOfToday, ClaimsAreExclusive, VerdictsAreOnRows, CandidatesAreFree,
     Sending
<1>5. OneSellPerSession /\ UnresolvedBlocksLater
  BY <1>1 DEF OneSellPerSession, UnresolvedBlocksLater
<1> QED
  BY <1>3, <1>4, <1>5 DEF IInv

LEMMA Stutter == IInv /\ UNCHANGED vars => IInv'
  BY DEF IInv, Shape, RunsAreOfToday, ClaimsAreExclusive, VerdictsAreOnRows, CandidatesAreFree,
     OneSellPerSession, UnresolvedBlocksLater, vars, worldVars, orderVars, workerVars

\* The inductive invariant: who may be sending, what is about to be written, and who is
\* still free, at every point where a worker can be overtaken or die.
THEOREM RunsStayApart == Spec => []IInv
<1>1. IInv /\ [Next]_vars => IInv'
  BY WorkerPreserves, ElsewherePreserves, Stutter DEF Next, Elsewhere
<1> QED
  BY <1>1, InitIsSafe, PTL DEF Spec

\* However many workers run at once, die and are started again, and however late orders
\* settle, at most one sell goes to the broker for a strategy and session, and only after
\* operation and order intent are on record.
THEOREM OneSellEver == Spec => []OneSellPerSession
<1>1. IInv => OneSellPerSession
  BY DEF IInv
<1> QED
  BY <1>1, RunsStayApart, PTL

\* Once a sell has gone out for a session, every earlier session of that strategy has no
\* operation or a completed one: what is not resolved blocks what comes after it.
THEOREM UnresolvedAlwaysBlocks == Spec => []UnresolvedBlocksLater
<1>1. IInv => UnresolvedBlocksLater
  BY DEF IInv
<1> QED
  BY <1>1, RunsStayApart, PTL
-----------------------------------------------------------------------------
(* The figures: what is sold is what was weighed, and what was weighed is there. *)

Sold(s) == Total([d \in Days |-> book[s][d].fill])

Recorded(s) == Total([d \in Days |-> row[s][d].filled])

(* The types of the quantities; the shares of the account are those of the strategies *)
(* and the ones held by hand.                                                         *)
Quantities ==
  /\ killed \in BOOLEAN
  /\ bought \in [Strategies -> 0..Most]
  /\ exiting \in [Strategies -> Nat]
  /\ exited \in [Strategies -> Nat]
  /\ size \in [Strategies -> [Days -> 0..Most]]
  /\ amount \in [Workers -> [Strategies -> Int]]
  /\ sellable \in [Workers -> Nat]
  /\ disturbed \in SUBSET Strategies
  /\ Held \in Nat

(* An order fills up to its size, its row is final only when the order is, and then it *)
(* states the fill; its operation is called completed only when the row is filled.     *)
Final == TERMINAL_ORDER_STATUSES \cup {"absent"}
Live  == {"flying", "working"}

OrderKept(r, b, z, o) ==
  /\ b.sent = 0 => b.state = "absent"
  /\ b.state \in {"absent", "flying"} => b.fill = 0
  /\ b.fill <= z
  /\ b.state \in Live => b.fill < z /\ r.status \in ACTIVE_ORDER_STATUSES
  /\ r.status \in Final => r.filled = b.fill
  /\ r.status \in ACTIVE_ORDER_STATUSES => r.filled = 0
  /\ r.status # "absent" => o # "none"
  /\ o = "completed" => r.status = "filled"
  /\ r.status = "filled" => b.sent > 0

OrdersAreKept ==
  \A s \in Strategies, d \in Days : OrderKept(row[s][d], book[s][d], size[s][d], op[s][d])

(* What a worker has weighed could be bought, and it is nothing once the worker is done; *)
(* a candidate is neither at hand nor still to come.  An order about to be sent has a    *)
(* quantity, and what a run is about to write on its operation says what the row says.   *)
MemoryKept(w) ==
  \A s \in Strategies :
    /\ amount[w][s] <= Most
    /\ pc[w] = "idle" => amount[w][s] = 0
    /\ s \in candidates[w] => amount[w][s] > 0 /\ s \notin todo[w]

StepKept(w) ==
  /\ pc[w] \in {"weigh", "decide", "mark"} => cur[w] \notin candidates[w] \cup todo[w]
  /\ pc[w] \in {"decide", "mark"} => amount[w][cur[w]] # 0
  /\ pc[w] \in {"submit", "dispatched"} => size[cur[w]][target[w]] > 0
  /\ pc[w] = "dispatched" => row[cur[w]][target[w]].status = "submission_unknown"
  /\ pc[w] = "conclude" =>
       /\ verdict[w] # "reentry_blocked"
       /\ verdict[w] = "completed" => row[cur[w]][target[w]].status = "filled"

RunKept(w) == MemoryKept(w) /\ StepKept(w)

RunsAreKept == \A w \in Workers : RunKept(w)

OpsDone(s) == \A d \in Days : op[s][d] \in Resolved

(* Unless somebody interfered, a run decides on no more than is there, and what it holds *)
(* of its candidates is there as well.                                                   *)
WeighedRight(w) ==
  /\ pc[w] \in {"decide", "mark"} /\ cur[w] \notin disturbed /\ OpsDone(cur[w]) =>
       amount[w][cur[w]] <= NetQuantity(cur[w])
  /\ pc[w] = "mark" /\ verdict[w] = "reentry_blocked" /\ cur[w] \notin disturbed =>
       op[cur[w]][session[w]] = "completed" /\ target[w] = session[w]
  /\ \A s \in candidates[w] \ disturbed :
       (pc[w] \in Sending => cur[w] # s) => OpsDone(s) /\ amount[w][s] <= NetQuantity(s)

WeighedIsThere == \A w \in Workers : WeighedRight(w)

OverlapDisturbs ==
  \A w, v \in Workers : w # v /\ pc[w] # "idle" /\ pc[v] # "idle" => disturbed = Strategies

(* An order that may still fill leaves the strategy no less than it has, and it is the *)
(* only one.                                                                           *)
Covered(s, d) ==
  row[s][d].status \in ACTIVE_ORDER_STATUSES =>
    /\ exited[s] + Sold(s) + size[s][d] - book[s][d].fill <= bought[s]
    /\ \A e \in Days \ {d} : row[s][e].status \notin ACTIVE_ORDER_STATUSES

OrdersAreCovered == \A s \in Strategies \ disturbed, d \in Days : Covered(s, d)

FiguresInv ==
  /\ Quantities /\ OrdersAreKept /\ RunsAreKept
  /\ OverlapDisturbs /\ WeighedIsThere /\ OrdersAreCovered

LEMMA DaysAreFinite == IsFiniteSet(Days)
  BY FS_Interval, DaysAndShares DEF Days

\* Quantities by session are added up to a quantity.
LEMMA DaySums ==
  ASSUME NEW f \in [Days -> Nat]
  PROVE  Total(f) \in Nat
  BY DaysAreFinite, TotalNat

LEMMA SoldType ==
  ASSUME Shape, NEW s \in Strategies
  PROVE  Sold(s) \in Nat /\ Recorded(s) \in Nat
<1>1. [d \in Days |-> book[s][d].fill] \in [Days -> Nat]
  BY DEF Shape, BrokerOrder
<1>2. [d \in Days |-> row[s][d].filled] \in [Days -> Nat]
  BY DEF Shape, OrderRow
<1> QED
  BY <1>1, <1>2, DaySums DEF Sold, Recorded

\* What is weighed is a number of shares that could be bought, or less.
LEMMA NetType ==
  ASSUME Shape, Quantities, NEW s \in Strategies
  PROVE  /\ NetQuantity(s) = bought[s] - exited[s] - Recorded(s)
         /\ NetQuantity(s) \in Int /\ NetQuantity(s) <= Most
         /\ bought[s] \in 0..Most /\ exited[s] \in Nat
<1>1. bought[s] \in 0..Most /\ exited[s] \in Nat /\ Recorded(s) \in Nat
  BY SoldType DEF Quantities
<1>2. NetQuantity(s) = bought[s] - exited[s] - Recorded(s)
  BY DEF NetQuantity, Recorded
<1> QED
  BY <1>1, <1>2, DaysAndShares
-----------------------------------------------------------------------------
(* What a step of a worker leaves alone: what was bought and sold, and what the other *)
(* workers hold.  Who starts beside another disturbs everything.                      *)
Aside(w) ==
  /\ UNCHANGED <<killed, bought, exiting, exited>>
  /\ \A s \in Strategies, d \in Days : book'[s][d].fill = book[s][d].fill
  /\ disturbed \subseteq disturbed' /\ disturbed' \subseteq Strategies
  /\ \A v \in Workers \ {w} : amount'[v] = amount[v] /\ todo'[v] = todo[v]
  /\ pc[w] = "idle" /\ (\E v \in Workers : pc[v] # "idle") => disturbed' = Strategies

LEMMA WorkerKeepsAside ==
  ASSUME Shape, Quantities, NEW w \in Workers, WorkerStep(w)
  PROVE  Aside(w)
<1> USE DEF Shape, Quantities, Aside, Go, Drop, worldVars, orderVars, tradeVars
<1>1. ASSUME NEW due \in SUBSET Strategies, Begin(w, due) PROVE Aside(w)
  BY <1>1 DEF Begin
<1>2. ASSUME NEW s \in Strategies, Synchronize(w, s) PROVE Aside(w)
  BY <1>2 DEF Synchronize
<1>3. ASSUME NEW s \in Strategies, Refuse(w, s) PROVE Aside(w)
  BY <1>3 DEF Refuse, Settled, RecordAmbiguity
<1>4. ASSUME NEW s \in Strategies, ClaimWithOrderIntent(w, s) PROVE Aside(w)
  BY <1>4 DEF ClaimWithOrderIntent
<1>5. ASSUME NEW s \in Strategies, ClaimLost(w, s) PROVE Aside(w)
  BY <1>5 DEF ClaimLost, Settled
<1>6. CASE Weigh(w)
  BY <1>6 DEF Weigh
<1>7. CASE CannotWeigh(w)
  BY <1>7 DEF CannotWeigh, RecordAmbiguity
<1>8. CASE FindCompleted(w)
  BY <1>8 DEF FindCompleted, Deciding, ToMark
<1>9. CASE FindStopped(w)
  BY <1>9 DEF FindStopped, Deciding, ToMark
<1>10. CASE FindUnderWay(w)
  BY <1>10 DEF FindUnderWay, Deciding, PassOver
<1>11. CASE Blocked(w)
  BY <1>11, Members DEF Blocked, Deciding, ToMark, PassOver
<1>12. CASE RefuseNegative(w)
  BY <1>12 DEF RefuseNegative, Deciding, PassOver, RecordAmbiguity
<1>13. CASE BecomeCandidate(w)
  BY <1>13 DEF BecomeCandidate, Deciding
<1>14. CASE Mark(w)
  BY <1>14 DEF Mark, WriteVerdict
<1>15. CASE ReadPosition(w)
  BY <1>15 DEF ReadPosition, Chosen
<1>16. CASE ReadFails(w)
  BY <1>16 DEF ReadFails, Chosen
<1>17. CASE Check(w)
  BY <1>17 DEF Check
<1>18. CASE Finish(w)
  BY <1>18 DEF Finish, End
<1>19. CASE GateRefuses(w)
  BY <1>19 DEF GateRefuses, OutcomeKnown
<1>20. CASE Dispatch(w)
  BY <1>20 DEF Dispatch
<1>21. CASE StaleIntent(w)
  BY <1>21 DEF StaleIntent, End
<1>22. CASE Transmit(w)
  <2>1. PICK b : b = book[cur[w]][target[w]]
    OBVIOUS
  <2>2. cur[w] \in Strategies /\ target[w] \in Days
    BY <1>22 DEF Transmit, AtHand, Sending
  <2>3. b \in BrokerOrder
    BY <2>1, <2>2
  <2>4. [b EXCEPT !.state = "flying", !.sent = b.sent + 1].fill = b.fill
    BY <2>3 DEF BrokerOrder
  <2>5. book' = [book EXCEPT ![cur[w]][target[w]] =
          [b EXCEPT !.state = "flying", !.sent = b.sent + 1]]
    BY <1>22, <2>1 DEF Transmit
  <2>6. \A s \in Strategies, d \in Days : book'[s][d].fill = book[s][d].fill
    BY <2>1, <2>2, <2>4, <2>5
  <2> QED
    BY <1>22, <2>6 DEF Transmit
<1>23. CASE NotTransmitted(w)
  BY <1>23 DEF NotTransmitted, OutcomeKnown
<1>24. CASE Answer(w)
  BY <1>24 DEF Answer, OutcomeKnown
<1>25. CASE NoAnswer(w)
  BY <1>25 DEF NoAnswer, OutcomeKnown
<1>26. CASE Conclude(w)
  BY <1>26 DEF Conclude, WriteVerdict
<1>27. CASE Die(w)
  BY <1>27 DEF Die, End
<1> QED
  BY <1>1, <1>2, <1>3, <1>4, <1>5, <1>6, <1>7, <1>8, <1>9, <1>10, <1>11, <1>12, <1>13,
     <1>14, <1>15, <1>16, <1>17, <1>18, <1>19, <1>20, <1>21, <1>22, <1>23, <1>24, <1>25,
     <1>26, <1>27 DEF WorkerStep, Decide

LEMMA FillsStay ==
  ASSUME UNCHANGED <<bought, exited>>,
         \A s \in Strategies, d \in Days : book'[s][d].fill = book[s][d].fill
  PROVE  Held' = Held /\ \A s \in Strategies : Sold(s)' = Sold(s)
<1>1. ASSUME NEW s \in Strategies
      PROVE  [d \in Days |-> book'[s][d].fill] = [d \in Days |-> book[s][d].fill]
  OBVIOUS
<1>2. \A s \in Strategies :
        Total([d \in Days |-> book'[s][d].fill]) = Total([d \in Days |-> book[s][d].fill])
  BY <1>1
<1>3. [s \in Strategies |->
         bought'[s] - exited'[s] - Total([d \in Days |-> book'[s][d].fill])]
      = [s \in Strategies |->
           bought[s] - exited[s] - Total([d \in Days |-> book[s][d].fill])]
  BY <1>2
<1> QED
  BY <1>2, <1>3 DEF Held, Sold
LEMMA QuantitiesWorker ==
  ASSUME Shape, Quantities, NEW w \in Workers, RunKept(w), WorkerStep(w)
  PROVE  Quantities'
<1>0. Aside(w)
  BY WorkerKeepsAside
<1>a. Held' \in Nat
  BY <1>0, FillsStay DEF Aside, Quantities
<1>b. /\ killed' \in BOOLEAN /\ bought' \in [Strategies -> 0..Most]
      /\ exiting' \in [Strategies -> Nat] /\ exited' \in [Strategies -> Nat]
      /\ disturbed' \in SUBSET Strategies
  BY <1>0 DEF Aside, Quantities
<1> DEFINE Rest == /\ size' \in [Strategies -> [Days -> 0..Most]]
                   /\ amount' \in [Workers -> [Strategies -> Int]]
                   /\ sellable' \in [Workers -> Nat]
<1> SUFFICES Rest
  BY <1>a, <1>b DEF Quantities
<1>c. /\ size \in [Strategies -> [Days -> 0..Most]]
      /\ amount \in [Workers -> [Strategies -> Int]]
      /\ sellable \in [Workers -> Nat]
      /\ Nothing \in [Strategies -> Int]
      /\ cur \in [Workers -> Strategies \cup {None}]
      /\ session \in [Workers -> Days]
      /\ Held \in Nat
  BY DEF Quantities, Shape, Nothing
<1>d. /\ pc[w] \in AtHand /\ Drop(w) => amount' \in [Workers -> [Strategies -> Int]]
      /\ \A s \in Strategies : Settled(w, s) => amount' \in [Workers -> [Strategies -> Int]]
  <2>1. pc[w] \in AtHand => cur[w] \in Strategies
    BY DEF Shape
  <2>2. ASSUME NEW x \in Strategies, amount' = [amount EXCEPT ![w][x] = 0]
        PROVE  amount' \in [Workers -> [Strategies -> Int]]
    BY <1>c, <2>2
  <2> QED
    BY <2>1, <2>2 DEF Drop, Settled
<1> USE <1>c DEF AtHand, Sending, Go, worldVars, orderVars
<1>1. ASSUME NEW due \in SUBSET Strategies, Begin(w, due) PROVE Rest
  BY <1>1 DEF Begin
<1>2. ASSUME NEW s \in Strategies, Synchronize(w, s) PROVE Rest
  BY <1>2 DEF Synchronize
<1>3. ASSUME NEW s \in Strategies, Refuse(w, s) PROVE Rest
  BY <1>3, <1>d DEF Refuse
<1>4. ASSUME NEW s \in Strategies, ClaimWithOrderIntent(w, s) PROVE Rest
  <2>1. amount[w][s] \in 0..Most
    BY <1>4, DaysAndShares DEF ClaimWithOrderIntent, RunKept, MemoryKept
  <2> QED
    BY <1>4, <2>1 DEF ClaimWithOrderIntent
<1>5. ASSUME NEW s \in Strategies, ClaimLost(w, s) PROVE Rest
  BY <1>5, <1>d DEF ClaimLost
<1>6. CASE Weigh(w)
  <2>1. cur[w] \in Strategies
    BY <1>6 DEF Weigh, Shape, AtHand
  <2>2. NetQuantity(cur[w]) \in Int
    BY <2>1, NetType
  <2> QED
    BY <1>6, <2>1, <2>2 DEF Weigh
<1>7. CASE CannotWeigh(w)
  BY <1>7, <1>d DEF CannotWeigh
<1>8. CASE FindCompleted(w)
  BY <1>8 DEF FindCompleted, Deciding, ToMark
<1>9. CASE FindStopped(w)
  BY <1>9 DEF FindStopped, Deciding, ToMark
<1>10. CASE FindUnderWay(w)
  BY <1>10, <1>d DEF FindUnderWay, Deciding, PassOver
<1>11. CASE Blocked(w)
  BY <1>11, <1>d DEF Blocked, Deciding, PassOver, ToMark
<1>12. CASE RefuseNegative(w)
  BY <1>12, <1>d DEF RefuseNegative, Deciding, PassOver
<1>13. CASE BecomeCandidate(w)
  BY <1>13 DEF BecomeCandidate, Deciding
<1>14. CASE Mark(w)
  BY <1>14, <1>d DEF Mark
<1>15. CASE ReadPosition(w)
  BY <1>15 DEF ReadPosition, Chosen
<1>16. CASE ReadFails(w)
  BY <1>16 DEF ReadFails, Chosen
<1>17. CASE Check(w)
  BY <1>17 DEF Check
<1>18. CASE Finish(w)
  BY <1>18 DEF Finish, End
<1>19. CASE GateRefuses(w)
  BY <1>19 DEF GateRefuses, OutcomeKnown
<1>20. CASE Dispatch(w)
  BY <1>20 DEF Dispatch
<1>21. CASE StaleIntent(w)
  BY <1>21 DEF StaleIntent, End
<1>22. CASE Transmit(w)
  BY <1>22 DEF Transmit
<1>23. CASE NotTransmitted(w)
  BY <1>23 DEF NotTransmitted, OutcomeKnown
<1>24. CASE Answer(w)
  BY <1>24 DEF Answer, OutcomeKnown
<1>25. CASE NoAnswer(w)
  BY <1>25 DEF NoAnswer, OutcomeKnown
<1>26. CASE Conclude(w)
  BY <1>26, <1>d DEF Conclude
<1>27. CASE Die(w)
  BY <1>27 DEF Die, End
<1> QED
  BY <1>1, <1>2, <1>3, <1>4, <1>5, <1>6, <1>7, <1>8, <1>9, <1>10, <1>11, <1>12, <1>13,
     <1>14, <1>15, <1>16, <1>17, <1>18, <1>19, <1>20, <1>21, <1>22, <1>23, <1>24, <1>25,
     <1>26, <1>27 DEF WorkerStep, Decide
-----------------------------------------------------------------------------
(* Orders, as their rows state them. *)

\* What the broker answers of an order is what its row may state.
LEMMA AcknowledgedIsKept ==
  ASSUME NEW r \in OrderRow, NEW b \in BrokerOrder, NEW z, NEW o, OrderKept(r, b, z, o),
         r.status = "submission_unknown", b.state \notin {"absent", "flying"}
  PROVE  OrderKept(Acknowledged(r, b), b, z, o)
<1> USE DEF OrderKept, OrderRow, BrokerOrder, Live, Final, Failed, TERMINAL_ORDER_STATUSES,
        ACTIVE_ORDER_STATUSES
<1>1. b.sent > 0
  OBVIOUS
<1>2. CASE b.state = "working"
  BY <1>1, <1>2 DEF Acknowledged
<1>3. CASE b.state = "filled"
  BY <1>1, <1>3 DEF Acknowledged
<1>4. CASE b.state \in Failed /\ b.fill = 0
  <2>1. PICK t \in Failed : t = b.state
    BY <1>4
  <2>2. Acknowledged(r, b) = [r EXCEPT !.status = t]
    BY <1>4, <2>1 DEF Acknowledged
  <2>3. /\ [r EXCEPT !.status = t].status = t
        /\ [r EXCEPT !.status = t].filled = r.filled
    OBVIOUS
  <2> HIDE DEF Acknowledged
  <2> QED
    BY <1>1, <1>4, <2>1, <2>2, <2>3
<1>5. CASE b.state \in Failed /\ b.fill # 0
  BY <1>5 DEF Acknowledged
<1> QED
  BY <1>2, <1>3, <1>4, <1>5

\* The figures of an order do not change, and only a filled order makes its operation
\* completed.
OpsOnly ==
  \A s \in Strategies, d \in Days :
    \/ op'[s][d] = op[s][d]
    \/ op'[s][d] \notin {"none", "completed"}
    \/ op'[s][d] = "completed" /\ row[s][d].status = "filled"

LEMMA OrdersKeptByWorker ==
  ASSUME IInv, Quantities, OrdersAreKept, NEW w \in Workers, RunKept(w), WorkerStep(w)
  PROVE  OrdersAreKept'
<1>0. Shape
  BY DEF IInv
<1>a. UNCHANGED orderVars => OrdersAreKept'
  BY DEF orderVars, OrdersAreKept
<1>b. OpsOnly /\ UNCHANGED <<row, size, book>> => OrdersAreKept'
  BY DEF OpsOnly, OrdersAreKept, OrderKept
<1>c. ASSUME NEW s \in Strategies, NEW d \in Days, RecordAmbiguity(s, d) PROVE OpsOnly
  BY <1>0, <1>c DEF RecordAmbiguity, OpsOnly, Shape
<1>d. ASSUME WriteVerdict(w), pc[w] \in AtHand, verdict[w] # "none",
             verdict[w] = "completed" => row[cur[w]][target[w]].status = "filled"
      PROVE  OpsOnly
  BY <1>0, <1>d DEF WriteVerdict, OpsOnly, Shape
<1>e. ASSUME NEW s \in Strategies, NEW d \in Days,
             OrderKept(row[s][d], book[s][d], size[s][d], op[s][d])',
             \A x \in Strategies, e \in Days : x # s \/ e # d =>
               /\ row'[x][e] = row[x][e] /\ book'[x][e] = book[x][e]
               /\ size'[x][e] = size[x][e] /\ op'[x][e] = op[x][e]
      PROVE  OrdersAreKept'
  BY <1>e DEF OrdersAreKept
<1> USE <1>0 DEF worldVars, orderVars
<1>1. ASSUME NEW due \in SUBSET Strategies, Begin(w, due) PROVE OrdersAreKept'
  BY <1>1, <1>a DEF Begin
<1>2. ASSUME NEW s \in Strategies, Synchronize(w, s) PROVE OrdersAreKept'
  <2>1. OpsOnly
    BY <1>2 DEF Synchronize, Promoted, OpsOnly, Shape, Failed, TERMINAL_ORDER_STATUSES
  <2> QED
    BY <1>2, <1>b, <2>1 DEF Synchronize
<1>3. ASSUME NEW s \in Strategies, Refuse(w, s) PROVE OrdersAreKept'
  BY <1>3, <1>b, <1>c DEF Refuse, Shape
<1>4. ASSUME NEW s \in Strategies, ClaimWithOrderIntent(w, s) PROVE OrdersAreKept'
  <2>1. PICK d \in Days : d = session[w]
    BY DEF Shape
  <2>2. op[s][d] = "none" /\ amount[w][s] > 0
    BY <1>4, <2>1 DEF ClaimWithOrderIntent, RunKept, MemoryKept
  <2>3. row[s][d].status = "absent" /\ book[s][d].sent = 0
    <3>1. book[s][d].sent \in Nat
      BY DEF Shape, BrokerOrder
    <3> QED
      BY <2>2, <3>1 DEF OrdersAreKept, OrderKept, IInv, OneSellPerSession
  <2>4. book[s][d].state = "absent" /\ book[s][d].fill = 0
    BY <2>3 DEF OrdersAreKept, OrderKept
  <2>5. /\ row'[s][d] = [status |-> "pending_intent", filled |-> 0]
        /\ book'[s][d] = book[s][d] /\ size'[s][d] = amount[w][s]
        /\ op'[s][d] = "intent_persisted"
    BY <1>4, <2>1 DEF ClaimWithOrderIntent, Shape, Quantities
  <2>6. amount[w][s] \in Int
    BY DEF Quantities
  <2>7. OrderKept(row[s][d], book[s][d], size[s][d], op[s][d])'
    BY <2>2, <2>3, <2>4, <2>5, <2>6 DEF OrderKept, Live, Final, TERMINAL_ORDER_STATUSES,
       ACTIVE_ORDER_STATUSES
  <2>8. \A x \in Strategies, e \in Days : x # s \/ e # d =>
          /\ row'[x][e] = row[x][e] /\ book'[x][e] = book[x][e]
          /\ size'[x][e] = size[x][e] /\ op'[x][e] = op[x][e]
    BY <1>4, <2>1 DEF ClaimWithOrderIntent, Shape, Quantities
  <2> QED
    BY <1>e, <2>7, <2>8
<1>5. ASSUME NEW s \in Strategies, ClaimLost(w, s) PROVE OrdersAreKept'
  BY <1>5, <1>a DEF ClaimLost
<1>6. CASE Weigh(w)
  BY <1>6, <1>a DEF Weigh
<1>7. CASE CannotWeigh(w)
  BY <1>7, <1>b, <1>c DEF CannotWeigh, Shape, AtHand
<1>8. CASE FindCompleted(w)
  BY <1>8, <1>a DEF FindCompleted, Deciding, ToMark
<1>9. CASE FindStopped(w)
  BY <1>9, <1>a DEF FindStopped, Deciding, ToMark
<1>10. CASE FindUnderWay(w)
  BY <1>10, <1>a DEF FindUnderWay, Deciding
<1>11. CASE Blocked(w)
  BY <1>11, <1>a DEF Blocked, Deciding, ToMark
<1>12. CASE RefuseNegative(w)
  BY <1>12, <1>b, <1>c DEF RefuseNegative, Deciding, Shape, AtHand
<1>13. CASE BecomeCandidate(w)
  BY <1>13, <1>a DEF BecomeCandidate, Deciding
<1>14. CASE Mark(w)
  <2>1. verdict[w] \notin {"none", "completed"}
    BY <1>14 DEF Mark, IInv, VerdictsAreOnRows, NeedsPerson
  <2> QED
    BY <1>14, <1>b, <1>d, <2>1 DEF Mark, AtHand
<1>15. CASE ReadPosition(w)
  BY <1>15, <1>a DEF ReadPosition
<1>16. CASE ReadFails(w)
  BY <1>16, <1>a DEF ReadFails
<1>17. CASE Check(w)
  BY <1>17, <1>a DEF Check
<1>18. CASE Finish(w)
  BY <1>18, <1>a DEF Finish
<1>19. CASE GateRefuses(w)
  BY <1>19, <1>a DEF GateRefuses, OutcomeKnown
<1>20. CASE Dispatch(w)
  <2>1. PICK s \in Strategies : s = cur[w]
    BY <1>20 DEF Dispatch, Shape, AtHand, Sending
  <2>2. PICK d \in Days : d = target[w]
    BY DEF Shape
  <2>3. PICK r \in OrderRow : r = row[s][d]
    BY DEF Shape
  <2>4. PICK b \in BrokerOrder : b = book[s][d]
    BY DEF Shape
  <2>5. OrderKept(r, b, size[s][d], op[s][d])
    BY <2>3, <2>4 DEF OrdersAreKept
  <2>6. r.status = "pending_intent" /\ row'[s][d] = [r EXCEPT !.status = "submission_unknown"]
    BY <1>20, <2>1, <2>2, <2>3 DEF Dispatch, Linked, Shape
  <2>7. OrderKept([r EXCEPT !.status = "submission_unknown"], b, size[s][d], op[s][d])
    BY <2>5, <2>6 DEF OrderKept, OrderRow, Live, Final, TERMINAL_ORDER_STATUSES,
       ACTIVE_ORDER_STATUSES
  <2>8. OrderKept(row[s][d], book[s][d], size[s][d], op[s][d])'
    BY <1>20, <2>4, <2>6, <2>7 DEF Dispatch
  <2>9. \A x \in Strategies, e \in Days : x # s \/ e # d =>
          /\ row'[x][e] = row[x][e] /\ book'[x][e] = book[x][e]
          /\ size'[x][e] = size[x][e] /\ op'[x][e] = op[x][e]
    BY <1>20, <2>1, <2>2 DEF Dispatch, Shape
  <2> QED
    BY <1>e, <2>8, <2>9
<1>21. CASE StaleIntent(w)
  BY <1>21, <1>a DEF StaleIntent
<1>22. CASE Transmit(w)
  <2>1. PICK s \in Strategies : s = cur[w]
    BY <1>22 DEF Transmit, Shape, AtHand, Sending
  <2>2. PICK d \in Days : d = target[w]
    BY DEF Shape
  <2>3. PICK r \in OrderRow : r = row[s][d]
    BY DEF Shape
  <2>4. PICK b \in BrokerOrder : b = book[s][d]
    BY DEF Shape
  <2>5. OrderKept(r, b, size[s][d], op[s][d])
    BY <2>3, <2>4 DEF OrdersAreKept
  <2>6. PICK c : c = [b EXCEPT !.state = "flying", !.sent = b.sent + 1]
    OBVIOUS
  <2>7. c.state = "flying" /\ c.sent = b.sent + 1 /\ c.fill = b.fill
    BY <2>6 DEF BrokerOrder
  <2>8. r.status = "submission_unknown" /\ size[s][d] > 0 /\ b.sent = 0
    BY <1>22, <2>1, <2>2, <2>3, <2>4 DEF Transmit, RunKept, StepKept, IInv,
       ClaimsAreExclusive
  <2>9. OrderKept(r, c, size[s][d], op[s][d])
    BY <2>5, <2>7, <2>8 DEF OrderKept, Live, Final, TERMINAL_ORDER_STATUSES,
       ACTIVE_ORDER_STATUSES
  <2>10. book' = [book EXCEPT ![s][d] = c] /\ UNCHANGED <<row, size, op>>
    BY <1>22, <2>1, <2>2, <2>4, <2>6 DEF Transmit
  <2>11. OrderKept(row[s][d], book[s][d], size[s][d], op[s][d])'
    BY <2>3, <2>9, <2>10 DEF Shape
  <2>12. \A x \in Strategies, e \in Days : x # s \/ e # d =>
           /\ row'[x][e] = row[x][e] /\ book'[x][e] = book[x][e]
           /\ size'[x][e] = size[x][e] /\ op'[x][e] = op[x][e]
    BY <2>10 DEF Shape
  <2> QED
    BY <1>e, <2>11, <2>12
<1>23. CASE NotTransmitted(w)
  <2>1. PICK s \in Strategies : s = cur[w]
    BY <1>23 DEF NotTransmitted, Shape, AtHand, Sending
  <2>2. PICK d \in Days : d = target[w]
    BY DEF Shape
  <2>3. PICK r \in OrderRow : r = row[s][d]
    BY DEF Shape
  <2>4. PICK b \in BrokerOrder : b = book[s][d]
    BY DEF Shape
  <2>5. OrderKept(r, b, size[s][d], op[s][d])
    BY <2>3, <2>4 DEF OrdersAreKept
  <2>6. row'[s][d] = [r EXCEPT !.status = "error"] /\ UNCHANGED <<size, book, op>>
    BY <1>23, <2>1, <2>2, <2>3 DEF NotTransmitted, OutcomeKnown, Shape
  <2>7. r.status = "submission_unknown" /\ b.sent = 0
    BY <1>23, <2>1, <2>2, <2>3, <2>4 DEF NotTransmitted, RunKept, StepKept, IInv,
       ClaimsAreExclusive
  <2>8. OrderKept([r EXCEPT !.status = "error"], b, size[s][d], op[s][d])
    BY <2>5, <2>7 DEF OrderKept, OrderRow, Live, Final, TERMINAL_ORDER_STATUSES,
       ACTIVE_ORDER_STATUSES
  <2>9. OrderKept(row[s][d], book[s][d], size[s][d], op[s][d])'
    BY <2>4, <2>6, <2>8
  <2>10. \A x \in Strategies, e \in Days : x # s \/ e # d =>
           /\ row'[x][e] = row[x][e] /\ book'[x][e] = book[x][e]
           /\ size'[x][e] = size[x][e] /\ op'[x][e] = op[x][e]
    BY <1>23, <2>1, <2>2, <2>6 DEF NotTransmitted, Shape
  <2> QED
    BY <1>e, <2>9, <2>10
<1>24. CASE Answer(w)
  <2>1. PICK s \in Strategies : s = cur[w]
    BY <1>24 DEF Answer, Shape, AtHand, Sending
  <2>2. PICK d \in Days : d = target[w]
    BY DEF Shape
  <2>3. PICK r \in OrderRow : r = row[s][d]
    BY DEF Shape
  <2>4. PICK b \in BrokerOrder : b = book[s][d]
    BY DEF Shape
  <2>5. OrderKept(r, b, size[s][d], op[s][d])
    BY <2>3, <2>4 DEF OrdersAreKept
  <2>6. PICK n : n = IF r.status = "submission_unknown" THEN Acknowledged(r, b) ELSE r
    OBVIOUS
  <2>7. b.state \notin {"absent", "flying"}
    BY <1>24, <2>1, <2>2, <2>4 DEF Answer
  <2>8. OrderKept(n, b, size[s][d], op[s][d])
    BY <2>5, <2>6, <2>7, AcknowledgedIsKept
  <2>9. row' = [row EXCEPT ![s][d] = n] /\ UNCHANGED <<size, book, op>>
    BY <1>24, <2>1, <2>2, <2>3, <2>4, <2>6 DEF Answer, OutcomeKnown, Linked
  <2>10. OrderKept(row[s][d], book[s][d], size[s][d], op[s][d])'
    BY <2>4, <2>8, <2>9 DEF Shape
  <2>11. \A x \in Strategies, e \in Days : x # s \/ e # d =>
           /\ row'[x][e] = row[x][e] /\ book'[x][e] = book[x][e]
           /\ size'[x][e] = size[x][e] /\ op'[x][e] = op[x][e]
    BY <2>9 DEF Shape
  <2> QED
    BY <1>e, <2>10, <2>11
<1>25. CASE NoAnswer(w)
  BY <1>25, <1>a DEF NoAnswer, OutcomeKnown
<1>26. CASE Conclude(w)
  <2>1. verdict[w] # "none"
        /\ (verdict[w] = "completed" => row[cur[w]][target[w]].status = "filled")
    BY <1>26 DEF Conclude, IInv, VerdictsAreOnRows, RunKept, StepKept
  <2> QED
    BY <1>26, <1>b, <1>d, <2>1 DEF Conclude, AtHand, Sending
<1>27. CASE Die(w)
  BY <1>27, <1>a DEF Die
<1> QED
  BY <1>1, <1>2, <1>3, <1>4, <1>5, <1>6, <1>7, <1>8, <1>9, <1>10, <1>11, <1>12, <1>13,
     <1>14, <1>15, <1>16, <1>17, <1>18, <1>19, <1>20, <1>21, <1>22, <1>23, <1>24, <1>25,
     <1>26, <1>27 DEF WorkerStep, Decide
-----------------------------------------------------------------------------
(* Runs, and what they hold in memory. *)

\* A worker writes on the row of the order it has claimed, or on one nobody had claimed.
Touches(w) ==
  \A s \in Strategies, d \in Days :
    \/ row'[s][d] = row[s][d] /\ size'[s][d] = size[s][d]
    \/ pc[w] \in Sending /\ s = cur[w] /\ d = target[w]
    \/ op[s][d] = "none"

LEMMA WorkerTouchesItsOwn ==
  ASSUME Shape, Quantities, NEW w \in Workers, WorkerStep(w)
  PROVE  Touches(w)
<1> USE DEF Shape, Quantities, Touches, Go, worldVars, orderVars, Sending
<1>1. ASSUME NEW due \in SUBSET Strategies, Begin(w, due) PROVE Touches(w)
  BY <1>1 DEF Begin
<1>2. ASSUME NEW s \in Strategies, Synchronize(w, s) PROVE Touches(w)
  BY <1>2 DEF Synchronize
<1>3. ASSUME NEW s \in Strategies, Refuse(w, s) PROVE Touches(w)
  BY <1>3 DEF Refuse, Settled, RecordAmbiguity
<1>4. ASSUME NEW s \in Strategies, ClaimWithOrderIntent(w, s) PROVE Touches(w)
  BY <1>4 DEF ClaimWithOrderIntent
<1>5. ASSUME NEW s \in Strategies, ClaimLost(w, s) PROVE Touches(w)
  BY <1>5 DEF ClaimLost, Settled
<1>6. CASE Weigh(w)
  BY <1>6 DEF Weigh
<1>7. CASE CannotWeigh(w)
  BY <1>7 DEF CannotWeigh, RecordAmbiguity
<1>8. CASE FindCompleted(w)
  BY <1>8 DEF FindCompleted, Deciding, ToMark
<1>9. CASE FindStopped(w)
  BY <1>9 DEF FindStopped, Deciding, ToMark
<1>10. CASE FindUnderWay(w)
  BY <1>10 DEF FindUnderWay, Deciding, PassOver
<1>11. CASE Blocked(w)
  BY <1>11 DEF Blocked, Deciding, ToMark, PassOver
<1>12. CASE RefuseNegative(w)
  BY <1>12 DEF RefuseNegative, Deciding, PassOver, RecordAmbiguity
<1>13. CASE BecomeCandidate(w)
  BY <1>13 DEF BecomeCandidate, Deciding
<1>14. CASE Mark(w)
  BY <1>14 DEF Mark, WriteVerdict
<1>15. CASE ReadPosition(w)
  BY <1>15 DEF ReadPosition, Chosen
<1>16. CASE ReadFails(w)
  BY <1>16 DEF ReadFails, Chosen
<1>17. CASE Check(w)
  BY <1>17 DEF Check
<1>18. CASE Finish(w)
  BY <1>18 DEF Finish, End
<1>19. CASE GateRefuses(w)
  BY <1>19 DEF GateRefuses, OutcomeKnown
<1>20. CASE Dispatch(w)
  <2>1. cur[w] \in Strategies /\ target[w] \in Days
    BY <1>20 DEF Dispatch, AtHand, Sending
  <2>2. \A s \in Strategies, d \in Days :
          s # cur[w] \/ d # target[w] => row'[s][d] = row[s][d]
    BY <1>20, <2>1 DEF Dispatch
  <2> QED
    BY <1>20, <2>2 DEF Dispatch
<1>21. CASE StaleIntent(w)
  BY <1>21 DEF StaleIntent, End
<1>22. CASE Transmit(w)
  BY <1>22 DEF Transmit
<1>23. CASE NotTransmitted(w)
  <2>1. cur[w] \in Strategies /\ target[w] \in Days
    BY <1>23 DEF NotTransmitted, AtHand, Sending
  <2>2. \A s \in Strategies, d \in Days :
          s # cur[w] \/ d # target[w] => row'[s][d] = row[s][d]
    BY <1>23, <2>1 DEF NotTransmitted
  <2> QED
    BY <1>23, <2>2 DEF NotTransmitted, OutcomeKnown
<1>24. CASE Answer(w)
  <2>1. cur[w] \in Strategies /\ target[w] \in Days
    BY <1>24 DEF Answer, AtHand, Sending
  <2>2. \A s \in Strategies, d \in Days :
          s # cur[w] \/ d # target[w] => row'[s][d] = row[s][d]
    BY <1>24, <2>1 DEF Answer
  <2> QED
    BY <1>24, <2>2 DEF Answer, OutcomeKnown
<1>25. CASE NoAnswer(w)
  BY <1>25 DEF NoAnswer, OutcomeKnown
<1>26. CASE Conclude(w)
  BY <1>26 DEF Conclude, WriteVerdict
<1>27. CASE Die(w)
  BY <1>27 DEF Die, End
<1> QED
  BY <1>1, <1>2, <1>3, <1>4, <1>5, <1>6, <1>7, <1>8, <1>9, <1>10, <1>11, <1>12, <1>13,
     <1>14, <1>15, <1>16, <1>17, <1>18, <1>19, <1>20, <1>21, <1>22, <1>23, <1>24, <1>25,
     <1>26, <1>27 DEF WorkerStep, Decide

LEMMA OutcomeOfRow ==
  \A x : /\ StatusAfter(x) # "reentry_blocked"
         /\ StatusAfter(x) = "completed" => x = "filled"
  BY DEF StatusAfter

LEMMA MemoryKeptByItself ==
  ASSUME IInv, Quantities, NEW w \in Workers, MemoryKept(w), StepKept(w), WorkerStep(w)
  PROVE  MemoryKept(w)'
<1>0. /\ candidates[w] \subseteq Strategies /\ todo[w] \subseteq Strategies
      /\ pc[w] \in AtHand => cur[w] \in Strategies
      /\ pc[w] = "idle" => candidates[w] = {}
      /\ w \in DOMAIN pc
  <2>1. \A s \in candidates[w] : s \in Strategies => pc[w] # "idle"
    <3>1. 1 \in Days
      BY Members
    <3> QED
      BY <3>1 DEF IInv, CandidatesAreFree
  <2> QED
    BY <2>1 DEF IInv, Shape
<1>q. /\ pc \in [Workers -> Steps]
      /\ candidates \in [Workers -> SUBSET Strategies]
      /\ todo \in [Workers -> SUBSET Strategies]
      /\ amount \in [Workers -> [Strategies -> Int]]
      /\ \A s \in Strategies : amount[w][s] \in Int
  BY DEF IInv, Shape, Quantities
<1>a. ASSUME UNCHANGED <<amount, candidates, todo>>, pc[w] # "idle" \/ pc'[w] # "idle"
      PROVE  pc'[w] # "idle" => MemoryKept(w)'
  BY <1>a DEF MemoryKept
<1>b. ASSUME NEW s \in Strategies, amount' = [amount EXCEPT ![w][s] = 0],
             candidates' = [candidates EXCEPT ![w] = @ \ {s}], pc'[w] # "idle",
             UNCHANGED todo
      PROVE  MemoryKept(w)'
  <2>1. \A x \in Strategies : amount'[w][x] = IF x = s THEN 0 ELSE amount[w][x]
    BY <1>q, <1>b
  <2>2. candidates'[w] = candidates[w] \ {s} /\ todo'[w] = todo[w]
    BY <1>q, <1>b
  <2> QED
    BY <1>b, <2>1, <2>2, DaysAndShares DEF MemoryKept
<1>c. ASSUME End(w) PROVE MemoryKept(w)'
  <2>1. amount'[w] = Nothing /\ candidates'[w] = {}
    BY <1>q, <1>c DEF End
  <2> QED
    BY <2>1, DaysAndShares DEF MemoryKept, Nothing
<1>d. \A x : Go(w, x) => pc'[w] = x
  BY <1>q DEF Go
<1>e. ASSUME Drop(w), pc[w] \in AtHand, pc'[w] # "idle", UNCHANGED todo PROVE MemoryKept(w)'
  BY <1>0, <1>b, <1>e DEF Drop
<1> USE DEF AtHand, Sending
<1>1. ASSUME NEW due \in SUBSET Strategies, Begin(w, due) PROVE MemoryKept(w)'
  <2>1. candidates'[w] = {} /\ amount'[w] = amount[w] /\ pc'[w] = "next"
    BY <1>1, <1>0, <1>d DEF Begin
  <2> QED
    BY <2>1 DEF MemoryKept
<1>2. ASSUME NEW s \in Strategies, Synchronize(w, s) PROVE MemoryKept(w)'
  <2>1. /\ candidates'[w] = candidates[w] /\ amount'[w] = amount[w]
        /\ todo'[w] \subseteq todo[w] /\ pc'[w] = "weigh"
    BY <1>2, <1>d, <1>q DEF Synchronize
  <2> QED
    BY <2>1 DEF MemoryKept
<1>3. ASSUME NEW s \in Strategies, Refuse(w, s) PROVE MemoryKept(w)'
  BY <1>3, <1>b DEF Refuse, Settled
<1>4. ASSUME NEW s \in Strategies, ClaimWithOrderIntent(w, s) PROVE MemoryKept(w)'
  BY <1>4, <1>a, <1>d DEF ClaimWithOrderIntent
<1>5. ASSUME NEW s \in Strategies, ClaimLost(w, s) PROVE MemoryKept(w)'
  BY <1>5, <1>b DEF ClaimLost, Settled
<1>6. CASE Weigh(w)
  <2>1. cur[w] \in Strategies /\ cur[w] \notin candidates[w]
    BY <1>6, <1>0 DEF Weigh, StepKept
  <2>2. PICK n \in Int : n = NetQuantity(cur[w]) /\ n <= Most
    BY <2>1, NetType DEF IInv
  <2>3. \A x \in Strategies : amount'[w][x] = IF x = cur[w] THEN n ELSE amount[w][x]
    BY <1>6, <1>q, <2>1, <2>2 DEF Weigh
  <2>4. /\ pc'[w] \in {"next", "decide"}
        /\ candidates'[w] = candidates[w] /\ todo'[w] = todo[w]
    BY <1>6, <1>d DEF Weigh
  <2> QED
    BY <2>1, <2>2, <2>3, <2>4 DEF MemoryKept
<1>7. CASE CannotWeigh(w)
  BY <1>7, <1>d, <1>e DEF CannotWeigh
<1>8. CASE FindCompleted(w)
  BY <1>8, <1>a, <1>d DEF FindCompleted, Deciding, ToMark
<1>9. CASE FindStopped(w)
  BY <1>9, <1>a, <1>d DEF FindStopped, Deciding, ToMark
<1>10. CASE FindUnderWay(w)
  BY <1>10, <1>d, <1>e DEF FindUnderWay, Deciding, PassOver
<1>11. CASE Blocked(w)
  BY <1>11, <1>a, <1>d, <1>e DEF Blocked, Deciding, ToMark, PassOver
<1>12. CASE RefuseNegative(w)
  BY <1>12, <1>d, <1>e DEF RefuseNegative, Deciding, PassOver
<1>13. CASE BecomeCandidate(w)
  <2>1. /\ candidates'[w] = candidates[w] \cup {cur[w]} /\ amount'[w] = amount[w]
        /\ todo'[w] = todo[w] /\ pc'[w] = "next"
    BY <1>13, <1>d, <1>q DEF BecomeCandidate, Deciding
  <2>2. cur[w] \notin todo[w] /\ amount[w][cur[w]] > 0
    BY <1>13 DEF BecomeCandidate, Deciding, StepKept
  <2> QED
    BY <2>1, <2>2 DEF MemoryKept
<1>14. CASE Mark(w)
  BY <1>14, <1>d, <1>e DEF Mark
<1>15. CASE ReadPosition(w)
  BY <1>15, <1>a, <1>d DEF ReadPosition, Chosen
<1>16. CASE ReadFails(w)
  BY <1>16, <1>a, <1>d DEF ReadFails, Chosen
<1>17. CASE Check(w)
  BY <1>17, <1>a, <1>d DEF Check
<1>18. CASE Finish(w)
  BY <1>18, <1>c DEF Finish
<1>19. CASE GateRefuses(w)
  BY <1>19, <1>a, <1>d DEF GateRefuses, OutcomeKnown
<1>20. CASE Dispatch(w)
  BY <1>20, <1>a, <1>d DEF Dispatch
<1>21. CASE StaleIntent(w)
  BY <1>21, <1>c DEF StaleIntent
<1>22. CASE Transmit(w)
  BY <1>22, <1>a, <1>d DEF Transmit
<1>23. CASE NotTransmitted(w)
  BY <1>23, <1>a, <1>d DEF NotTransmitted, OutcomeKnown
<1>24. CASE Answer(w)
  BY <1>24, <1>a, <1>d DEF Answer, OutcomeKnown
<1>25. CASE NoAnswer(w)
  BY <1>25, <1>a, <1>d DEF NoAnswer, OutcomeKnown
<1>26. CASE Conclude(w)
  BY <1>26, <1>d, <1>e DEF Conclude
<1>27. CASE Die(w)
  BY <1>27, <1>c DEF Die
<1> QED
  BY <1>1, <1>2, <1>3, <1>4, <1>5, <1>6, <1>7, <1>8, <1>9, <1>10, <1>11, <1>12, <1>13,
     <1>14, <1>15, <1>16, <1>17, <1>18, <1>19, <1>20, <1>21, <1>22, <1>23, <1>24, <1>25,
     <1>26, <1>27 DEF WorkerStep, Decide

\* Nothing is said of these steps.
Quiet == Steps \ {"weigh", "decide", "mark", "submit", "dispatched", "conclude"}

LEMMA StepKeptByItself ==
  ASSUME IInv, Quantities, NEW w \in Workers, MemoryKept(w), StepKept(w), WorkerStep(w)
  PROVE  StepKept(w)'
<1>q. /\ pc \in [Workers -> Steps]
      /\ cur \in [Workers -> Strategies \cup {None}]
      /\ target \in [Workers -> Days]
      /\ verdict \in [Workers -> OpStatus]
      /\ candidates \in [Workers -> SUBSET Strategies]
      /\ todo \in [Workers -> SUBSET Strategies]
      /\ amount \in [Workers -> [Strategies -> Int]]
      /\ row \in [Strategies -> [Days -> OrderRow]]
      /\ size \in [Strategies -> [Days -> 0..Most]]
      /\ target[w] \in Days /\ session[w] \in Days
      /\ pc[w] \in AtHand => cur[w] \in Strategies
  BY DEF IInv, Shape, Quantities
<1>a. pc'[w] \in Quiet => StepKept(w)'
  BY DEF Quiet, StepKept
<1>d. \A x : Go(w, x) => pc'[w] = x
  BY <1>q DEF Go
<1>e. ASSUME End(w) PROVE StepKept(w)'
  BY <1>a, <1>d, <1>e DEF End, Quiet, Steps
<1>f. ASSUME NEW d, NEW v, ToMark(w, d, v), pc[w] = "decide", UNCHANGED todo
      PROVE  StepKept(w)'
  BY <1>d, <1>f DEF ToMark, StepKept
<1> USE DEF AtHand, Sending
<1>1. ASSUME NEW due \in SUBSET Strategies, Begin(w, due) PROVE StepKept(w)'
  BY <1>1, <1>a, <1>d DEF Begin, Quiet, Steps
<1>2. ASSUME NEW s \in Strategies, Synchronize(w, s) PROVE StepKept(w)'
  <2>1. pc'[w] = "weigh" /\ cur'[w] = s /\ todo'[w] = todo[w] \ {s}
        /\ candidates'[w] = candidates[w]
    BY <1>2, <1>d, <1>q DEF Synchronize
  <2>2. s \notin candidates[w]
    BY <1>2 DEF Synchronize, MemoryKept
  <2> QED
    BY <2>1, <2>2 DEF StepKept
<1>3. ASSUME NEW s \in Strategies, Refuse(w, s) PROVE StepKept(w)'
  BY <1>3, <1>a DEF Refuse, Quiet, Steps
<1>4. ASSUME NEW s \in Strategies, ClaimWithOrderIntent(w, s) PROVE StepKept(w)'
  <2>1. /\ pc'[w] = "submit" /\ cur'[w] = s /\ target'[w] = session[w]
        /\ size'[s][session[w]] = amount[w][s]
    BY <1>4, <1>d, <1>q DEF ClaimWithOrderIntent
  <2>2. amount[w][s] > 0
    BY <1>4 DEF ClaimWithOrderIntent, MemoryKept
  <2> QED
    BY <2>1, <2>2 DEF StepKept
<1>5. ASSUME NEW s \in Strategies, ClaimLost(w, s) PROVE StepKept(w)'
  BY <1>5, <1>a DEF ClaimLost, Quiet, Steps
<1>6. CASE Weigh(w)
  <2>1. CASE pc'[w] = "next"
    BY <1>a, <2>1 DEF Quiet, Steps
  <2>2. CASE pc'[w] # "next"
    <3>1. cur[w] \in Strategies
      BY <1>6, <1>q DEF Weigh
    <3>2. pc'[w] = "decide" /\ cur'[w] = cur[w] /\ NetQuantity(cur[w]) # 0
          /\ candidates'[w] = candidates[w] /\ todo'[w] = todo[w]
      BY <1>6, <1>d, <2>2 DEF Weigh
    <3>3. PICK n \in Int : n = NetQuantity(cur[w])
      BY <3>1, NetType DEF IInv
    <3>4. amount'[w][cur[w]] = n
      BY <1>6, <1>q, <3>1, <3>3 DEF Weigh
    <3> QED
      BY <1>6, <3>2, <3>3, <3>4 DEF StepKept, Weigh
  <2> QED
    BY <2>1, <2>2
<1>7. CASE CannotWeigh(w)
  BY <1>7, <1>a, <1>d DEF CannotWeigh, Quiet, Steps
<1>8. CASE FindCompleted(w)
  BY <1>8, <1>f DEF FindCompleted, Deciding
<1>9. CASE FindStopped(w)
  BY <1>9, <1>f DEF FindStopped, Deciding
<1>10. CASE FindUnderWay(w)
  BY <1>10, <1>a, <1>d DEF FindUnderWay, Deciding, PassOver, Quiet, Steps
<1>11. CASE Blocked(w)
  <2>1. CASE Go(w, "next")
    BY <1>a, <1>d, <2>1 DEF Quiet, Steps
  <2> QED
    BY <1>11, <1>f, <2>1 DEF Blocked, Deciding, PassOver
<1>12. CASE RefuseNegative(w)
  BY <1>12, <1>a, <1>d DEF RefuseNegative, Deciding, PassOver, Quiet, Steps
<1>13. CASE BecomeCandidate(w)
  BY <1>13, <1>a, <1>d DEF BecomeCandidate, Deciding, Quiet, Steps
<1>14. CASE Mark(w)
  BY <1>14, <1>a, <1>d DEF Mark, Quiet, Steps
<1>15. CASE ReadPosition(w)
  BY <1>15, <1>a, <1>d DEF ReadPosition, Quiet, Steps
<1>16. CASE ReadFails(w)
  BY <1>16, <1>a, <1>d DEF ReadFails, Quiet, Steps
<1>17. CASE Check(w)
  BY <1>17, <1>a, <1>d DEF Check, Quiet, Steps
<1>18. CASE Finish(w)
  BY <1>18, <1>e DEF Finish
<1>19. CASE GateRefuses(w)
  <2>1. pc'[w] = "conclude" /\ verdict'[w] = "manual_reconciliation_required"
    BY <1>19, <1>d, <1>q DEF GateRefuses, OutcomeKnown
  <2> QED
    BY <2>1 DEF StepKept
<1>20. CASE Dispatch(w)
  <2>1. /\ pc'[w] = "dispatched" /\ cur'[w] = cur[w] /\ target'[w] = target[w]
        /\ size' = size /\ size[cur[w]][target[w]] > 0
    BY <1>20, <1>d DEF Dispatch, StepKept
  <2>2. row'[cur[w]][target[w]].status = "submission_unknown"
    <3>1. cur[w] \in Strategies
      BY <1>20, <1>q DEF Dispatch
    <3>2. PICK r \in OrderRow : r = row[cur[w]][target[w]]
      BY <1>q, <3>1
    <3>3. row'[cur[w]][target[w]] = [r EXCEPT !.status = "submission_unknown"]
      BY <1>20, <1>q, <3>1, <3>2 DEF Dispatch
    <3> QED
      BY <3>2, <3>3 DEF OrderRow
  <2> QED
    BY <2>1, <2>2 DEF StepKept
<1>21. CASE StaleIntent(w)
  BY <1>21, <1>e DEF StaleIntent
<1>22. CASE Transmit(w)
  BY <1>22, <1>a, <1>d DEF Transmit, Quiet, Steps
<1>23. CASE NotTransmitted(w)
  <2>1. /\ pc'[w] = "conclude" /\ cur'[w] = cur[w] /\ target'[w] = target[w]
        /\ verdict'[w] = StatusAfter("error")
    BY <1>23, <1>d, <1>q DEF NotTransmitted, OutcomeKnown
  <2>2. StatusAfter("error") \notin {"reentry_blocked", "completed"}
    BY OutcomeOfRow
  <2> QED
    BY <2>1, <2>2 DEF StepKept
<1>24. CASE Answer(w)
  <2>0. PICK n : n = IF Linked(w).status = "submission_unknown"
                       THEN Acknowledged(Linked(w), book[cur[w]][target[w]]) ELSE Linked(w)
    OBVIOUS
  <2>1. /\ pc'[w] = "conclude" /\ cur'[w] = cur[w] /\ target'[w] = target[w]
        /\ verdict'[w] = StatusAfter(n.status) /\ row' = [row EXCEPT ![cur[w]][target[w]] = n]
    BY <1>24, <1>d, <1>q, <2>0 DEF Answer, OutcomeKnown
  <2>2. row'[cur[w]][target[w]] = n
    BY <1>24, <1>q, <2>1 DEF Answer
  <2>3. StatusAfter(n.status) # "reentry_blocked"
        /\ (StatusAfter(n.status) = "completed" => n.status = "filled")
    BY OutcomeOfRow
  <2> QED
    BY <2>1, <2>2, <2>3 DEF StepKept
<1>25. CASE NoAnswer(w)
  <2>1. /\ pc'[w] = "conclude" /\ cur'[w] = cur[w] /\ target'[w] = target[w]
        /\ verdict'[w] = StatusAfter(Linked(w).status)
    BY <1>25, <1>d, <1>q DEF NoAnswer, OutcomeKnown
  <2>2. /\ StatusAfter(Linked(w).status) # "reentry_blocked"
        /\ StatusAfter(Linked(w).status) = "completed" => Linked(w).status = "filled"
    BY OutcomeOfRow
  <2>3. row' = row
    BY <1>25 DEF NoAnswer
  <2> QED
    BY <2>1, <2>2, <2>3 DEF StepKept, Linked
<1>26. CASE Conclude(w)
  BY <1>26, <1>a, <1>d DEF Conclude, Quiet, Steps
<1>27. CASE Die(w)
  BY <1>27, <1>e DEF Die
<1> QED
  BY <1>1, <1>2, <1>3, <1>4, <1>5, <1>6, <1>7, <1>8, <1>9, <1>10, <1>11, <1>12, <1>13,
     <1>14, <1>15, <1>16, <1>17, <1>18, <1>19, <1>20, <1>21, <1>22, <1>23, <1>24, <1>25,
     <1>26, <1>27 DEF WorkerStep, Decide
LEMMA RunsKeptByWorker ==
  ASSUME IInv, Quantities, RunsAreKept, NEW w \in Workers, WorkerStep(w)
  PROVE  RunsAreKept'
<1>0. Shape /\ Alone(w) /\ Aside(w) /\ Touches(w)
  BY WorkerIsAlone, WorkerKeepsAside, WorkerTouchesItsOwn DEF IInv
<1>1. RunKept(w)'
  BY MemoryKeptByItself, StepKeptByItself DEF RunsAreKept, RunKept
<1>2. ASSUME NEW v \in Workers \ {w} PROVE RunKept(v)'
  <2>1. /\ pc'[v] = pc[v] /\ cur'[v] = cur[v] /\ target'[v] = target[v]
        /\ verdict'[v] = verdict[v] /\ candidates'[v] = candidates[v]
        /\ amount'[v] = amount[v] /\ todo'[v] = todo[v]
    BY <1>0 DEF Alone, Aside
  <2>2. pc[v] \in Sending =>
          /\ row'[cur[v]][target[v]] = row[cur[v]][target[v]]
          /\ size'[cur[v]][target[v]] = size[cur[v]][target[v]]
    <3> SUFFICES ASSUME pc[v] \in Sending
                 PROVE  /\ row'[cur[v]][target[v]] = row[cur[v]][target[v]]
                        /\ size'[cur[v]][target[v]] = size[cur[v]][target[v]]
      OBVIOUS
    <3>1. cur[v] \in Strategies /\ target[v] \in Days
      BY <1>0 DEF Shape, AtHand
    <3>2. op[cur[v]][target[v]] # "none"
      BY DEF IInv, ClaimsAreExclusive
    <3>3. pc[w] \in Sending => cur[v] # cur[w] \/ target[v] # target[w]
      BY <1>2 DEF IInv, ClaimsAreExclusive
    <3> QED
      BY <1>0, <3>1, <3>2, <3>3 DEF Touches
  <2>3. RunKept(v)
    BY DEF RunsAreKept
  <2>4. MemoryKept(v)'
    BY <2>1, <2>3 DEF RunKept, MemoryKept
  <2>5. StepKept(v)'
    BY <2>1, <2>2, <2>3 DEF RunKept, StepKept, Sending
  <2> QED
    BY <2>4, <2>5 DEF RunKept
<1> QED
  BY <1>1, <1>2 DEF RunsAreKept

-----------------------------------------------------------------------------
(* What was weighed. *)

Weighs(w) ==
  /\ pc[w] = "weigh" /\ pc'[w] = "decide"
  /\ cur[w] \in Strategies
  /\ amount'[w][cur[w]] = NetQuantity(cur[w])
  /\ UNCHANGED <<bought, exited, row, cur>>

Marks(w) ==
  /\ pc[w] = "decide" /\ pc'[w] = "mark"
  /\ verdict'[w] = "reentry_blocked" =>
       op[cur[w]][session[w]] = "completed" /\ target'[w] = session[w]
  /\ UNCHANGED <<bought, exited, op, row, cur, amount, session, disturbed>>

LEMMA DecisionsAreWeighed ==
  ASSUME IInv, Quantities, NEW w \in Workers, WorkerStep(w)
  PROVE  Weighs(w) \/ Marks(w) \/ pc'[w] \notin {"decide", "mark"}
<1> DEFINE Decided == Weighs(w) \/ Marks(w) \/ pc'[w] \notin {"decide", "mark"}
<1>q. /\ pc \in [Workers -> Steps]
      /\ cur \in [Workers -> Strategies \cup {None}]
      /\ target \in [Workers -> Days]
      /\ verdict \in [Workers -> OpStatus]
      /\ amount \in [Workers -> [Strategies -> Int]]
      /\ pc[w] \in AtHand => cur[w] \in Strategies
  BY DEF IInv, Shape, Quantities
<1>a. \A x : Go(w, x) => pc'[w] = x
  BY <1>q DEF Go
<1>b. ASSUME NEW d, NEW v, ToMark(w, d, v), Deciding(w),
             v = "reentry_blocked" => op[cur[w]][session[w]] = "completed" /\ d = session[w]
      PROVE  Marks(w)
  BY <1>a, <1>b, <1>q DEF ToMark, Deciding, Marks, worldVars, tradeVars
<1> USE DEF Drop, End, tradeVars
<1>1. ASSUME NEW due \in SUBSET Strategies, Begin(w, due) PROVE Decided
  BY <1>1, <1>a DEF Begin
<1>2. ASSUME NEW s \in Strategies, Synchronize(w, s) PROVE Decided
  BY <1>2, <1>a DEF Synchronize
<1>3. ASSUME NEW s \in Strategies, Refuse(w, s) PROVE Decided
  BY <1>3 DEF Refuse
<1>4. ASSUME NEW s \in Strategies, ClaimWithOrderIntent(w, s) PROVE Decided
  BY <1>4, <1>a DEF ClaimWithOrderIntent
<1>5. ASSUME NEW s \in Strategies, ClaimLost(w, s) PROVE Decided
  BY <1>5 DEF ClaimLost
<1>6. CASE Weigh(w)
  <2>1. CASE NetQuantity(cur[w]) = 0
    BY <1>6, <1>a, <2>1 DEF Weigh
  <2>2. CASE NetQuantity(cur[w]) # 0
    <3>1. cur[w] \in Strategies
      BY <1>6, <1>q DEF Weigh, AtHand
    <3>2. amount'[w][cur[w]] = NetQuantity(cur[w]) /\ cur' = cur
      BY <1>6, <1>q, <2>2, <3>1 DEF Weigh
    <3> QED
      BY <1>6, <1>a, <3>1, <3>2 DEF Weigh, Weighs, worldVars, orderVars
  <2> QED
    BY <2>1, <2>2
<1>7. CASE CannotWeigh(w)
  BY <1>7, <1>a DEF CannotWeigh
<1>8. CASE FindCompleted(w)
  BY <1>8, <1>b DEF FindCompleted, Deciding, Existing
<1>9. CASE FindStopped(w)
  BY <1>9, <1>b DEF FindStopped, Deciding
<1>10. CASE FindUnderWay(w)
  BY <1>10, <1>a DEF FindUnderWay, Deciding, PassOver
<1>11. CASE Blocked(w)
  <2>1. CASE Go(w, "next")
    BY <1>a, <2>1
  <2> QED
    BY <1>11, <1>b, <2>1 DEF Blocked, Deciding, PassOver
<1>12. CASE RefuseNegative(w)
  BY <1>12, <1>a DEF RefuseNegative, Deciding, PassOver
<1>13. CASE BecomeCandidate(w)
  BY <1>13, <1>a DEF BecomeCandidate, Deciding
<1>14. CASE Mark(w)
  BY <1>14, <1>a DEF Mark
<1>15. CASE ReadPosition(w)
  BY <1>15, <1>a DEF ReadPosition
<1>16. CASE ReadFails(w)
  BY <1>16, <1>a DEF ReadFails
<1>17. CASE Check(w)
  BY <1>17, <1>a DEF Check
<1>18. CASE Finish(w)
  BY <1>18, <1>a DEF Finish, End
<1>19. CASE GateRefuses(w)
  BY <1>19, <1>a DEF GateRefuses, OutcomeKnown
<1>20. CASE Dispatch(w)
  BY <1>20, <1>a DEF Dispatch
<1>21. CASE StaleIntent(w)
  BY <1>21, <1>a DEF StaleIntent, End
<1>22. CASE Transmit(w)
  BY <1>22, <1>a DEF Transmit
<1>23. CASE NotTransmitted(w)
  BY <1>23, <1>a DEF NotTransmitted, OutcomeKnown
<1>24. CASE Answer(w)
  BY <1>24, <1>a DEF Answer, OutcomeKnown
<1>25. CASE NoAnswer(w)
  BY <1>25, <1>a DEF NoAnswer, OutcomeKnown
<1>26. CASE Conclude(w)
  BY <1>26, <1>a DEF Conclude
<1>27. CASE Die(w)
  BY <1>27, <1>a DEF Die, End
<1> QED
  BY <1>1, <1>2, <1>3, <1>4, <1>5, <1>6, <1>7, <1>8, <1>9, <1>10, <1>11, <1>12, <1>13,
     <1>14, <1>15, <1>16, <1>17, <1>18, <1>19, <1>20, <1>21, <1>22, <1>23, <1>24, <1>25,
     <1>26, <1>27 DEF WorkerStep, Decide

\* What a run does not have at hand stays as it was weighed.
Holds(w) ==
  \A s \in candidates'[w] :
    (pc'[w] \in Sending => cur'[w] # s) =>
      /\ s \in candidates[w]
      /\ pc[w] \in Sending => cur[w] # s
      /\ op'[s] = op[s] /\ row'[s] = row[s] /\ amount'[w][s] = amount[w][s]

LEMMA CandidatesAreHeld ==
  ASSUME IInv, Quantities, NEW w \in Workers, MemoryKept(w), StepKept(w), WorkerStep(w),
         ~BecomeCandidate(w)
  PROVE  Holds(w)
<1>q. /\ pc \in [Workers -> Steps]
      /\ cur \in [Workers -> Strategies \cup {None}]
      /\ target \in [Workers -> Days]
      /\ verdict \in [Workers -> OpStatus]
      /\ op \in [Strategies -> [Days -> OpStatus]]
      /\ row \in [Strategies -> [Days -> OrderRow]]
      /\ candidates \in [Workers -> SUBSET Strategies]
      /\ candidates[w] \subseteq Strategies
      /\ amount \in [Workers -> [Strategies -> Int]]
      /\ pc[w] \in AtHand => cur[w] \in Strategies
  BY DEF IInv, Shape, Quantities
<1>a. ASSUME UNCHANGED <<candidates, cur, amount, op, row>>,
             pc[w] \in Sending => pc'[w] \in Sending
      PROVE  Holds(w)
  BY <1>a DEF Holds
<1>b. End(w) => Holds(w)
  BY <1>q DEF End, Holds
<1>c. ASSUME Drop(w), pc[w] \in AtHand, \A x \in Strategies : x # cur[w] =>
               op'[x] = op[x] /\ row'[x] = row[x]
      PROVE  Holds(w)
  <2>1. \A x \in Strategies : x # cur[w] => amount'[w][x] = amount[w][x]
    BY <1>c, <1>q DEF Drop
  <2>2. candidates'[w] = candidates[w] \ {cur[w]}
    BY <1>c, <1>q DEF Drop
  <2> QED
    BY <1>c, <1>q, <2>1, <2>2 DEF Holds
<1>d. ASSUME NEW s \in Strategies, Settled(w, s), UNCHANGED <<pc, cur>>,
             \A x \in Strategies : x # s => op'[x] = op[x] /\ row'[x] = row[x]
      PROVE  Holds(w)
  <2>1. \A x \in Strategies : x # s => amount'[w][x] = amount[w][x]
    BY <1>d, <1>q DEF Settled
  <2>2. candidates'[w] = candidates[w] \ {s}
    BY <1>d, <1>q DEF Settled
  <2> QED
    BY <1>d, <1>q, <2>1, <2>2 DEF Holds
<1> USE DEF Holds, Go, AtHand, Sending, orderVars, worldVars
<1>1. ASSUME NEW due \in SUBSET Strategies, Begin(w, due) PROVE Holds(w)
  BY <1>1, <1>q DEF Begin
<1>2. ASSUME NEW s \in Strategies, Synchronize(w, s) PROVE Holds(w)
  BY <1>2, <1>q DEF Synchronize, MemoryKept
<1>3. ASSUME NEW s \in Strategies, Refuse(w, s) PROVE Holds(w)
  <2>1. \A x \in Strategies : x # s => op'[x] = op[x]
    BY <1>3, <1>q DEF Refuse, RecordAmbiguity
  <2> QED
    BY <1>3, <1>d, <2>1 DEF Refuse
<1>4. ASSUME NEW s \in Strategies, ClaimWithOrderIntent(w, s) PROVE Holds(w)
  <2>1. \A x \in Strategies : x # s => op'[x] = op[x] /\ row'[x] = row[x]
    BY <1>4, <1>q DEF ClaimWithOrderIntent
  <2>2. /\ pc'[w] = "submit" /\ cur'[w] = s /\ pc[w] = "claim"
        /\ candidates' = candidates /\ amount' = amount
    BY <1>4, <1>q DEF ClaimWithOrderIntent, Go
  <2> QED
    BY <1>q, <2>1, <2>2
<1>5. ASSUME NEW s \in Strategies, ClaimLost(w, s) PROVE Holds(w)
  BY <1>5, <1>d DEF ClaimLost
<1>6. CASE Weigh(w)
  <2>1. cur[w] \notin candidates[w]
    BY <1>6 DEF Weigh, StepKept
  <2>2. \A x \in Strategies : x # cur[w] => amount'[w][x] = amount[w][x]
    BY <1>6, <1>q DEF Weigh
  <2>3. candidates' = candidates /\ op' = op /\ row' = row /\ pc[w] \notin Sending
    BY <1>6 DEF Weigh
  <2> QED
    BY <1>q, <2>1, <2>2, <2>3
<1>7. CASE CannotWeigh(w)
  <2>1. \A x \in Strategies : x # cur[w] => op'[x] = op[x]
    BY <1>7, <1>q DEF CannotWeigh, Deciding, RecordAmbiguity
  <2> QED
    BY <1>7, <1>c, <1>q, <2>1 DEF CannotWeigh
<1>8. CASE FindCompleted(w)
  BY <1>8, <1>a DEF FindCompleted, Deciding, ToMark
<1>9. CASE FindStopped(w)
  BY <1>9, <1>a DEF FindStopped, Deciding, ToMark
<1>10. CASE FindUnderWay(w)
  BY <1>10, <1>c, <1>q DEF FindUnderWay, Deciding, PassOver
<1>11. CASE Blocked(w)
  BY <1>11, <1>a, <1>c, <1>q DEF Blocked, Deciding, ToMark, PassOver
<1>12. CASE RefuseNegative(w)
  <2>1. \A x \in Strategies : x # cur[w] => op'[x] = op[x]
    BY <1>12, <1>q DEF RefuseNegative, Deciding, RecordAmbiguity
  <2> QED
    BY <1>12, <1>c, <1>q, <2>1 DEF RefuseNegative, Deciding, PassOver
<1>13. CASE BecomeCandidate(w)
  BY <1>13
<1>14. CASE Mark(w)
  <2>1. \A x \in Strategies : x # cur[w] => op'[x] = op[x]
    BY <1>14, <1>q DEF Mark, WriteVerdict
  <2> QED
    BY <1>14, <1>c, <1>q, <2>1 DEF Mark
<1>15. CASE ReadPosition(w)
  BY <1>15, <1>a DEF ReadPosition, Chosen
<1>16. CASE ReadFails(w)
  BY <1>16, <1>a DEF ReadFails, Chosen
<1>17. CASE Check(w)
  BY <1>17, <1>a DEF Check
<1>18. CASE Finish(w)
  BY <1>18, <1>b DEF Finish
<1>19. CASE GateRefuses(w)
  BY <1>19, <1>a DEF GateRefuses, OutcomeKnown
<1>20. CASE Dispatch(w)
  <2>1. \A x \in Strategies : x # cur[w] => row'[x] = row[x]
    BY <1>20, <1>q DEF Dispatch
  <2>2. /\ pc[w] \in Sending /\ pc'[w] \in Sending /\ cur' = cur
        /\ candidates' = candidates /\ amount' = amount /\ op' = op
    BY <1>20, <1>q DEF Dispatch, OutcomeKnown, Go
  <2> QED
    BY <1>q, <2>1, <2>2
<1>21. CASE StaleIntent(w)
  BY <1>21, <1>b DEF StaleIntent
<1>22. CASE Transmit(w)
  BY <1>22, <1>a DEF Transmit
<1>23. CASE NotTransmitted(w)
  <2>1. \A x \in Strategies : x # cur[w] => row'[x] = row[x]
    BY <1>23, <1>q DEF NotTransmitted
  <2>2. /\ pc[w] \in Sending /\ pc'[w] \in Sending /\ cur' = cur
        /\ candidates' = candidates /\ amount' = amount /\ op' = op
    BY <1>23, <1>q DEF NotTransmitted, OutcomeKnown, Go
  <2> QED
    BY <1>q, <2>1, <2>2
<1>24. CASE Answer(w)
  <2>1. \A x \in Strategies : x # cur[w] => row'[x] = row[x]
    BY <1>24, <1>q DEF Answer
  <2>2. /\ pc[w] \in Sending /\ pc'[w] \in Sending /\ cur' = cur
        /\ candidates' = candidates /\ amount' = amount /\ op' = op
    BY <1>24, <1>q DEF Answer, OutcomeKnown, Go
  <2> QED
    BY <1>q, <2>1, <2>2
<1>25. CASE NoAnswer(w)
  BY <1>25, <1>a DEF NoAnswer, OutcomeKnown
<1>26. CASE Conclude(w)
  <2>1. \A x \in Strategies : x # cur[w] => op'[x] = op[x]
    BY <1>26, <1>q DEF Conclude, WriteVerdict
  <2> QED
    BY <1>26, <1>c, <1>q, <2>1 DEF Conclude
<1>27. CASE Die(w)
  BY <1>27, <1>b DEF Die
<1> QED
  BY <1>1, <1>2, <1>3, <1>4, <1>5, <1>6, <1>7, <1>8, <1>9, <1>10, <1>11, <1>12, <1>13,
     <1>14, <1>15, <1>16, <1>17, <1>18, <1>19, <1>20, <1>21, <1>22, <1>23, <1>24, <1>25,
     <1>26, <1>27 DEF WorkerStep, Decide
\* A completed operation of the current session, or none unresolved before one that is
\* free, means that no operation of the strategy is unresolved.
LEMMA CompletedIsDone ==
  ASSUME IInv, OrdersAreKept, NEW s \in Strategies, op[s][today] = "completed"
  PROVE  OpsDone(s)
<1> SUFFICES ASSUME NEW d \in Days PROVE op[s][d] \in Resolved
  BY DEF OpsDone
<1>1. today \in Days /\ today \in Nat /\ d \in Nat
  BY DEF IInv, Shape, Days
<1>2. book[s][today].sent > 0
  BY <1>1 DEF OrdersAreKept, OrderKept
<1>3. CASE d < today
  BY <1>1, <1>2, <1>3 DEF IInv, UnresolvedBlocksLater
<1>4. CASE d = today
  BY <1>4 DEF Resolved
<1>5. CASE d > today
  <2>1. op[s][d] = "none"
    BY <1>1, <1>5 DEF IInv, RunsAreOfToday
  <2> QED
    BY <2>1 DEF Resolved
<1> QED
  BY <1>1, <1>3, <1>4, <1>5

LEMMA FreeIsDone ==
  ASSUME IInv, NEW w \in Workers, pc[w] = "decide", Free(w)
  PROVE  cur[w] \in Strategies /\ OpsDone(cur[w])
<1>1. cur[w] \in Strategies /\ session[w] = today /\ today \in Days
  BY DEF IInv, Shape, RunsAreOfToday, AtHand
<1>2. ASSUME NEW d \in Days PROVE op[cur[w]][d] \in Resolved
  <2>0. today \in Nat /\ d \in Nat /\ d >= 1
    BY <1>1 DEF Days
  <2>1. CASE d < today
    <3>1. d \in 1..(today - 1)
      BY <2>0, <2>1
    <3> QED
      BY <1>1, <3>1 DEF Free, PriorUnresolved
  <2>2. CASE d = today
    BY <1>1, <2>2 DEF Free, Existing, Resolved
  <2>3. CASE d > today
    <3>1. op[cur[w]][d] = "none"
      BY <1>1, <2>0, <2>3 DEF IInv, RunsAreOfToday
    <3> QED
      BY <3>1 DEF Resolved
  <2> QED
    BY <2>0, <2>1, <2>2, <2>3
<1> QED
  BY <1>1, <1>2 DEF OpsDone

\* What is attributed to a strategy changes with its buys, exits and rows alone.
LEMMA NetStays ==
  ASSUME UNCHANGED <<bought, exited>>, NEW s \in Strategies, row'[s] = row[s]
  PROVE  NetQuantity(s)' = NetQuantity(s)
<1>1. [d \in Days |-> row'[s][d].filled] = [d \in Days |-> row[s][d].filled]
  OBVIOUS
<1>2. Total([d \in Days |-> row'[s][d].filled]) = Total([d \in Days |-> row[s][d].filled])
  BY <1>1
<1> QED
  BY <1>2 DEF NetQuantity

LEMMA OverlapWorker ==
  ASSUME IInv, Quantities, OverlapDisturbs, NEW w \in Workers, WorkerStep(w)
  PROVE  /\ OverlapDisturbs'
         /\ \A v \in Workers \ {w} : pc[v] # "idle" => disturbed' = Strategies
<1>0. Shape /\ Alone(w) /\ Aside(w)
  BY WorkerIsAlone, WorkerKeepsAside DEF IInv
<1>1. ASSUME NEW v \in Workers \ {w}, pc[v] # "idle" PROVE disturbed' = Strategies
  <2>1. CASE pc[w] = "idle"
    BY <1>0, <1>1, <2>1 DEF Aside
  <2>2. CASE pc[w] # "idle"
    <3>1. disturbed = Strategies
      BY <1>1, <2>2 DEF OverlapDisturbs
    <3> QED
      BY <1>0, <3>1 DEF Aside
  <2> QED
    BY <2>1, <2>2
<1>2. ASSUME NEW v \in Workers, NEW u \in Workers, v # u, pc'[v] # "idle", pc'[u] # "idle"
      PROVE  disturbed' = Strategies
  <2>1. PICK x \in {v, u} : x # w
    BY <1>2
  <2>2. pc[x] # "idle"
    BY <1>0, <1>2, <2>1 DEF Alone
  <2> QED
    BY <1>1, <2>1, <2>2
<1> QED
  BY <1>1, <1>2 DEF OverlapDisturbs

LEMMA WeighedWorker ==
  ASSUME IInv, Quantities, OrdersAreKept, RunsAreKept, OverlapDisturbs, WeighedIsThere,
         NEW w \in Workers, WorkerStep(w)
  PROVE  WeighedIsThere'
<1>0. Shape /\ Shape' /\ Alone(w) /\ Aside(w)
  BY WorkerIsAlone, WorkerKeepsAside, ShapeWorker DEF IInv
<1>k. MemoryKept(w) /\ StepKept(w) /\ WeighedRight(w)
  BY DEF RunsAreKept, RunKept, WeighedIsThere
<1>1. ASSUME NEW v \in Workers \ {w} PROVE WeighedRight(v)'
  <2>1. pc'[v] = pc[v] /\ candidates'[v] = candidates[v]
    BY <1>0 DEF Alone
  <2>2. CASE pc[v] = "idle"
    <3>1. candidates[v] = {}
      <4>1. 1 \in Days /\ candidates[v] \subseteq Strategies
        BY <1>0, Members DEF Shape
      <4> QED
        BY <2>2, <4>1 DEF IInv, CandidatesAreFree
    <3> QED
      BY <2>1, <2>2, <3>1 DEF WeighedRight
  <2>3. CASE pc[v] # "idle"
    <3>1. disturbed' = Strategies
      BY <2>3, OverlapWorker
    <3>2. pc'[v] \in {"decide", "mark"} => cur'[v] \in Strategies
      BY <1>0 DEF Shape, AtHand
    <3>3. candidates'[v] \subseteq Strategies
      BY <1>0 DEF Shape
    <3> QED
      BY <3>1, <3>2, <3>3 DEF WeighedRight
  <2> QED
    BY <2>2, <2>3
<1>2. UNCHANGED <<bought, exited>> /\ disturbed \subseteq disturbed'
  BY <1>0 DEF Aside
<1>3. /\ pc'[w] \in {"decide", "mark"} /\ cur'[w] \notin disturbed'
      /\ OpsDone(cur[w])' /\ cur'[w] = cur[w]
      => amount'[w][cur'[w]] <= NetQuantity(cur[w])'
  <2> SUFFICES ASSUME pc'[w] \in {"decide", "mark"}, cur'[w] \notin disturbed',
                      OpsDone(cur[w])', cur'[w] = cur[w]
               PROVE  amount'[w][cur[w]] <= NetQuantity(cur[w])'
    OBVIOUS
  <2>1. CASE Weighs(w)
    <3>1. NetQuantity(cur[w])' = NetQuantity(cur[w]) /\ NetQuantity(cur[w]) \in Int
      BY <1>0, <2>1, NetStays, NetType DEF Weighs
    <3> QED
      BY <2>1, <3>1 DEF Weighs
  <2>2. CASE Marks(w)
    <3>1. cur[w] \in Strategies
      BY <1>0, <2>2 DEF Marks, Shape, AtHand
    <3>2. NetQuantity(cur[w])' = NetQuantity(cur[w])
      BY <2>2, <3>1, NetStays DEF Marks
    <3>3. amount[w][cur[w]] <= NetQuantity(cur[w])
      BY <1>k, <2>2 DEF Marks, WeighedRight, OpsDone
    <3> QED
      BY <2>2, <3>2, <3>3 DEF Marks
  <2> QED
    BY <2>1, <2>2, DecisionsAreWeighed
<1>4. pc'[w] \in {"decide", "mark"} => cur'[w] = cur[w]
  BY DecisionsAreWeighed DEF Weighs, Marks
<1>5. pc'[w] = "mark" /\ verdict'[w] = "reentry_blocked" /\ cur'[w] \notin disturbed' =>
        op'[cur'[w]][session'[w]] = "completed" /\ target'[w] = session'[w]
  BY DecisionsAreWeighed DEF Weighs, Marks
<1>6. ASSUME NEW s \in candidates'[w] \ disturbed', pc'[w] \in Sending => cur'[w] # s
      PROVE  OpsDone(s)' /\ amount'[w][s] <= NetQuantity(s)'
  <2>1. CASE ~BecomeCandidate(w)
    <3>1. /\ s \in candidates[w] \ disturbed /\ (pc[w] \in Sending => cur[w] # s)
          /\ op'[s] = op[s] /\ row'[s] = row[s] /\ amount'[w][s] = amount[w][s]
      BY <1>2, <1>6, <1>k, <2>1, CandidatesAreHeld DEF Holds
    <3>2. OpsDone(s) /\ amount[w][s] <= NetQuantity(s)
      BY <1>k, <3>1 DEF WeighedRight
    <3>3. NetQuantity(s)' = NetQuantity(s)
      BY <1>0, <1>2, <3>1, NetStays DEF Shape
    <3> QED
      BY <3>1, <3>2, <3>3 DEF OpsDone
  <2>2. CASE BecomeCandidate(w)
    <3>1. /\ pc[w] = "decide" /\ Free(w) /\ s \in candidates[w] \cup {cur[w]}
          /\ UNCHANGED <<op, row, amount, disturbed>>
      BY <1>0, <1>6, <2>2 DEF BecomeCandidate, Deciding, Shape
    <3>2. OpsDone(s) /\ amount[w][s] <= NetQuantity(s) /\ s \in Strategies
      BY <1>0, <1>6, <1>k, <3>1, FreeIsDone DEF WeighedRight, Sending, Shape
    <3>3. NetQuantity(s)' = NetQuantity(s)
      BY <1>2, <3>1, <3>2, NetStays
    <3> QED
      BY <3>1, <3>2, <3>3 DEF OpsDone
  <2> QED
    BY <2>1, <2>2
<1>7. WeighedRight(w)'
  BY <1>3, <1>4, <1>5, <1>6 DEF WeighedRight, OpsDone
<1> QED
  BY <1>1, <1>7 DEF WeighedIsThere
-----------------------------------------------------------------------------
(* Orders that may still fill. *)

\* A claim opens an order; nothing else a worker does makes one open, or larger.
OpensNothing ==
  /\ UNCHANGED size
  /\ \A s \in Strategies, d \in Days :
       row'[s][d].status \in ACTIVE_ORDER_STATUSES => row[s][d].status \in ACTIVE_ORDER_STATUSES

LEMMA OnlyClaimsOpen ==
  ASSUME Shape, NEW w \in Workers, WorkerStep(w),
         ~ \E s \in Strategies : ClaimWithOrderIntent(w, s)
  PROVE  OpensNothing
<1>a. UNCHANGED <<row, size>> => OpensNothing
  BY DEF OpensNothing
<1> USE DEF OpensNothing, orderVars
<1>1. ASSUME NEW due \in SUBSET Strategies, Begin(w, due) PROVE OpensNothing
  BY <1>1, <1>a DEF Begin
<1>2. ASSUME NEW s \in Strategies, Synchronize(w, s) PROVE OpensNothing
  BY <1>2, <1>a DEF Synchronize
<1>3. ASSUME NEW s \in Strategies, Refuse(w, s) PROVE OpensNothing
  BY <1>3, <1>a DEF Refuse, Settled
<1>4. ASSUME NEW s \in Strategies, ClaimWithOrderIntent(w, s) PROVE OpensNothing
  BY <1>4 DEF ClaimWithOrderIntent
<1>5. ASSUME NEW s \in Strategies, ClaimLost(w, s) PROVE OpensNothing
  BY <1>5, <1>a DEF ClaimLost, Settled
<1>6. CASE Weigh(w)
  BY <1>6, <1>a DEF Weigh
<1>7. CASE CannotWeigh(w)
  BY <1>7, <1>a DEF CannotWeigh
<1>8. CASE FindCompleted(w)
  BY <1>8, <1>a DEF FindCompleted, Deciding, ToMark
<1>9. CASE FindStopped(w)
  BY <1>9, <1>a DEF FindStopped, Deciding, ToMark
<1>10. CASE FindUnderWay(w)
  BY <1>10, <1>a DEF FindUnderWay, Deciding, PassOver
<1>11. CASE Blocked(w)
  BY <1>11, <1>a DEF Blocked, Deciding, ToMark, PassOver
<1>12. CASE RefuseNegative(w)
  BY <1>12, <1>a DEF RefuseNegative, Deciding, PassOver
<1>13. CASE BecomeCandidate(w)
  BY <1>13, <1>a DEF BecomeCandidate, Deciding
<1>14. CASE Mark(w)
  BY <1>14, <1>a DEF Mark
<1>15. CASE ReadPosition(w)
  BY <1>15, <1>a DEF ReadPosition
<1>16. CASE ReadFails(w)
  BY <1>16, <1>a DEF ReadFails
<1>17. CASE Check(w)
  BY <1>17, <1>a DEF Check
<1>18. CASE Finish(w)
  BY <1>18, <1>a DEF Finish, End
<1>19. CASE GateRefuses(w)
  BY <1>19, <1>a DEF GateRefuses, OutcomeKnown
<1>20. CASE Dispatch(w)
  <2>1. PICK s \in Strategies : s = cur[w]
    BY <1>20 DEF Dispatch, Shape, AtHand, Sending
  <2>2. PICK d \in Days : d = target[w]
    BY DEF Shape
  <2>3. PICK r \in OrderRow : r = row[s][d]
    BY DEF Shape
  <2>4. row'[s][d] = [r EXCEPT !.status = "submission_unknown"]
    BY <1>20, <2>1, <2>2, <2>3 DEF Dispatch, Shape
  <2>5. row'[s][d].status = "submission_unknown"
    BY <2>4 DEF OrderRow
  <2>6. "submission_unknown" \in ACTIVE_ORDER_STATUSES => r.status \in ACTIVE_ORDER_STATUSES
    BY <1>20, <2>1, <2>2, <2>3 DEF Dispatch, Linked, ACTIVE_ORDER_STATUSES
  <2>7. \A x \in Strategies, e \in Days : x # s \/ e # d => row'[x][e] = row[x][e]
    BY <1>20, <2>1, <2>2 DEF Dispatch, Shape
  <2> QED
    BY <1>20, <2>3, <2>5, <2>6, <2>7 DEF Dispatch, OutcomeKnown
<1>21. CASE StaleIntent(w)
  BY <1>21, <1>a DEF StaleIntent, End
<1>22. CASE Transmit(w)
  BY <1>22, <1>a DEF Transmit
<1>23. CASE NotTransmitted(w)
  <2>1. PICK s \in Strategies : s = cur[w]
    BY <1>23 DEF NotTransmitted, Shape, AtHand, Sending
  <2>2. PICK d \in Days : d = target[w]
    BY DEF Shape
  <2>3. PICK r \in OrderRow : r = row[s][d]
    BY DEF Shape
  <2>4. row'[s][d] = [r EXCEPT !.status = "error"]
    BY <1>23, <2>1, <2>2, <2>3 DEF NotTransmitted, Shape
  <2>5. row'[s][d].status = "error"
    BY <2>4 DEF OrderRow
  <2>6. "error" \in ACTIVE_ORDER_STATUSES => r.status \in ACTIVE_ORDER_STATUSES
    BY DEF ACTIVE_ORDER_STATUSES
  <2>7. \A x \in Strategies, e \in Days : x # s \/ e # d => row'[x][e] = row[x][e]
    BY <1>23, <2>1, <2>2 DEF NotTransmitted, Shape
  <2> QED
    BY <1>23, <2>3, <2>5, <2>6, <2>7 DEF NotTransmitted, OutcomeKnown
<1>24. CASE Answer(w)
  <2>1. PICK s \in Strategies : s = cur[w]
    BY <1>24 DEF Answer, Shape, AtHand, Sending
  <2>2. PICK d \in Days : d = target[w]
    BY DEF Shape
  <2>3. PICK r \in OrderRow : r = row[s][d]
    BY DEF Shape
  <2>4. PICK n : n = IF r.status = "submission_unknown" THEN Acknowledged(r, book[s][d]) ELSE r
    OBVIOUS
  <2>5. row' = [row EXCEPT ![s][d] = n]
    BY <1>24, <2>1, <2>2, <2>3, <2>4 DEF Answer, Linked
  <2>6. n.status \in ACTIVE_ORDER_STATUSES => r.status \in ACTIVE_ORDER_STATUSES
    BY <2>4 DEF ACTIVE_ORDER_STATUSES
  <2>7. /\ row'[s][d] = n
        /\ \A x \in Strategies, e \in Days : x # s \/ e # d => row'[x][e] = row[x][e]
    BY <2>5 DEF Shape
  <2> QED
    BY <1>24, <2>3, <2>6, <2>7 DEF Answer, OutcomeKnown
<1>25. CASE NoAnswer(w)
  BY <1>25, <1>a DEF NoAnswer, OutcomeKnown
<1>26. CASE Conclude(w)
  BY <1>26, <1>a DEF Conclude
<1>27. CASE Die(w)
  BY <1>27, <1>a DEF Die, End
<1> QED
  BY <1>1, <1>2, <1>3, <1>4, <1>5, <1>6, <1>7, <1>8, <1>9, <1>10, <1>11, <1>12, <1>13,
     <1>14, <1>15, <1>16, <1>17, <1>18, <1>19, <1>20, <1>21, <1>22, <1>23, <1>24, <1>25,
     <1>26, <1>27 DEF WorkerStep, Decide

\* When no operation of a strategy is unresolved its records are complete.
LEMMA DoneIsRecorded ==
  ASSUME Shape, OrdersAreKept, NEW s \in Strategies, OpsDone(s)
  PROVE  /\ Recorded(s) = Sold(s)
         /\ \A d \in Days : row[s][d].status \in Final
         /\ \A d \in Days : row[s][d].status \notin ACTIVE_ORDER_STATUSES
<1>1. ASSUME NEW d \in Days
      PROVE  /\ row[s][d].status \in Final /\ row[s][d].status \notin ACTIVE_ORDER_STATUSES
             /\ row[s][d].filled = book[s][d].fill
  <2>1. op[s][d] \in {"none", "completed"}
    BY DEF OpsDone, Resolved
  <2>2. row[s][d].status \in {"absent", "filled"}
    BY <2>1 DEF OrdersAreKept, OrderKept
  <2> QED
    BY <2>2 DEF OrdersAreKept, OrderKept, Final, TERMINAL_ORDER_STATUSES,
       ACTIVE_ORDER_STATUSES
<1>2. [d \in Days |-> row[s][d].filled] = [d \in Days |-> book[s][d].fill]
  BY <1>1
<1> QED
  BY <1>1, <1>2 DEF Recorded, Sold

LEMMA CoveredWorker ==
  ASSUME IInv, Quantities, OrdersAreKept, RunsAreKept, WeighedIsThere, OrdersAreCovered,
         NEW w \in Workers, WorkerStep(w)
  PROVE  OrdersAreCovered'
<1>0. Shape /\ Aside(w) /\ UNCHANGED <<bought, exited>>
  BY WorkerKeepsAside DEF IInv, Aside
<1>1. \A s \in Strategies : Sold(s)' = Sold(s)
  BY <1>0, FillsStay DEF Aside
<1> SUFFICES ASSUME NEW s \in Strategies, s \notin disturbed', NEW d \in Days,
                    row'[s][d].status \in ACTIVE_ORDER_STATUSES
             PROVE  /\ exited[s] + Sold(s) + size'[s][d] - book[s][d].fill <= bought[s]
                    /\ \A e \in Days \ {d} : row'[s][e].status \notin ACTIVE_ORDER_STATUSES
  BY <1>0, <1>1 DEF OrdersAreCovered, Covered, Aside
<1>2. s \notin disturbed
  BY <1>0 DEF Aside
<1>3. CASE OpensNothing
  BY <1>2, <1>3 DEF OpensNothing, OrdersAreCovered, Covered
<1>4. ASSUME NEW x \in Strategies, ClaimWithOrderIntent(w, x)
      PROVE  /\ exited[s] + Sold(s) + size'[s][d] - book[s][d].fill <= bought[s]
             /\ \A e \in Days \ {d} : row'[s][e].status \notin ACTIVE_ORDER_STATUSES
  <2>1. CASE x # s
    <3>1. row'[s] = row[s] /\ size'[s] = size[s]
      BY <1>0, <1>4, <2>1 DEF ClaimWithOrderIntent, Shape, Quantities
    <3> QED
      BY <1>2, <3>1 DEF OrdersAreCovered, Covered
  <2>2. CASE x = s
    <3>1. OpsDone(s) /\ amount[w][s] <= NetQuantity(s)
      BY <1>2, <1>4, <2>2 DEF ClaimWithOrderIntent, WeighedIsThere, WeighedRight, Sending
    <3>2. /\ Recorded(s) = Sold(s)
          /\ \A e \in Days : row[s][e].status \notin ACTIVE_ORDER_STATUSES
      BY <1>0, <3>1, DoneIsRecorded
    <3>3. session[w] \in Days
          /\ \A e \in Days : e # session[w] => row'[s][e] = row[s][e]
      BY <1>0, <1>4, <2>2 DEF ClaimWithOrderIntent, Shape
    <3>4. d = session[w] /\ \A e \in Days \ {d} : row'[s][e].status \notin ACTIVE_ORDER_STATUSES
      BY <3>2, <3>3
    <3>5. size'[s][d] = amount[w][s] /\ op[s][d] = "none"
      BY <1>0, <1>4, <2>2, <3>4 DEF ClaimWithOrderIntent, Quantities
    <3>6. NetQuantity(s) = bought[s] - exited[s] - Recorded(s)
          /\ bought[s] \in 0..Most /\ exited[s] \in Nat /\ Sold(s) \in Nat
          /\ amount[w][s] \in Int /\ book[s][d].fill \in Nat
      BY <1>0, NetType, SoldType DEF Quantities, Shape, BrokerOrder
    <3>7. exited[s] + Sold(s) + amount[w][s] - book[s][d].fill <= bought[s]
      BY <3>1, <3>2, <3>6, DaysAndShares
    <3> QED
      BY <3>4, <3>5, <3>7
  <2> QED
    BY <2>1, <2>2
<1> QED
  BY <1>0, <1>3, <1>4, OnlyClaimsOpen
-----------------------------------------------------------------------------
(* Everybody else. *)

\* The account has what its strategies have; it changes by what one of them does.
LEMMA HeldChange ==
  ASSUME Shape, Quantities, Shape',
         bought' \in [Strategies -> 0..Most], exited' \in [Strategies -> Nat],
         NEW s \in Strategies,
         \A x \in Strategies \ {s} :
           bought'[x] = bought[x] /\ exited'[x] = exited[x] /\ Sold(x)' = Sold(x)
  PROVE  Held' = Held - (bought[s] - exited[s] - Sold(s))
                      + (bought'[s] - exited'[s] - Sold(s)')
<1>1. PICK f : f = [x \in Strategies |-> bought[x] - exited[x] - Sold(x)]
  OBVIOUS
<1>2. PICK g : g = [x \in Strategies |-> bought'[x] - exited'[x] - Sold(x)']
  OBVIOUS
<1>3. \A x \in Strategies :
        /\ Sold(x) \in Nat /\ bought[x] \in Int /\ exited[x] \in Int
        /\ Sold(x)' \in Nat /\ bought'[x] \in Int /\ exited'[x] \in Int
  <2>1. ASSUME NEW x \in Strategies PROVE Sold(x)' \in Nat
    <3>1. [d \in Days |-> book'[x][d].fill] \in [Days -> Nat]
      BY DEF Shape, BrokerOrder
    <3>2. Total([d \in Days |-> book'[x][d].fill]) \in Nat
      BY <3>1, DaySums
    <3> QED
      BY <3>2 DEF Sold
  <2> QED
    BY <2>1, SoldType DEF Quantities
<1>4. f \in [Strategies -> Int] /\ g \in [Strategies -> Int]
  BY <1>1, <1>2, <1>3
<1>5. \A x \in Strategies \ {s} : f[x] = g[x]
  BY <1>1, <1>2
<1>6. Total(g) = Total(f) - f[s] + g[s]
  BY <1>4, <1>5, StrategiesAreFinite, TotalChange
<1>7. Total(f) \in Int
  BY <1>4, StrategiesAreFinite, TotalType
<1>8. Held = ByHand + Total(f) /\ Held' = ByHand + Total(g)
  BY <1>1, <1>2 DEF Held, Sold
<1>9. f[s] = bought[s] - exited[s] - Sold(s) /\ g[s] = bought'[s] - exited'[s] - Sold(s)'
  BY <1>1, <1>2
<1> QED
  BY <1>3, <1>6, <1>7, <1>8, <1>9, DaysAndShares

\* One more share of one order is filled.
LEMMA SoldOneMore ==
  ASSUME Shape, Shape', NEW s \in Strategies, NEW d \in Days,
         book'[s][d].fill = book[s][d].fill + 1,
         \A e \in Days \ {d} : book'[s][e].fill = book[s][e].fill
  PROVE  Sold(s)' = Sold(s) + 1
<1>1. PICK f : f = [e \in Days |-> book[s][e].fill]
  OBVIOUS
<1>2. PICK g : g = [e \in Days |-> book'[s][e].fill]
  OBVIOUS
<1>3. f \in [Days -> Int] /\ g \in [Days -> Int]
  BY <1>1, <1>2 DEF Shape, BrokerOrder
<1>4. \A e \in Days \ {d} : f[e] = g[e]
  BY <1>1, <1>2
<1>5. Total(g) = Total(f) - f[d] + g[d]
  BY <1>3, <1>4, DaysAreFinite, TotalChange
<1>6. f[d] \in Int /\ g[d] = f[d] + 1 /\ Total(f) \in Int
  BY <1>1, <1>2, <1>3, DaysAreFinite, TotalType
<1>7. Sold(s) = Total(f) /\ Sold(s)' = Total(g)
  BY <1>1, <1>2 DEF Sold
<1> QED
  BY <1>5, <1>6, <1>7

\* The broker takes, fills and ends an order of a strategy and session as it should.
BrokerMoves(s, d, b) ==
  /\ Book(s, d, b)
  /\ b \in BrokerOrder
  /\ OrderKept(row[s][d], b, size[s][d], op[s][d])
  /\ \/ b.fill = book[s][d].fill
     \/ /\ b.fill = book[s][d].fill + 1 /\ Held > 0
        /\ row[s][d].status \in ACTIVE_ORDER_STATUSES

LEMMA BrokerKeepsTheOrder ==
  ASSUME Shape, OrdersAreKept, Quantities, NEW s \in Strategies, NEW d \in Days,
         BrokerTakes(s, d) \/ BrokerFills(s, d) \/ BrokerEnds(s, d)
  PROVE  \E b \in BrokerOrder : BrokerMoves(s, d, b)
<1>1. PICK b \in BrokerOrder : b = book[s][d]
  BY DEF Shape
<1>2. PICK r \in OrderRow : r = row[s][d]
  BY DEF Shape
<1>3. PICK z \in 0..Most : z = size[s][d]
  BY DEF Quantities
<1>4. PICK o : o = op[s][d]
  OBVIOUS
<1>5. OrderKept(r, b, z, o)
  BY <1>1, <1>2, <1>3, <1>4 DEF OrdersAreKept
<1>6. CASE BrokerTakes(s, d)
  <2>1. PICK x \in {"working", "rejected", "absent"} : Book(s, d, [b EXCEPT !.state = x])
    BY <1>1, <1>6 DEF BrokerTakes
  <2>2. PICK c : c = [b EXCEPT !.state = x]
    OBVIOUS
  <2>3. c \in BrokerOrder /\ c.state = x /\ c.fill = b.fill /\ c.sent = b.sent
    BY <2>2 DEF BrokerOrder
  <2>4. b.state = "flying"
    BY <1>1, <1>6 DEF BrokerTakes
  <2>5. OrderKept(r, c, z, o)
    BY <1>5, <2>3, <2>4 DEF OrderKept, Live
  <2> QED
    BY <1>1, <1>2, <1>3, <1>4, <2>1, <2>2, <2>3, <2>5 DEF BrokerMoves
<1>7. CASE BrokerEnds(s, d)
  <2>1. PICK x \in {"cancelled", "rejected"} :
          /\ x = "rejected" => b.fill = 0
          /\ Book(s, d, [b EXCEPT !.state = x])
    BY <1>1, <1>7 DEF BrokerEnds
  <2>2. PICK c : c = [b EXCEPT !.state = x]
    OBVIOUS
  <2>3. c \in BrokerOrder /\ c.state = x /\ c.fill = b.fill /\ c.sent = b.sent
    BY <2>2 DEF BrokerOrder
  <2>4. b.state = "working"
    BY <1>1, <1>7 DEF BrokerEnds
  <2>5. OrderKept(r, c, z, o)
    BY <1>5, <2>3, <2>4 DEF OrderKept, Live
  <2> QED
    BY <1>1, <1>2, <1>3, <1>4, <2>1, <2>2, <2>3, <2>5 DEF BrokerMoves
<1>8. CASE BrokerFills(s, d)
  <2>1. PICK x : x = IF b.fill + 1 = z THEN "filled" ELSE "working"
    OBVIOUS
  <2>2. PICK n \in Nat : n = b.fill + 1
    BY DEF BrokerOrder
  <2>3. PICK c : c = [b EXCEPT !.fill = n, !.state = x]
    OBVIOUS
  <2>4. x \in {"filled", "working"}
    BY <2>1
  <2>5. c \in BrokerOrder /\ c.state = x /\ c.fill = n /\ c.sent = b.sent
    BY <2>3, <2>4 DEF BrokerOrder
  <2>6. b.state = "working" /\ Held > 0 /\ Book(s, d, c)
    BY <1>1, <1>3, <1>8, <2>1, <2>2, <2>3 DEF BrokerFills
  <2>7. b.fill < z /\ r.status \in ACTIVE_ORDER_STATUSES
    BY <1>5, <2>6 DEF OrderKept, Live
  <2>8. b.fill \in Nat /\ z \in Nat
    BY DaysAndShares DEF BrokerOrder
  <2>9. c.fill <= z /\ (x = "working" => c.fill < z)
    BY <2>1, <2>2, <2>5, <2>7, <2>8
  <2>10. b.sent # 0
    BY <1>5, <2>6 DEF OrderKept
  <2>11. r.status \notin Final
    BY <2>7 DEF Final, TERMINAL_ORDER_STATUSES, ACTIVE_ORDER_STATUSES
  <2>12. OrderKept(r, c, z, o)
    BY <1>5, <2>4, <2>5, <2>7, <2>9, <2>10, <2>11 DEF OrderKept, Live
  <2> QED
    BY <1>1, <1>2, <1>3, <1>4, <2>2, <2>5, <2>6, <2>7, <2>12 DEF BrokerMoves
<1> QED
  BY <1>6, <1>7, <1>8

\* The reconciler and the cancellations move the row of an open order, and never the row
\* of one that is about to be sent.
RowMoves(s, d, r) ==
  /\ row' = [row EXCEPT ![s][d] = r]
  /\ UNCHANGED <<worldVars, op, size, book, workerVars, disturbed>>
  /\ r \in OrderRow
  /\ row[s][d].status \in ACTIVE_ORDER_STATUSES
  /\ row[s][d].status = "submission_unknown" => book[s][d].sent > 0
  /\ OrderKept(r, book[s][d], size[s][d], op[s][d])

LEMMA RowsMoveRightly ==
  ASSUME IInv, OrdersAreKept, Quantities, NEW s \in Strategies, NEW d \in Days,
         Reconcile(s, d) \/ CancelIntent(s, d)
  PROVE  \E r \in OrderRow : RowMoves(s, d, r)
<1>0. Shape
  BY DEF IInv
<1>1. PICK b \in BrokerOrder : b = book[s][d]
  BY <1>0 DEF Shape
<1>2. PICK r \in OrderRow : r = row[s][d]
  BY <1>0 DEF Shape
<1>3. PICK z \in 0..Most : z = size[s][d]
  BY DEF Quantities
<1>4. PICK o : o = op[s][d]
  OBVIOUS
<1>5. OrderKept(r, b, z, o)
  BY <1>1, <1>2, <1>3, <1>4 DEF OrdersAreKept
<1>6. CASE Reconcile(s, d)
  <2>1. PICK n : n = Reconciled(r, b)
    OBVIOUS
  <2>2. b.state \notin {"absent", "flying"} /\ r.status \in ACTIVE_ORDER_STATUSES
        /\ row' = [row EXCEPT ![s][d] = n]
    BY <1>0, <1>1, <1>2, <1>6, <2>1 DEF Reconcile, Shape
  <2>3. b.sent > 0
    BY <1>5, <2>2 DEF OrderKept, BrokerOrder
  <2>4. n \in OrderRow /\ OrderKept(n, b, z, o)
    <3>1. CASE b.state \in TERMINAL_ORDER_STATUSES
      <4>1. PICK x : x = b.state
        OBVIOUS
      <4>2. PICK y \in Nat : y = b.fill
        BY DEF BrokerOrder
      <4>3. n = [status |-> x, filled |-> y]
        BY <2>1, <3>1, <4>1, <4>2 DEF Reconciled
      <4>4. n \in OrderRow /\ n.status = x /\ n.filled = y
        BY <3>1, <4>1, <4>3 DEF OrderRow, KNOWN_ORDER_STATUSES
      <4>5. x \in TERMINAL_ORDER_STATUSES /\ x \notin ACTIVE_ORDER_STATUSES /\ x \notin Live
        BY <3>1, <4>1 DEF TERMINAL_ORDER_STATUSES, ACTIVE_ORDER_STATUSES, Live
      <4>6. o # "none" /\ o # "completed"
        BY <1>5, <2>2 DEF OrderKept, ACTIVE_ORDER_STATUSES
      <4> QED
        BY <1>5, <2>3, <4>1, <4>2, <4>4, <4>5, <4>6 DEF OrderKept
    <3>2. CASE b.state \notin TERMINAL_ORDER_STATUSES
      <4>1. n = [r EXCEPT !.status = "accepted"]
        BY <2>1, <3>2 DEF Reconciled
      <4>2. n \in OrderRow /\ n.status = "accepted" /\ n.filled = r.filled
        BY <4>1 DEF OrderRow, KNOWN_ORDER_STATUSES, ACTIVE_ORDER_STATUSES
      <4>3. o # "none" /\ o # "completed"
        BY <1>5, <2>2 DEF OrderKept, ACTIVE_ORDER_STATUSES
      <4> QED
        BY <1>5, <2>2, <2>3, <4>2, <4>3 DEF OrderKept, Final, TERMINAL_ORDER_STATUSES,
           ACTIVE_ORDER_STATUSES
    <3> QED
      BY <3>1, <3>2
  <2>5. UNCHANGED <<worldVars, op, size, book, workerVars, disturbed>>
    BY <1>6 DEF Reconcile
  <2> QED
    BY <1>1, <1>2, <1>3, <1>4, <2>2, <2>3, <2>4, <2>5 DEF RowMoves
<1>7. CASE CancelIntent(s, d)
  <2>1. PICK n : n = [r EXCEPT !.status = "cancelled"]
    OBVIOUS
  <2>2. r.status = "pending_intent" /\ row' = [row EXCEPT ![s][d] = n]
    BY <1>2, <1>7, <2>1 DEF CancelIntent
  <2>3. n \in OrderRow /\ n.status = "cancelled" /\ n.filled = r.filled
    BY <2>1 DEF OrderRow, KNOWN_ORDER_STATUSES, TERMINAL_ORDER_STATUSES
  <2>4. b.sent = 0
    <3>1. ~(b.sent > 0)
      BY <1>1, <1>2, <2>2 DEF IInv, OneSellPerSession
    <3> QED
      BY <3>1 DEF BrokerOrder
  <2>5. OrderKept(n, b, z, o)
    BY <1>5, <2>2, <2>3, <2>4 DEF OrderKept, Live, Final, TERMINAL_ORDER_STATUSES,
       ACTIVE_ORDER_STATUSES
  <2>6. UNCHANGED <<worldVars, op, size, book, workerVars, disturbed>>
    BY <1>7 DEF CancelIntent
  <2>7. r.status \in ACTIVE_ORDER_STATUSES /\ r.status # "submission_unknown"
    BY <2>2 DEF ACTIVE_ORDER_STATUSES
  <2> QED
    BY <1>1, <1>2, <1>3, <1>4, <2>2, <2>3, <2>5, <2>6, <2>7 DEF RowMoves
<1> QED
  BY <1>6, <1>7
LEMMA FiguresBroker ==
  ASSUME IInv, FiguresInv, Shape', NEW s \in Strategies, NEW d \in Days, NEW b,
         BrokerMoves(s, d, b)
  PROVE  FiguresInv'
<1>0. Shape /\ Quantities
  BY DEF IInv, FiguresInv
<1>1. /\ UNCHANGED <<killed, bought, exiting, exited, op, row, size, disturbed>>
      /\ UNCHANGED workerVars
  BY DEF BrokerMoves, Book, worldVars, tradeVars
<1>2. /\ book'[s][d] = b
      /\ \A x \in Strategies, e \in Days : x # s \/ e # d => book'[x][e] = book[x][e]
  BY <1>0 DEF BrokerMoves, Book, Shape
<1>3. \A x \in Strategies \ {s} : Sold(x)' = Sold(x)
  <2>1. ASSUME NEW x \in Strategies \ {s} PROVE Sold(x)' = Sold(x)
    <3>1. [e \in Days |-> book'[x][e].fill] = [e \in Days |-> book[x][e].fill]
      BY <1>2
    <3>2. Total([e \in Days |-> book'[x][e].fill]) = Total([e \in Days |-> book[x][e].fill])
      BY <3>1
    <3> QED
      BY <3>2 DEF Sold
  <2> QED
    BY <2>1
<1>4. \/ b.fill = book[s][d].fill /\ Sold(s)' = Sold(s) /\ Held' = Held
      \/ /\ b.fill = book[s][d].fill + 1 /\ Sold(s)' = Sold(s) + 1
         /\ Held > 0 /\ Held' = Held - 1
         /\ row[s][d].status \in ACTIVE_ORDER_STATUSES
  <2>1. CASE b.fill = book[s][d].fill
    <3>1. \A x \in Strategies, e \in Days : book'[x][e].fill = book[x][e].fill
      BY <1>2, <2>1
    <3> QED
      BY <1>1, <2>1, <3>1, FillsStay
  <2>2. CASE /\ b.fill = book[s][d].fill + 1 /\ Held > 0
             /\ row[s][d].status \in ACTIVE_ORDER_STATUSES
    <3>1. Sold(s)' = Sold(s) + 1
      BY <1>0, <1>2, <2>2, SoldOneMore
    <3>2. Held' = Held - (bought[s] - exited[s] - Sold(s))
                       + (bought'[s] - exited'[s] - Sold(s)')
      <4>1. bought' \in [Strategies -> 0..Most] /\ exited' \in [Strategies -> Nat]
        BY <1>0, <1>1 DEF Quantities
      <4> QED
        BY <1>0, <1>1, <1>3, <4>1, HeldChange
    <3>3. bought[s] \in Int /\ exited[s] \in Int /\ Sold(s) \in Int /\ Held \in Int
      BY <1>0, SoldType DEF Quantities
    <3> QED
      BY <1>1, <2>2, <3>1, <3>2, <3>3
  <2> QED
    BY <2>1, <2>2 DEF BrokerMoves
<1>5. Quantities'
  <2>1. Held' \in Nat
    BY <1>0, <1>4 DEF Quantities
  <2> QED
    BY <1>0, <1>1, <2>1 DEF Quantities, workerVars
<1>6. OrdersAreKept'
  BY <1>1, <1>2 DEF FiguresInv, OrdersAreKept, BrokerMoves
<1>7. RunsAreKept' /\ OverlapDisturbs'
  BY <1>1 DEF FiguresInv, RunsAreKept, RunKept, MemoryKept, StepKept, OverlapDisturbs,
     workerVars
<1>8. WeighedIsThere'
  BY <1>1 DEF FiguresInv, WeighedIsThere, WeighedRight, NetQuantity, OpsDone, workerVars
<1>9. OrdersAreCovered'
  <2> SUFFICES ASSUME NEW x \in Strategies \ disturbed, NEW e \in Days,
                      row[x][e].status \in ACTIVE_ORDER_STATUSES
               PROVE  exited[x] + Sold(x)' + size[x][e] - book'[x][e].fill <= bought[x]
    BY <1>1 DEF FiguresInv, OrdersAreCovered, Covered
  <2>1. /\ exited[x] + Sold(x) + size[x][e] - book[x][e].fill <= bought[x]
        /\ \A u \in Days \ {e} : row[x][u].status \notin ACTIVE_ORDER_STATUSES
    BY DEF FiguresInv, OrdersAreCovered, Covered
  <2>2. CASE x # s
    BY <1>2, <1>3, <2>1, <2>2
  <2>3. CASE x = s /\ Sold(s)' = Sold(s) /\ b.fill = book[s][d].fill
    BY <1>2, <2>1, <2>3
  <2>4. CASE /\ x = s /\ b.fill = book[s][d].fill + 1 /\ Sold(s)' = Sold(s) + 1
             /\ row[s][d].status \in ACTIVE_ORDER_STATUSES
    <3>1. e = d
      BY <2>1, <2>4
    <3>2. /\ exited[s] \in Int /\ Sold(s) \in Int /\ size[s][d] \in Int
          /\ book[s][d].fill \in Int /\ bought[s] \in Int
      BY <1>0, SoldType, DaysAndShares DEF Quantities, Shape, BrokerOrder
    <3> QED
      BY <1>2, <2>1, <2>4, <3>1, <3>2
  <2> QED
    BY <1>4, <2>2, <2>3, <2>4
<1> QED
  BY <1>5, <1>6, <1>7, <1>8, <1>9 DEF FiguresInv

LEMMA FiguresRows ==
  ASSUME IInv, FiguresInv, Shape', NEW s \in Strategies, NEW d \in Days, NEW r,
         RowMoves(s, d, r)
  PROVE  FiguresInv'
<1>0. Shape /\ Quantities
  BY DEF IInv, FiguresInv
<1>1. /\ UNCHANGED <<killed, bought, exiting, exited, op, book, size, disturbed>>
      /\ UNCHANGED workerVars
  BY DEF RowMoves, worldVars, tradeVars
<1>2. /\ row'[s][d] = r
      /\ \A x \in Strategies, e \in Days : x # s \/ e # d => row'[x][e] = row[x][e]
  BY <1>0 DEF RowMoves, Shape
<1>3. Held' = Held /\ \A x \in Strategies : Sold(x)' = Sold(x)
  BY <1>1, FillsStay
<1>4. Quantities'
  BY <1>0, <1>1, <1>3 DEF Quantities, workerVars
<1>5. OrdersAreKept'
  BY <1>1, <1>2 DEF FiguresInv, OrdersAreKept, RowMoves
<1>6. RunsAreKept' /\ OverlapDisturbs'
  <2>1. ASSUME NEW w \in Workers PROVE RunKept(w)'
    <3>1. RunKept(w)
      BY DEF FiguresInv, RunsAreKept
    <3>2. MemoryKept(w)'
      BY <1>1, <3>1 DEF RunKept, MemoryKept, workerVars
    <3>3. pc[w] \in Sending => cur[w] \in Strategies /\ target[w] \in Days
      BY <1>0 DEF Shape, AtHand
    <3>4. pc[w] = "dispatched" => cur[w] # s \/ target[w] # d
      BY <3>1 DEF RunKept, StepKept, IInv, ClaimsAreExclusive, RowMoves
    <3>5. pc[w] = "conclude" /\ verdict[w] = "completed" => cur[w] # s \/ target[w] # d
      BY <3>1 DEF RunKept, StepKept, RowMoves, ACTIVE_ORDER_STATUSES
    <3>6. StepKept(w)'
      BY <1>1, <1>2, <3>1, <3>3, <3>4, <3>5 DEF RunKept, StepKept, Sending, workerVars
    <3> QED
      BY <3>2, <3>6 DEF RunKept
  <2> QED
    BY <1>1, <2>1 DEF FiguresInv, RunsAreKept, OverlapDisturbs, workerVars
<1>7. \A x \in Strategies : OpsDone(x) => NetQuantity(x)' = NetQuantity(x)
  <2>1. ASSUME NEW x \in Strategies, OpsDone(x) PROVE NetQuantity(x)' = NetQuantity(x)
    <3>1. x # s
      BY <1>0, <2>1, DoneIsRecorded DEF FiguresInv, RowMoves
    <3>2. row'[x] = row[x]
      BY <1>0, <3>1 DEF RowMoves, Shape
    <3> QED
      BY <1>1, <3>2, NetStays
  <2> QED
    BY <2>1
<1>8. WeighedIsThere'
  <2>1. ASSUME NEW w \in Workers PROVE WeighedRight(w)'
    <3>1. WeighedRight(w)
      BY DEF FiguresInv, WeighedIsThere
    <3>2. /\ pc[w] \in {"decide", "mark"} => cur[w] \in Strategies
          /\ candidates[w] \subseteq Strategies
      BY <1>0 DEF Shape, AtHand
    <3>3. \A x \in Strategies : OpsDone(x)' <=> OpsDone(x)
      BY <1>1 DEF OpsDone
    <3> QED
      BY <1>1, <1>7, <3>1, <3>2, <3>3 DEF WeighedRight, workerVars
  <2> QED
    BY <2>1 DEF WeighedIsThere
<1>9. OrdersAreCovered'
  <2> SUFFICES ASSUME NEW x \in Strategies \ disturbed, NEW e \in Days,
                      row'[x][e].status \in ACTIVE_ORDER_STATUSES
               PROVE  /\ exited[x] + Sold(x) + size[x][e] - book[x][e].fill <= bought[x]
                      /\ \A u \in Days \ {e} : row'[x][u].status \notin ACTIVE_ORDER_STATUSES
    BY <1>1, <1>3 DEF OrdersAreCovered, Covered
  <2>1. row[x][e].status \in ACTIVE_ORDER_STATUSES
    BY <1>2 DEF RowMoves
  <2>2. /\ exited[x] + Sold(x) + size[x][e] - book[x][e].fill <= bought[x]
        /\ \A u \in Days \ {e} : row[x][u].status \notin ACTIVE_ORDER_STATUSES
    BY <2>1 DEF FiguresInv, OrdersAreCovered, Covered
  <2>3. x = s => e = d
    BY <2>2 DEF RowMoves
  <2> QED
    BY <1>2, <2>2, <2>3
<1> QED
  BY <1>4, <1>5, <1>6, <1>8, <1>9 DEF FiguresInv

\* A trade of one strategy: the flatten's own records stay, and either nobody relied on its
\* figures, or it is noted, or it is a buy.
Trade(s) ==
  /\ UNCHANGED <<killed, op, row, size, book>> /\ UNCHANGED workerVars
  /\ bought' \in [Strategies -> 0..Most] /\ exited' \in [Strategies -> Nat]
  /\ exiting' \in [Strategies -> Nat]
  /\ disturbed \subseteq disturbed' /\ disturbed' \subseteq Strategies
  /\ \A x \in Strategies \ {s} : bought'[x] = bought[x] /\ exited'[x] = exited[x]
  /\ \/ exited'[s] = exited[s] /\ bought'[s] >= bought[s]
     \/ /\ exiting[s] <= Held /\ exited'[s] = exited[s] + exiting[s]
        /\ bought'[s] = bought[s]
        /\ ReliedOn(s) => s \in disturbed'

LEMMA TradesAreTrades ==
  ASSUME Shape, Quantities, NEW s \in Strategies, Buy(s) \/ StartExit(s) \/ EndExit(s)
  PROVE  Trade(s)
<1>1. /\ bought \in [Strategies -> 0..Most] /\ exited \in [Strategies -> Nat]
      /\ exiting \in [Strategies -> Nat] /\ disturbed \in SUBSET Strategies /\ Held \in Nat
      /\ Most \in Nat
  BY DaysAndShares DEF Quantities
<1>2. CASE Buy(s)
  <2>1. bought' = [bought EXCEPT ![s] = bought[s] + 1] /\ bought[s] + 1 \in 0..Most
    BY <1>1, <1>2 DEF Buy
  <2> QED
    BY <1>1, <1>2, <2>1 DEF Buy, Trade, orderVars
<1>3. CASE StartExit(s)
  <2>1. PICK q \in 1..Held : exiting' = [exiting EXCEPT ![s] = q]
    BY <1>3 DEF StartExit
  <2>2. exiting' \in [Strategies -> Nat]
    BY <1>1, <2>1
  <2> QED
    BY <1>1, <1>3, <2>2 DEF StartExit, Trades, Trade, orderVars
<1>4. CASE EndExit(s)
  <2>1. exiting' \in [Strategies -> Nat]
    BY <1>1, <1>4 DEF EndExit
  <2>2. CASE UNCHANGED exited
    BY <1>1, <1>4, <2>1, <2>2 DEF EndExit, Trades, Trade, orderVars
  <2>3. CASE exiting[s] <= Held /\ exited' = [exited EXCEPT ![s] = exited[s] + exiting[s]]
    <3>1. exited' \in [Strategies -> Nat] /\ exited'[s] = exited[s] + exiting[s]
          /\ \A x \in Strategies \ {s} : exited'[x] = exited[x]
      BY <1>1, <2>3
    <3> QED
      BY <1>1, <1>4, <2>1, <2>3, <3>1 DEF EndExit, Trades, Trade, orderVars
  <2> QED
    BY <1>4, <2>2, <2>3 DEF EndExit
<1> QED
  BY <1>2, <1>3, <1>4

LEMMA FiguresTrade ==
  ASSUME IInv, FiguresInv, Shape', NEW s \in Strategies, Trade(s)
  PROVE  FiguresInv'
<1>0. Shape /\ Quantities
  BY DEF IInv, FiguresInv
<1>1. \A x \in Strategies : Sold(x)' = Sold(x)
  BY DEF Trade, Sold
<1>2. \A x \in Strategies :
        /\ bought[x] \in Int /\ exited[x] \in Int /\ bought'[x] \in Int /\ exited'[x] \in Int
        /\ Sold(x) \in Int
  BY <1>0, SoldType DEF Trade, Quantities
<1>3. Held' \in Nat
  <2>1. Held' = Held - (bought[s] - exited[s] - Sold(s))
                     + (bought'[s] - exited'[s] - Sold(s)')
    BY <1>0, <1>1, HeldChange DEF Trade
  <2>2. exiting[s] \in Nat /\ Held \in Nat
    BY <1>0 DEF Quantities
  <2>3. Held' = Held + (bought'[s] - bought[s]) - (exited'[s] - exited[s])
    BY <1>1, <1>2, <2>1, <2>2
  <2>4. CASE exited'[s] = exited[s] /\ bought'[s] >= bought[s]
    BY <1>2, <2>2, <2>3, <2>4
  <2>5. CASE /\ exiting[s] <= Held /\ exited'[s] = exited[s] + exiting[s]
             /\ bought'[s] = bought[s]
    BY <1>2, <2>2, <2>3, <2>5
  <2> QED
    BY <2>4, <2>5 DEF Trade
<1>4. Quantities'
  BY <1>0, <1>3 DEF Quantities, Trade, workerVars
<1>5. OrdersAreKept' /\ RunsAreKept'
  BY DEF FiguresInv, Trade, OrdersAreKept, RunsAreKept, RunKept, MemoryKept, StepKept,
     workerVars
<1>6. OverlapDisturbs'
  BY DEF FiguresInv, Trade, OverlapDisturbs, workerVars
<1>7. ASSUME NEW x \in Strategies, x \notin disturbed', x # s \/ ReliedOn(s)
      PROVE  exited'[x] = exited[x] /\ bought'[x] >= bought[x]
  BY <1>2, <1>7 DEF Trade
<1>8. ASSUME NEW x \in Strategies, x \notin disturbed', x # s \/ ReliedOn(s)
      PROVE  NetQuantity(x)' >= NetQuantity(x) /\ NetQuantity(x) \in Int /\ NetQuantity(x)' \in Int
  <2>1. /\ NetQuantity(x) = bought[x] - exited[x] - Recorded(x)
        /\ NetQuantity(x)' = bought'[x] - exited'[x] - Recorded(x)
    BY DEF NetQuantity, Recorded, Trade
  <2>2. Recorded(x) \in Int
    BY <1>0, SoldType
  <2> QED
    BY <1>2, <1>7, <1>8, <2>1, <2>2
<1>9. WeighedIsThere'
  <2>1. ASSUME NEW w \in Workers PROVE WeighedRight(w)'
    <3>0. /\ pc'[w] = pc[w] /\ cur'[w] = cur[w] /\ candidates'[w] = candidates[w]
          /\ amount'[w] = amount[w] /\ verdict'[w] = verdict[w] /\ session'[w] = session[w]
          /\ target'[w] = target[w] /\ op' = op /\ disturbed \subseteq disturbed'
      BY DEF Trade, workerVars
    <3>1. WeighedRight(w) /\ MemoryKept(w) /\ StepKept(w)
      BY DEF FiguresInv, WeighedIsThere, RunsAreKept, RunKept
    <3>2. /\ pc[w] \in {"decide", "mark"} => cur[w] \in Strategies
          /\ candidates[w] \subseteq Strategies
          /\ \A x \in Strategies : amount[w][x] \in Int
      BY <1>0 DEF Shape, AtHand, Quantities
    <3>3. amount[w][s] # 0 => ReliedOn(s)
      BY DEF ReliedOn
    <3>4. \A x \in Strategies : OpsDone(x)' <=> OpsDone(x)
      BY <3>0 DEF OpsDone
    <3>5. ASSUME NEW x \in Strategies, x = cur[w], pc[w] \in {"decide", "mark"},
                 x \notin disturbed', OpsDone(x)
          PROVE  amount[w][x] <= NetQuantity(x)'
      <4>1. amount[w][x] <= NetQuantity(x) /\ amount[w][x] # 0
        BY <3>0, <3>1, <3>5 DEF WeighedRight, StepKept
      <4>2. x # s \/ ReliedOn(s)
        BY <3>3, <4>1
      <4> QED
        BY <1>8, <3>2, <3>5, <4>1, <4>2
    <3>6. ASSUME NEW x \in candidates[w] \ disturbed', pc[w] \in Sending => cur[w] # x
          PROVE  OpsDone(x)' /\ amount[w][x] <= NetQuantity(x)'
      <4>1. /\ x \in Strategies /\ x \notin disturbed'
            /\ OpsDone(x) /\ amount[w][x] <= NetQuantity(x) /\ amount[w][x] > 0
        BY <3>0, <3>1, <3>2, <3>6 DEF WeighedRight, MemoryKept
      <4>2. x # s \/ ReliedOn(s)
        BY <3>2, <3>3, <4>1
      <4> QED
        BY <1>8, <3>2, <3>4, <4>1, <4>2
    <3> QED
      BY <3>0, <3>1, <3>2, <3>4, <3>5, <3>6 DEF WeighedRight
  <2> QED
    BY <2>1 DEF WeighedIsThere
<1>10. OrdersAreCovered'
  <2> SUFFICES ASSUME NEW x \in Strategies, x \notin disturbed', NEW d \in Days,
                      row[x][d].status \in ACTIVE_ORDER_STATUSES
               PROVE  /\ exited'[x] + Sold(x) + size[x][d] - book[x][d].fill <= bought'[x]
                      /\ \A e \in Days \ {d} : row[x][e].status \notin ACTIVE_ORDER_STATUSES
    BY <1>1 DEF Trade, OrdersAreCovered, Covered
  <2>1. x # s \/ ReliedOn(s)
    BY DEF ReliedOn, OrderOpen
  <2>2. /\ exited[x] + Sold(x) + size[x][d] - book[x][d].fill <= bought[x]
        /\ \A e \in Days \ {d} : row[x][e].status \notin ACTIVE_ORDER_STATUSES
    BY DEF FiguresInv, OrdersAreCovered, Covered, Trade
  <2>3. size[x][d] \in Int /\ book[x][d].fill \in Int
    BY <1>0, DaysAndShares DEF Quantities, Shape, BrokerOrder
  <2> QED
    BY <1>2, <1>7, <2>1, <2>2, <2>3
<1> QED
  BY <1>4, <1>5, <1>6, <1>9, <1>10 DEF FiguresInv

LEMMA FiguresElsewhere ==
  ASSUME IInv, FiguresInv, Elsewhere
  PROVE  FiguresInv'
<1>0. Shape /\ Shape' /\ Quantities /\ OrdersAreKept
  BY ShapeElsewhere DEF IInv, FiguresInv, Elsewhere
<1>1. ASSUME NEW s \in Strategies, NEW d \in Days, OrderStep(s, d) PROVE FiguresInv'
  <2>1. CASE BrokerTakes(s, d) \/ BrokerFills(s, d) \/ BrokerEnds(s, d)
    <3>1. PICK b : BrokerMoves(s, d, b)
      BY <1>0, <2>1, BrokerKeepsTheOrder
    <3> QED
      BY <1>0, <3>1, FiguresBroker
  <2>2. CASE Reconcile(s, d) \/ CancelIntent(s, d)
    <3>1. PICK r : RowMoves(s, d, r)
      BY <1>0, <2>2, RowsMoveRightly
    <3> QED
      BY <1>0, <3>1, FiguresRows
  <2> QED
    BY <1>1, <2>1, <2>2 DEF OrderStep
<1>2. ASSUME NEW s \in Strategies, Buy(s) \/ StartExit(s) \/ EndExit(s) PROVE FiguresInv'
  BY <1>0, <1>2, TradesAreTrades, FiguresTrade
<1>3. CASE TurnSwitch \/ NextDay
  <2>1. /\ UNCHANGED <<bought, exiting, exited, op, row, size, book, disturbed>>
        /\ UNCHANGED workerVars /\ killed' \in BOOLEAN
    BY <1>0, <1>3 DEF TurnSwitch, NextDay, tradeVars, orderVars, Quantities
  <2>2. Held' = Held /\ \A s \in Strategies : Sold(s)' = Sold(s)
    BY <2>1, FillsStay
  <2>3. Quantities'
    BY <1>0, <2>1, <2>2 DEF Quantities, workerVars
  <2>4. OrdersAreKept' /\ RunsAreKept' /\ OverlapDisturbs'
    BY <2>1 DEF FiguresInv, OrdersAreKept, RunsAreKept, RunKept, MemoryKept, StepKept,
       OverlapDisturbs, workerVars
  <2>5. WeighedIsThere'
    BY <2>1 DEF FiguresInv, WeighedIsThere, WeighedRight, NetQuantity, OpsDone, workerVars
  <2>6. OrdersAreCovered'
    BY <2>1, <2>2 DEF FiguresInv, OrdersAreCovered, Covered
  <2> QED
    BY <2>3, <2>4, <2>5, <2>6 DEF FiguresInv
<1> QED
  BY <1>1, <1>2, <1>3 DEF Elsewhere
LEMMA FiguresWorker ==
  ASSUME IInv, FiguresInv, NEW w \in Workers, WorkerStep(w)
  PROVE  FiguresInv'
<1>1. /\ Shape /\ Quantities /\ OrdersAreKept /\ RunsAreKept /\ RunKept(w) /\ MemoryKept(w)
      /\ OverlapDisturbs /\ WeighedIsThere /\ OrdersAreCovered
  BY DEF IInv, FiguresInv, RunsAreKept, RunKept
<1>2. Quantities'
  BY <1>1, QuantitiesWorker
<1>3. OrdersAreKept'
  BY <1>1, OrdersKeptByWorker
<1>4. RunsAreKept'
  BY <1>1, RunsKeptByWorker
<1>5. OverlapDisturbs' /\ WeighedIsThere'
  BY <1>1, OverlapWorker, WeighedWorker
<1>6. OrdersAreCovered'
  BY <1>1, CoveredWorker
<1> QED
  BY <1>2, <1>3, <1>4, <1>5, <1>6 DEF FiguresInv

LEMMA InitHasRightFigures == Init => FiguresInv
<1> SUFFICES ASSUME Init PROVE FiguresInv
  OBVIOUS
<1>1. ASSUME NEW s \in Strategies, NEW d \in Days
      PROVE  /\ op[s][d] = "none" /\ row[s][d].status = "absent" /\ row[s][d].filled = 0
             /\ book[s][d].state = "absent" /\ book[s][d].fill = 0 /\ book[s][d].sent = 0
             /\ size[s][d] = 0
  BY DEF Init
<1>2. \A w \in Workers : pc[w] = "idle" /\ candidates[w] = {} /\ amount[w] = Nothing
  BY DEF Init
<1>3. Quantities
  <2>1. ASSUME NEW s \in Strategies
        PROVE  bought[s] - exited[s] - Sold(s) = 0
    <3>1. PICK f : f = [d \in Days |-> book[s][d].fill]
      OBVIOUS
    <3>2. f \in [Days -> Int] /\ \A d \in Days : f[d] = 0
      BY <1>1, <3>1
    <3>3. Total(f) = 0
      BY <3>2, DaysAreFinite, TotalZero
    <3>4. bought[s] = 0 /\ exited[s] = 0
      BY DEF Init, Nothing
    <3> QED
      BY <3>1, <3>3, <3>4 DEF Sold
  <2>2. PICK g : g = [s \in Strategies |-> bought[s] - exited[s] - Sold(s)]
    OBVIOUS
  <2>3. g \in [Strategies -> Int] /\ \A s \in Strategies : g[s] = 0
    BY <2>1, <2>2
  <2>4. Total(g) = 0
    BY <2>3, StrategiesAreFinite, TotalZero
  <2>5. Held = ByHand
    BY <2>2, <2>4, DaysAndShares DEF Held, Sold
  <2>6. Nothing \in [Strategies -> 0..Most] /\ Nothing \in [Strategies -> Nat]
        /\ Nothing \in [Strategies -> Int]
    BY DaysAndShares DEF Nothing
  <2>7. size \in [Strategies -> [Days -> 0..Most]]
    BY DaysAndShares DEF Init
  <2>8. amount \in [Workers -> [Strategies -> Int]] /\ sellable \in [Workers -> Nat]
    BY <2>6 DEF Init
  <2>9. killed \in BOOLEAN /\ disturbed = {}
        /\ bought = Nothing /\ exiting = Nothing /\ exited = Nothing
    BY DEF Init
  <2> QED
    BY <2>5, <2>6, <2>7, <2>8, <2>9, DaysAndShares DEF Quantities
<1>4. OrdersAreKept
  BY <1>1 DEF OrdersAreKept, OrderKept, Live, Final, TERMINAL_ORDER_STATUSES,
     ACTIVE_ORDER_STATUSES
<1>5. RunsAreKept
  BY <1>2, DaysAndShares DEF RunsAreKept, RunKept, MemoryKept, StepKept, Nothing
<1>6. OverlapDisturbs /\ WeighedIsThere
  BY <1>2 DEF OverlapDisturbs, WeighedIsThere, WeighedRight
<1>7. OrdersAreCovered
  BY <1>1 DEF OrdersAreCovered, Covered, ACTIVE_ORDER_STATUSES
<1> QED
  BY <1>3, <1>4, <1>5, <1>6, <1>7 DEF FiguresInv

LEMMA FiguresStutter == FiguresInv /\ UNCHANGED vars => FiguresInv'
<1> SUFFICES ASSUME FiguresInv, UNCHANGED vars PROVE FiguresInv'
  OBVIOUS
<1>1. /\ UNCHANGED <<killed, bought, exiting, exited, op, row, size, book, disturbed>>
      /\ UNCHANGED workerVars
  BY DEF vars, worldVars, tradeVars, orderVars
<1>2. Held' = Held /\ \A s \in Strategies : Sold(s)' = Sold(s)
  BY <1>1, FillsStay
<1>3. Quantities'
  BY <1>1, <1>2 DEF FiguresInv, Quantities, workerVars
<1>4. OrdersAreKept' /\ RunsAreKept' /\ OverlapDisturbs'
  BY <1>1 DEF FiguresInv, OrdersAreKept, RunsAreKept, RunKept, MemoryKept, StepKept,
     OverlapDisturbs, workerVars
<1>5. WeighedIsThere'
  BY <1>1 DEF FiguresInv, WeighedIsThere, WeighedRight, NetQuantity, OpsDone, workerVars
<1>6. OrdersAreCovered'
  BY <1>1, <1>2 DEF FiguresInv, OrdersAreCovered, Covered
<1> QED
  BY <1>3, <1>4, <1>5, <1>6 DEF FiguresInv

\* The figures a run relies on are right, whoever trades, fills, reconciles or dies: what
\* is held is never negative, what was weighed is there, and what may still be sold of a
\* strategy is no more than it has left.
THEOREM FiguresAreRight == Spec => [](IInv /\ FiguresInv)
<1>1. IInv /\ FiguresInv /\ [Next]_vars => IInv' /\ FiguresInv'
  <2> SUFFICES ASSUME IInv, FiguresInv, [Next]_vars PROVE IInv' /\ FiguresInv'
    OBVIOUS
  <2>1. ASSUME NEW w \in Workers, WorkerStep(w) PROVE IInv' /\ FiguresInv'
    BY <2>1, WorkerPreserves, FiguresWorker
  <2>2. CASE Elsewhere
    BY <2>2, ElsewherePreserves, FiguresElsewhere
  <2>3. CASE UNCHANGED vars
    BY <2>3, Stutter, FiguresStutter
  <2> QED
    BY <2>1, <2>2, <2>3 DEF Next, Elsewhere
<1> QED
  BY <1>1, InitIsSafe, InitHasRightFigures, PTL DEF Spec

\* Every variable keeps its type; in particular the account never holds less than nothing
\* and no order fills beyond what strategies buy.
THEOREM TypeCorrect == Spec => []TypeOK
<1>1. IInv /\ FiguresInv => TypeOK
  <2> SUFFICES ASSUME IInv, FiguresInv PROVE TypeOK
    OBVIOUS
  <2>0. Shape /\ Quantities /\ OrdersAreKept
    BY DEF IInv, FiguresInv
  <2>1. ASSUME NEW s \in Strategies, NEW d \in Days
        PROVE  /\ row[s][d] \in [status: KNOWN_ORDER_STATUSES \cup {"absent"}, filled: 0..Most]
               /\ book[s][d] \in
                    [state: {"absent", "flying", "working", "filled", "cancelled", "rejected"},
                     fill: 0..Most, sent: Nat]
    <3>1. row[s][d] \in OrderRow /\ book[s][d] \in BrokerOrder /\ size[s][d] \in 0..Most
      BY <2>0 DEF Shape, Quantities
    <3>2. OrderKept(row[s][d], book[s][d], size[s][d], op[s][d])
      BY <2>0 DEF OrdersAreKept
    <3>3. book[s][d].fill \in 0..Most
      BY <3>1, <3>2, DaysAndShares DEF OrderKept, BrokerOrder
    <3>4. row[s][d].status \in Final \cup ACTIVE_ORDER_STATUSES
      BY <3>1 DEF OrderRow, KNOWN_ORDER_STATUSES, Final
    <3>5. row[s][d].filled \in 0..Most
      BY <3>2, <3>3, <3>4, DaysAndShares DEF OrderKept
    <3> QED
      BY <3>1, <3>3, <3>5 DEF OrderRow, BrokerOrder
  <2>2. /\ row \in [Strategies -> [Days ->
             [status: KNOWN_ORDER_STATUSES \cup {"absent"}, filled: 0..Most]]]
        /\ book \in [Strategies -> [Days ->
             [state: {"absent", "flying", "working", "filled", "cancelled", "rejected"},
              fill: 0..Most, sent: Nat]]]
    BY <2>0, <2>1 DEF Shape
  <2> QED
    BY <2>0, <2>2 DEF Shape, Quantities, TypeOK
<1> QED
  BY <1>1, FiguresAreRight, PTL

\* However many workers overlap, die and are run again, one sell at most goes out for a
\* strategy and session, with operation and intent on record, and what the flatten sells
\* never makes the account hold less than nothing.
THEOREM SoldOnceEver == Spec => []SoldOncePerSession
<1>1. TypeOK /\ OneSellPerSession => SoldOncePerSession
  BY DEF SoldOncePerSession
<1> QED
  BY <1>1, TypeCorrect, OneSellEver, PTL

-----------------------------------------------------------------------------
(* What a flatten sells and what it takes for a re-entry. *)

LEMMA OnlyMarksReenter ==
  ASSUME IInv, NEW w \in Workers, StepKept(w), WorkerStep(w), NEW x \in Strategies,
         NEW d \in Days, op[x][d] # "reentry_blocked", op'[x][d] = "reentry_blocked"
  PROVE  pc[w] = "mark" /\ x = cur[w] /\ d = target[w] /\ verdict[w] = "reentry_blocked"
<1> DEFINE Goal == pc[w] = "mark" /\ x = cur[w] /\ d = target[w]
                     /\ verdict[w] = "reentry_blocked"
<1>q. op \in [Strategies -> [Days -> OpStatus]]
  BY DEF IInv, Shape
<1>a. op' # op
  OBVIOUS
<1> HIDE DEF Goal
<1> USE DEF orderVars
<1>1. ASSUME NEW due \in SUBSET Strategies, Begin(w, due) PROVE Goal
  BY <1>1, <1>a DEF Begin
<1>2. ASSUME NEW s \in Strategies, Synchronize(w, s) PROVE Goal
  <2>1. op'[x][d] \in {op[x][d], Promoted(x, d)}
    BY <1>2, <1>q DEF Synchronize
  <2> QED
    BY <2>1 DEF Promoted
<1>3. ASSUME NEW s \in Strategies, Refuse(w, s) PROVE Goal
  <2>1. op'[x][d] \in {op[x][d], "manual_reconciliation_required"}
    BY <1>3, <1>q DEF Refuse, RecordAmbiguity
  <2> QED
    BY <2>1
<1>4. ASSUME NEW s \in Strategies, ClaimWithOrderIntent(w, s) PROVE Goal
  <2>1. op'[x][d] \in {op[x][d], "intent_persisted"}
    BY <1>4, <1>q DEF ClaimWithOrderIntent
  <2> QED
    BY <2>1
<1>5. ASSUME NEW s \in Strategies, ClaimLost(w, s) PROVE Goal
  BY <1>5, <1>a DEF ClaimLost, Settled
<1>6. CASE Weigh(w)
  BY <1>6, <1>a DEF Weigh
<1>7. CASE CannotWeigh(w)
  <2>1. op'[x][d] \in {op[x][d], "manual_reconciliation_required"}
    BY <1>7, <1>q DEF CannotWeigh, RecordAmbiguity
  <2> QED
    BY <2>1
<1>8. CASE FindCompleted(w)
  BY <1>8, <1>a DEF FindCompleted, Deciding, ToMark
<1>9. CASE FindStopped(w)
  BY <1>9, <1>a DEF FindStopped, Deciding, ToMark
<1>10. CASE FindUnderWay(w)
  BY <1>10, <1>a DEF FindUnderWay, Deciding, PassOver
<1>11. CASE Blocked(w)
  BY <1>11, <1>a DEF Blocked, Deciding, ToMark, PassOver
<1>12. CASE RefuseNegative(w)
  <2>1. op'[x][d] \in {op[x][d], "manual_reconciliation_required"}
    BY <1>12, <1>q DEF RefuseNegative, RecordAmbiguity
  <2> QED
    BY <2>1
<1>13. CASE BecomeCandidate(w)
  BY <1>13, <1>a DEF BecomeCandidate, Deciding
<1>14. CASE Mark(w)
  BY <1>14, <1>q DEF Mark, WriteVerdict
<1>15. CASE ReadPosition(w)
  BY <1>15, <1>a DEF ReadPosition
<1>16. CASE ReadFails(w)
  BY <1>16, <1>a DEF ReadFails
<1>17. CASE Check(w)
  BY <1>17, <1>a DEF Check
<1>18. CASE Finish(w)
  BY <1>18, <1>a DEF Finish
<1>19. CASE GateRefuses(w)
  BY <1>19, <1>a DEF GateRefuses, OutcomeKnown
<1>20. CASE Dispatch(w)
  BY <1>20, <1>a DEF Dispatch
<1>21. CASE StaleIntent(w)
  BY <1>21, <1>a DEF StaleIntent
<1>22. CASE Transmit(w)
  BY <1>22, <1>a DEF Transmit
<1>23. CASE NotTransmitted(w)
  BY <1>23, <1>a DEF NotTransmitted, OutcomeKnown
<1>24. CASE Answer(w)
  BY <1>24, <1>a DEF Answer, OutcomeKnown
<1>25. CASE NoAnswer(w)
  BY <1>25, <1>a DEF NoAnswer, OutcomeKnown
<1>26. CASE Conclude(w)
  <2>1. op'[x][d] \in {op[x][d], verdict[w]}
    BY <1>26, <1>q DEF Conclude, WriteVerdict
  <2> QED
    BY <1>26, <2>1 DEF Conclude, StepKept
<1>27. CASE Die(w)
  BY <1>27, <1>a DEF Die
<1> QED
  BY <1>1, <1>2, <1>3, <1>4, <1>5, <1>6, <1>7, <1>8, <1>9, <1>10, <1>11, <1>12, <1>13,
     <1>14, <1>15, <1>16, <1>17, <1>18, <1>19, <1>20, <1>21, <1>22, <1>23, <1>24, <1>25,
     <1>26, <1>27 DEF WorkerStep, Decide, Goal

\* The flatten never sells what a strategy does not have, whether it is held by hand or by
\* another strategy, unless workers overlapped or an exit of that strategy moved while a
\* run relied on its figures; and it takes nothing for a re-entry but a quantity that the
\* strategy's records show after its flatten, or one they showed oversold.
THEOREM RecordsAreFollowed == Spec => FollowsTheRecords
<1>1. IInv /\ FiguresInv /\ (IInv /\ FiguresInv)' /\ [Next]_vars =>
        [SellsWhatIsAttributed /\ ReentryIsReal]_vars
  <2> SUFFICES ASSUME IInv, FiguresInv, Next, Shape'
               PROVE  SellsWhatIsAttributed /\ ReentryIsReal
    BY DEF IInv
  <2>0. Shape /\ Quantities /\ OrdersAreKept
    BY DEF IInv, FiguresInv
  <2>1. ASSUME NEW w \in Workers, WorkerStep(w) PROVE SellsWhatIsAttributed
    <3>1. \A s \in Strategies, d \in Days : book'[s][d].fill = book[s][d].fill
      BY <2>0, <2>1, WorkerKeepsAside DEF Aside
    <3>2. \A s \in Strategies, d \in Days : book[s][d].fill \in Nat
      BY <2>0 DEF Shape, BrokerOrder
    <3> QED
      BY <3>1, <3>2 DEF SellsWhatIsAttributed
  <2>2. ASSUME NEW w \in Workers, WorkerStep(w) PROVE ReentryIsReal
    <3> SUFFICES ASSUME NEW s \in Strategies, NEW d \in Days, s \notin disturbed,
                        op[s][d] # "reentry_blocked", op'[s][d] = "reentry_blocked"
                 PROVE  \/ NetQuantity(s) # 0
                        \/ \E v \in Workers : pc[v] = "mark" /\ amount[v][s] < 0
      BY DEF ReentryIsReal
    <3>1. StepKept(w) /\ WeighedRight(w)
      BY DEF FiguresInv, RunsAreKept, RunKept, WeighedIsThere
    <3>2. pc[w] = "mark" /\ s = cur[w] /\ verdict[w] = "reentry_blocked"
      BY <2>2, <3>1, OnlyMarksReenter
    <3>3. op[s][session[w]] = "completed" /\ session[w] = today
      BY <3>1, <3>2 DEF WeighedRight, IInv, RunsAreOfToday
    <3>4. OpsDone(s)
      BY <2>0, <3>3, CompletedIsDone
    <3>5. amount[w][s] <= NetQuantity(s) /\ amount[w][s] # 0
      BY <3>1, <3>2, <3>4 DEF WeighedRight, StepKept
    <3>6. amount[w][s] \in Int /\ NetQuantity(s) \in Int
      BY <2>0, NetType DEF Quantities
    <3> QED
      BY <3>2, <3>5, <3>6
  <2>3. ASSUME NEW s \in Strategies, NEW d \in Days, NEW b, BrokerMoves(s, d, b)
        PROVE  SellsWhatIsAttributed
    <3> SUFFICES ASSUME NEW x \in Strategies \ disturbed, NEW e \in Days,
                        book'[x][e].fill > book[x][e].fill
                 PROVE  exited[x] + Sold(x)' <= bought[x]
      BY DEF SellsWhatIsAttributed, Sold
    <3>1. /\ book'[s][d] = b
          /\ \A y \in Strategies, u \in Days : y # s \/ u # d => book'[y][u] = book[y][u]
      BY <2>0, <2>3 DEF BrokerMoves, Book, Shape
    <3>2. book[x][e].fill \in Nat
      BY <2>0 DEF Shape, BrokerOrder
    <3>3. x = s /\ e = d
      BY <3>1, <3>2
    <3>4. b.fill = book[s][d].fill + 1 /\ row[s][d].status \in ACTIVE_ORDER_STATUSES
      BY <2>3, <3>1, <3>2, <3>3 DEF BrokerMoves
    <3>5. Sold(s)' = Sold(s) + 1
      BY <2>0, <3>1, <3>4, SoldOneMore
    <3>6. exited[s] + Sold(s) + size[s][d] - book[s][d].fill <= bought[s]
      BY <3>3, <3>4 DEF FiguresInv, OrdersAreCovered, Covered
    <3>7. book'[s][d].fill <= size[s][d]
      BY <2>3, <3>1 DEF BrokerMoves, OrderKept
    <3>8. /\ exited[s] \in Int /\ Sold(s) \in Int /\ size[s][d] \in Int
          /\ book[s][d].fill \in Int /\ bought[s] \in Int
      BY <2>0, <3>2, <3>3, SoldType, DaysAndShares DEF Quantities
    <3> QED
      BY <3>1, <3>3, <3>4, <3>5, <3>6, <3>7, <3>8
  <2>4. ASSUME NEW s \in Strategies, NEW d \in Days, OrderStep(s, d)
        PROVE  SellsWhatIsAttributed
    <3>1. CASE BrokerTakes(s, d) \/ BrokerFills(s, d) \/ BrokerEnds(s, d)
      BY <2>0, <2>3, <3>1, BrokerKeepsTheOrder
    <3>2. CASE Reconcile(s, d) \/ CancelIntent(s, d)
      <4>1. UNCHANGED book /\ \A x \in Strategies, e \in Days : book[x][e].fill \in Nat
        BY <2>0, <3>2 DEF Reconcile, CancelIntent, Shape, BrokerOrder
      <4> QED
        BY <4>1 DEF SellsWhatIsAttributed
    <3> QED
      BY <2>4, <3>1, <3>2 DEF OrderStep
  <2>5. ASSUME (\E s \in Strategies : Buy(s) \/ StartExit(s) \/ EndExit(s))
                 \/ TurnSwitch \/ NextDay
        PROVE  SellsWhatIsAttributed
    <3>1. UNCHANGED book /\ \A x \in Strategies, e \in Days : book[x][e].fill \in Nat
      BY <2>0, <2>5 DEF Buy, StartExit, EndExit, Trades, TurnSwitch, NextDay, orderVars,
         Shape, BrokerOrder
    <3> QED
      BY <3>1 DEF SellsWhatIsAttributed
  <2>6. ASSUME Elsewhere PROVE ReentryIsReal
    <3>1. UNCHANGED op
      <4>1. ASSUME NEW s \in Strategies, NEW d \in Days, OrderStep(s, d) PROVE UNCHANGED op
        BY <2>0, <4>1, OrdersStayElsewhere
      <4> QED
        BY <2>6, <4>1 DEF Elsewhere, Buy, StartExit, EndExit, Trades, TurnSwitch, NextDay,
           orderVars
    <3> QED
      BY <3>1 DEF ReentryIsReal
  <2> QED
    BY <2>1, <2>2, <2>4, <2>5, <2>6 DEF Next, Elsewhere
<1> QED
  BY <1>1, FiguresAreRight, PTL DEF Spec, FollowsTheRecords
=============================================================================
