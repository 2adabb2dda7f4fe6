------------------------- MODULE ScheduledTasksProofs -------------------------
(***************************************************************************)
(* The proofs about the scheduled tasks that have one: how a periodic task *)
(* is delivered (TaskDelivery), the reconciler (Reconciliation), the       *)
(* portfolio rebalance (PortfolioRebalance), the owners of the demo        *)
(* reconciliation (DemoReconciliation), the runner and the monitor of a    *)
(* stock (StrategyTrading), with the admission of the runner's entries     *)
(* (EntryAdmission), and the scheduled purchases (DcaSchedule), for every  *)
(* value of their constants.  The seven share nothing but lemmas about     *)
(* sums; each part begins with the inductive invariant it is about.        *)
(***************************************************************************)
EXTENDS TaskDelivery, Reconciliation, PortfolioRebalance, DemoReconciliation,
        StrategyTrading, AdmissionInvariant, DcaSchedule, FiniteSetTheorems,
        FunctionTheorems, WellFoundedInduction, TLAPS

(***************************************************************************)
(* The delivery of a periodic task.                                        *)
(***************************************************************************)
MessageRecord ==
  [of : published, retries : 0 .. max_retries, redelivered : BOOLEAN,
   eta : 0 .. Countdown, taken : BOOLEAN]

Working ==
  [phase : {"starting", "body", "ended"}, at : Messages, elapsed : 0 .. time_limit]

\* A message that waits for its time is with nobody.
Delivered ==
  /\ message \in [Messages -> MessageRecord \union {NoMessage}]
  /\ worker \in [Workers -> Working \union {Idle}]
  /\ \A m \in Messages : message[m] # NoMessage /\ message[m].taken => message[m].eta = 0

\* A body has the lock, for at least as long as it may still run.
LeaseOutlivesBody ==
  \A w \in Workers : worker[w].phase = "body" =>
    lock.holder = w /\ lock.lease + worker[w].elapsed >= exclusive_ttl_seconds

\* How NoRunIsLost may end well for a period.
PeriodSettled(p) ==
  \/ fate[p] \intersect {"done", "dead letter", "failure heartbeat",
                         "another run was there", "redis was not there"} # {}
  \/ "raised" \in fate[p] /\ max_retries > 0

\* A message whose run is not over, and so will not be acknowledged unseen.
Pending(m, p) ==
  /\ message[m] # NoMessage /\ message[m].of = p
  /\ \A w \in Workers : worker[w].phase = "ended" => At(w) # m

\* A delivery of m will not be dropped for the lock that is there now.
OutlivesLock(m) ==
  \/ message[m].redelivered
  \/ message[m].eta > 0 /\ message[m].eta >= lock.lease
  \/ \E w \in Workers : worker[w].phase = "body" /\ At(w) = m

PeriodsArePending == \A p \in published : PeriodSettled(p) \/ \E m \in Messages : Pending(m, p)

\* While a lock is there for a period, it is not the period's only run that is dropped
\* for it.
LockedIsPending ==
  lock # Free =>
    /\ lock.of \in published
    /\ \/ PeriodSettled(lock.of)
       \/ \E m \in Messages : Pending(m, lock.of) /\ OutlivesLock(m)

\* The inductive invariant.
DeliveriesKept == TaskTypeOK /\ Delivered /\ LeaseOutlivesBody /\ PeriodsArePending /\ LockedIsPending
-----------------------------------------------------------------------------
LEMMA TaskInitKeeps == TaskInit => DeliveriesKept
  BY LeaseOutlivesLimit DEF TaskInit, DeliveriesKept, TaskTypeOK, Delivered, LeaseOutlivesBody, PeriodsArePending,
     LockedIsPending, NoMessage, Idle, Free, Fates, At

LEMMA LimitsAreNumbers ==
  /\ time_limit \in Nat /\ exclusive_ttl_seconds \in Nat
  /\ REDELIVERY_RETRY_MARGIN_SECONDS \in Nat /\ max_retries \in Nat
  /\ time_limit < exclusive_ttl_seconds
  /\ Countdown \in Nat /\ Countdown > 0 /\ Countdown >= exclusive_ttl_seconds
  BY LeaseOutlivesLimit DEF Countdown

\* What is known of a worker that runs something.
LEMMA BusyWorker ==
  ASSUME DeliveriesKept, NEW w \in Workers, worker[w] # Idle
  PROVE  /\ worker[w] \in Working /\ At(w) \in Messages
         /\ message[At(w)] \in MessageRecord /\ message[At(w)] # NoMessage
         /\ message[At(w)].taken /\ message[At(w)].eta = 0
         /\ RunOf(w) \in published /\ RunOf(w) \in Periods
         /\ \A v \in Workers : v # w /\ worker[v] # Idle => At(v) # At(w)
<1>1. worker[w] \in Working
  BY DEF DeliveriesKept, Delivered
<1>2. At(w) \in Messages /\ message[At(w)] # NoMessage /\ message[At(w)].taken
  BY <1>1 DEF DeliveriesKept, TaskTypeOK, Working, At
<1>3. message[At(w)] \in MessageRecord /\ message[At(w)].eta = 0
  BY <1>2 DEF DeliveriesKept, Delivered
<1> QED
  BY <1>1, <1>2, <1>3 DEF DeliveriesKept, TaskTypeOK, MessageRecord, RunOf, At

LEMMA PhasesAreBusy ==
  ASSUME NEW w \in Workers, worker[w].phase \in {"starting", "body", "ended"}
  PROVE  worker[w] # Idle
  BY DEF Idle
-----------------------------------------------------------------------------
(* The message broker. *)

LEMMA PublishKeeps ==
  ASSUME DeliveriesKept, NEW p \in Periods, Publish(p)
  PROVE  DeliveriesKept'
<1> DEFINE new == [of |-> p, retries |-> 0, redelivered |-> FALSE, eta |-> 0, taken |-> FALSE]
<1>1. PICK m \in Messages : message[m] = NoMessage /\ message' = [message EXCEPT ![m] = new]
  BY DEF Publish
<1>2. /\ UNCHANGED <<worker, lock, fate>> /\ published' = published \union {p}
      /\ p \notin published
  BY DEF Publish
<1>3. new \in MessageRecord' /\ new # NoMessage /\ MessageRecord \subseteq MessageRecord'
  BY <1>2, LimitsAreNumbers DEF MessageRecord, NoMessage
<1>4. \A w \in Workers : worker[w] # Idle => At(w) # m
  BY <1>1, BusyWorker
<1>5. /\ message'[m] = new /\ \A n \in Messages : n # m => message'[n] = message[n]
      /\ message' \in [Messages -> MessageRecord' \union {NoMessage}]
  BY <1>1, <1>3 DEF DeliveriesKept, Delivered
<1>6. TaskTypeOK'
  BY <1>2, <1>3, <1>4, <1>5 DEF DeliveriesKept, TaskTypeOK, MessageRecord, At
<1>7. Delivered'
  BY <1>2, <1>3, <1>5 DEF DeliveriesKept, Delivered, Working
<1>8. LeaseOutlivesBody'
  BY <1>2 DEF DeliveriesKept, LeaseOutlivesBody
<1>9. \A n \in Messages, q \in published : Pending(n, q) => Pending(n, q)'
  BY <1>1, <1>2, <1>5 DEF Pending, At
<1>10. Pending(m, p)'
  BY <1>2, <1>3, <1>4, <1>5, PhasesAreBusy DEF Pending, At
<1>11. \A q \in published : PeriodSettled(q) => PeriodSettled(q)'
  BY <1>2 DEF PeriodSettled
<1>12. PeriodsArePending'
  BY <1>2, <1>9, <1>10, <1>11 DEF DeliveriesKept, PeriodsArePending
<1>13. \A n \in Messages : n # m /\ OutlivesLock(n) => OutlivesLock(n)'
  BY <1>2, <1>5 DEF OutlivesLock, At
<1>14. LockedIsPending'
  BY <1>1, <1>2, <1>9, <1>11, <1>13 DEF DeliveriesKept, LockedIsPending, Pending
<1> QED
  BY <1>6, <1>7, <1>8, <1>12, <1>14 DEF DeliveriesKept

LEMMA DeliverKeeps ==
  ASSUME DeliveriesKept, NEW w \in Workers, Deliver(w)
  PROVE  DeliveriesKept'
<1> DEFINE begun(m) == [phase |-> "starting", at |-> m, elapsed |-> 0]
<1>1. PICK m \in Messages :
        /\ message[m] # NoMessage /\ ~message[m].taken /\ message[m].eta = 0
        /\ message' = [message EXCEPT ![m].taken = TRUE]
        /\ worker' = [worker EXCEPT ![w] = begun(m)]
  BY DEF Deliver
<1>2. worker[w] = Idle /\ UNCHANGED <<lock, published, fate>>
  BY DEF Deliver
<1>3. /\ message[m] \in MessageRecord /\ message'[m] = [message[m] EXCEPT !.taken = TRUE]
      /\ message'[m] \in MessageRecord /\ message'[m] # NoMessage /\ MessageRecord' = MessageRecord
      /\ \A n \in Messages : n # m => message'[n] = message[n]
  BY <1>1, <1>2 DEF DeliveriesKept, Delivered, MessageRecord, NoMessage
<1>4. /\ worker'[w] = begun(m) /\ begun(m) \in Working /\ begun(m) # Idle
      /\ \A v \in Workers : v # w => worker'[v] = worker[v] /\ (worker[v] # Idle => At(v) # m)
  BY <1>1, BusyWorker, LimitsAreNumbers DEF DeliveriesKept, Delivered, Working, Idle
<1>5. TaskTypeOK'
  BY <1>2, <1>3, <1>4 DEF DeliveriesKept, TaskTypeOK, MessageRecord, Working, At
<1>6. Delivered'
  BY <1>1, <1>2, <1>3, <1>4 DEF DeliveriesKept, Delivered, MessageRecord
<1>7. LeaseOutlivesBody'
  BY <1>2, <1>4 DEF DeliveriesKept, LeaseOutlivesBody
<1>8. \A n \in Messages, p \in published : Pending(n, p) => Pending(n, p)'
  BY <1>3, <1>4 DEF Pending, At, MessageRecord
<1>9. PeriodsArePending'
  BY <1>2, <1>8 DEF DeliveriesKept, PeriodsArePending, PeriodSettled
<1>10. \A n \in Messages : OutlivesLock(n) => OutlivesLock(n)'
  BY <1>2, <1>3, <1>4, PhasesAreBusy DEF OutlivesLock, At, MessageRecord
<1>11. LockedIsPending'
  BY <1>2, <1>8, <1>10 DEF DeliveriesKept, LockedIsPending, PeriodSettled
<1> QED
  BY <1>5, <1>6, <1>7, <1>9, <1>11 DEF DeliveriesKept

LEMMA WorkerIsLostKeeps ==
  ASSUME DeliveriesKept, NEW w \in Workers, WorkerIsLost(w)
  PROVE  DeliveriesKept'
<1> DEFINE m == At(w)
<1>1. /\ worker[w] # Idle /\ worker' = [worker EXCEPT ![w] = Idle]
      /\ message' = [message EXCEPT ![m].taken = FALSE, ![m].redelivered = TRUE]
      /\ UNCHANGED <<lock, published, fate>>
  BY DEF WorkerIsLost
<1>2. /\ m \in Messages /\ message[m] \in MessageRecord
      /\ \A v \in Workers : v # w /\ worker[v] # Idle => At(v) # m
  BY <1>1, BusyWorker
<1> HIDE DEF m
<1>3. /\ message'[m] = [message[m] EXCEPT !.taken = FALSE, !.redelivered = TRUE]
      /\ message'[m] \in MessageRecord /\ message'[m] # NoMessage /\ MessageRecord' = MessageRecord
      /\ message'[m].redelivered /\ ~message'[m].taken /\ message'[m].of = message[m].of
      /\ \A n \in Messages : n # m => message'[n] = message[n]
  BY <1>1, <1>2 DEF DeliveriesKept, Delivered, MessageRecord, NoMessage
<1>4. worker'[w] = Idle /\ \A v \in Workers : v # w => worker'[v] = worker[v]
  BY <1>1 DEF DeliveriesKept, Delivered
<1>5. TaskTypeOK'
  <2>1. \A n \in Messages : message'[n] = NoMessage \/ message'[n] \in MessageRecord
    BY <1>3 DEF DeliveriesKept, Delivered
  <2>2. \A v \in Workers : worker'[v] # Idle =>
          v # w /\ worker'[v] = worker[v] /\ At(v)' = At(v) /\ At(v) # m
    BY <1>2, <1>4 DEF At
  <2>3. \A v \in Workers : worker'[v] = Idle \/
          /\ worker'[v] \in Working
          /\ message'[At(v)'] # NoMessage /\ message'[At(v)'].taken
    BY <1>3, <2>2, BusyWorker
  <2>4. \A v, x \in Workers : v # x /\ worker'[v] # Idle /\ worker'[x] # Idle => At(v)' # At(x)'
    BY <2>2 DEF DeliveriesKept, TaskTypeOK
  <2> QED
    BY <1>1, <2>1, <2>3, <2>4 DEF DeliveriesKept, TaskTypeOK, MessageRecord, Working
<1>6. Delivered'
  BY <1>1, <1>2, <1>3, <1>4 DEF DeliveriesKept, Delivered
<1>7. LeaseOutlivesBody'
  BY <1>1, <1>4 DEF DeliveriesKept, LeaseOutlivesBody, Idle
<1>8. \A n \in Messages, p \in published : Pending(n, p) => Pending(n, p)'
  <2>1. \A v \in Workers : worker'[v].phase = "ended" => worker[v].phase = "ended" /\ At(v)' = At(v)
    BY <1>4 DEF At, Idle
  <2>2. \A n \in Messages : message[n] # NoMessage =>
          message'[n] # NoMessage /\ message'[n].of = message[n].of
    BY <1>3
  <2> QED
    BY <2>1, <2>2 DEF Pending
<1>9. PeriodsArePending'
  BY <1>1, <1>8 DEF DeliveriesKept, PeriodsArePending, PeriodSettled
<1>10. \A n \in Messages : OutlivesLock(n) => OutlivesLock(n)'
  BY <1>1, <1>3, <1>4 DEF OutlivesLock, At, m
<1>11. LockedIsPending'
  BY <1>1, <1>8, <1>10 DEF DeliveriesKept, LockedIsPending, PeriodSettled
<1> QED
  BY <1>5, <1>6, <1>7, <1>9, <1>11 DEF DeliveriesKept
-----------------------------------------------------------------------------
(* run_monitored_task. *)

LEMMA AcquireKeeps ==
  ASSUME DeliveriesKept, NEW w \in Workers, Acquire(w)
  PROVE  DeliveriesKept'
<1>1. /\ worker[w].phase = "starting" /\ lock = Free
      /\ lock' = [holder |-> w, lease |-> exclusive_ttl_seconds, of |-> RunOf(w)]
      /\ worker' = [worker EXCEPT ![w].phase = "body"]
      /\ UNCHANGED <<message, published, fate>>
  BY DEF Acquire, Phase
<1>2. /\ worker[w] # Idle /\ worker[w] \in Working /\ At(w) \in Messages
      /\ message[At(w)] # NoMessage /\ RunOf(w) \in published /\ RunOf(w) \in Periods
      /\ \A v \in Workers : v # w /\ worker[v] # Idle => At(v) # At(w)
  BY <1>1, BusyWorker, PhasesAreBusy
<1>3. /\ worker'[w] = [worker[w] EXCEPT !.phase = "body"] /\ worker'[w] \in Working
      /\ worker'[w] # Idle /\ worker'[w].phase = "body" /\ worker'[w].at = worker[w].at
      /\ worker'[w].elapsed = worker[w].elapsed /\ worker[w].elapsed \in Nat
      /\ \A v \in Workers : v # w => worker'[v] = worker[v]
  BY <1>1, <1>2, LimitsAreNumbers DEF DeliveriesKept, Delivered, Working, Idle
<1>4. \A v \in Workers : At(v)' = At(v)
  BY <1>3 DEF At
<1>5. TaskTypeOK'
  <2>1. lock' \in [holder : Workers \union {NoOne}, lease : 0 .. exclusive_ttl_seconds,
                   of : Periods \union {NoOne}]
    BY <1>1, <1>2, LimitsAreNumbers
  <2>2. \A v, x \in Workers : v # x /\ worker'[v] # Idle /\ worker'[x] # Idle => At(v)' # At(x)'
    BY <1>2, <1>3, <1>4 DEF DeliveriesKept, TaskTypeOK
  <2>3. \A v \in Workers : worker'[v] = Idle \/
          /\ worker'[v] \in Working
          /\ message'[At(v)'] # NoMessage /\ message'[At(v)'].taken
    BY <1>1, <1>2, <1>3, <1>4, BusyWorker DEF DeliveriesKept, TaskTypeOK, Working
  <2> QED
    BY <1>1, <2>1, <2>2, <2>3 DEF DeliveriesKept, TaskTypeOK, Working
<1>6. Delivered'
  BY <1>1, <1>2, <1>3 DEF DeliveriesKept, Delivered, MessageRecord
<1>7. \A v \in Workers : worker[v].phase # "body"
  BY <1>1, NoOneIsNobody DEF DeliveriesKept, LeaseOutlivesBody, Free
<1>8. LeaseOutlivesBody'
  BY <1>1, <1>3, <1>7, LimitsAreNumbers DEF LeaseOutlivesBody
<1>9. \A n \in Messages, p \in published : Pending(n, p) => Pending(n, p)'
  BY <1>1, <1>3, <1>4 DEF Pending
<1>10. PeriodsArePending'
  BY <1>1, <1>9 DEF DeliveriesKept, PeriodsArePending, PeriodSettled
<1>11. Pending(At(w), RunOf(w))' /\ OutlivesLock(At(w))'
  BY <1>1, <1>2, <1>3, <1>4, PhasesAreBusy DEF Pending, OutlivesLock, RunOf
<1>12. LockedIsPending'
  BY <1>1, <1>2, <1>4, <1>11 DEF LockedIsPending, RunOf
<1> QED
  BY <1>5, <1>6, <1>8, <1>10, <1>12 DEF DeliveriesKept

\* The message of a worker goes, and so does its run.
LEMMA AcknowledgedKeeps ==
  ASSUME DeliveriesKept, NEW w \in Workers, worker[w] # Idle, Acknowledged(w),
         NEW m, m = At(w), NEW p, p = RunOf(w),
         lock' \in {lock, Free}, worker[w].phase = "body" \/ lock' = lock, published' = published,
         fate' \in [Periods -> SUBSET Fates], \A q \in Periods : fate[q] \subseteq fate'[q],
         \/ PeriodSettled(p)'
         \/ /\ \E n \in Messages : n # m /\ Pending(n, p)
            /\ lock' # Free /\ lock.of = p =>
                 \E n \in Messages : n # m /\ Pending(n, p) /\ OutlivesLock(n)
  PROVE  DeliveriesKept'
<1>1. /\ message' = [message EXCEPT ![m] = NoMessage]
      /\ worker' = [worker EXCEPT ![w] = Idle]
  BY DEF Acknowledged
<1>2. /\ m \in Messages /\ message[m].of = p /\ p \in published /\ p \in Periods
      /\ \A v \in Workers : v # w /\ worker[v] # Idle => At(v) # m
  BY BusyWorker DEF RunOf
<1>3. /\ \A q \in Periods : PeriodSettled(q) => PeriodSettled(q)'
      /\ PeriodSettled(p)' \/
           /\ \E n \in Messages : n # m /\ Pending(n, p)
           /\ lock' # Free /\ lock.of = p =>
                \E n \in Messages : n # m /\ Pending(n, p) /\ OutlivesLock(n)
  BY DEF PeriodSettled
<1>4. message'[m] = NoMessage /\ \A n \in Messages : n # m => message'[n] = message[n]
  BY <1>1, <1>2 DEF DeliveriesKept, Delivered
<1>5. worker'[w] = Idle /\ \A v \in Workers : v # w => worker'[v] = worker[v]
  BY <1>1 DEF DeliveriesKept, Delivered
<1>6. MessageRecord' = MessageRecord
  BY DEF MessageRecord
<1>7. TaskTypeOK'
  <2>1. \A n \in Messages : message'[n] = NoMessage \/ message'[n] \in MessageRecord
    BY <1>4 DEF DeliveriesKept, Delivered
  <2>2. \A v \in Workers : worker'[v] # Idle =>
          v # w /\ worker'[v] = worker[v] /\ At(v)' = At(v) /\ At(v) # m
    BY <1>2, <1>5 DEF At
  <2>3. \A v \in Workers : worker'[v] = Idle \/
          /\ worker'[v] \in Working
          /\ message'[At(v)'] # NoMessage /\ message'[At(v)'].taken
    BY <1>4, <2>2, BusyWorker
  <2>4. \A v, x \in Workers : v # x /\ worker'[v] # Idle /\ worker'[x] # Idle => At(v)' # At(x)'
    BY <2>2 DEF DeliveriesKept, TaskTypeOK
  <2>5. lock' \in [holder : Workers \union {NoOne}, lease : 0 .. exclusive_ttl_seconds,
                   of : Periods \union {NoOne}]
    BY LimitsAreNumbers DEF DeliveriesKept, TaskTypeOK, Free
  <2>6. published' \subseteq Periods
    BY DEF DeliveriesKept, TaskTypeOK
  <2> QED
    BY <2>1, <2>3, <2>4, <2>5, <2>6 DEF TaskTypeOK, MessageRecord, Working
<1>8. Delivered'
  BY <1>1, <1>2, <1>4, <1>5, <1>6 DEF DeliveriesKept, Delivered
<1>9. LeaseOutlivesBody'
  <2>1. SUFFICES ASSUME NEW v \in Workers, worker'[v].phase = "body"
                 PROVE  /\ lock'.holder = v
                        /\ lock'.lease + worker'[v].elapsed >= exclusive_ttl_seconds
    BY DEF LeaseOutlivesBody
  <2>2. v # w /\ worker'[v] = worker[v]
    BY <1>5, <2>1 DEF Idle
  <2>3. lock' = lock
    BY <2>1, <2>2 DEF DeliveriesKept, LeaseOutlivesBody
  <2> QED
    BY <2>1, <2>2, <2>3 DEF DeliveriesKept, LeaseOutlivesBody
<1>10. ASSUME NEW n \in Messages, NEW q, Pending(n, q), n # m
       PROVE  Pending(n, q)'
  BY <1>4, <1>5, <1>10 DEF Pending, At, Idle
<1>11. \A q \in published : q # p => \A n \in Messages : Pending(n, q) => n # m
  BY <1>2 DEF Pending
<1>12. PeriodsArePending'
  <2>1. SUFFICES ASSUME NEW q \in published, ~PeriodSettled(q)'
                 PROVE  \E n \in Messages : Pending(n, q)'
    BY DEF PeriodsArePending
  <2>2. ~PeriodSettled(q)
    BY <1>3, <2>1 DEF DeliveriesKept, TaskTypeOK
  <2>3. CASE q = p
    BY <1>3, <1>10, <2>1, <2>3
  <2>4. CASE q # p
    BY <1>10, <1>11, <2>2, <2>4 DEF DeliveriesKept, PeriodsArePending
  <2> QED
    BY <2>3, <2>4
<1>13. ASSUME NEW n \in Messages, OutlivesLock(n), n # m, lock' = lock
       PROVE  OutlivesLock(n)'
  <2>1. \A v \in Workers : worker[v].phase = "body" /\ At(v) = n =>
          worker'[v].phase = "body" /\ At(v)' = n
    BY <1>5, <1>13 DEF At
  <2> QED
    BY <1>4, <1>13, <2>1 DEF OutlivesLock
<1>14. LockedIsPending'
  <2>1. SUFFICES ASSUME lock' # Free, ~PeriodSettled(lock.of)'
                 PROVE  lock.of \in published /\
                        \E n \in Messages : Pending(n, lock.of)' /\ OutlivesLock(n)'
    BY <1>3 DEF LockedIsPending, DeliveriesKept, TaskTypeOK, PeriodSettled
  <2>2. lock' = lock /\ lock.of \in published /\ lock.of \in Periods
    BY <2>1 DEF DeliveriesKept, LockedIsPending, TaskTypeOK
  <2>3. ~PeriodSettled(lock.of)
    BY <1>3, <2>1, <2>2
  <2>4. \E n \in Messages : n # m /\ Pending(n, lock.of) /\ OutlivesLock(n)
    <3>1. CASE lock.of = p
      BY <1>3, <2>1, <3>1
    <3>2. CASE lock.of # p
      BY <1>11, <2>1, <2>2, <2>3, <3>2 DEF DeliveriesKept, LockedIsPending
    <3> QED
      BY <3>1, <3>2
  <2> QED
    BY <1>10, <1>13, <2>2, <2>4
<1> QED
  BY <1>7, <1>8, <1>9, <1>12, <1>14 DEF DeliveriesKept

\* A run that is over in a way that says so, may be acknowledged.
LEMMA SettledKeeps ==
  ASSUME DeliveriesKept, NEW w \in Workers, worker[w] # Idle, Acknowledged(w),
         lock' \in {lock, Free}, worker[w].phase = "body" \/ lock' = lock, published' = published,
         NEW what \in SUBSET Fates, fate' = [fate EXCEPT ![RunOf(w)] = @ \union what],
         \/ what \intersect {"done", "dead letter", "failure heartbeat",
                             "another run was there", "redis was not there"} # {}
         \/ "raised" \in what /\ max_retries > 0
  PROVE  DeliveriesKept'
<1>1. PICK p \in Periods : p = RunOf(w)
  BY BusyWorker
<1>2. /\ fate \in [Periods -> SUBSET Fates] /\ fate'[p] = fate[p] \union what
      /\ fate' = [fate EXCEPT ![p] = @ \union what]
  BY <1>1 DEF DeliveriesKept, TaskTypeOK
<1>3. /\ fate' \in [Periods -> SUBSET Fates] /\ \A q \in Periods : fate[q] \subseteq fate'[q]
  BY <1>1, <1>2
<1>4. PeriodSettled(p)'
  BY <1>2 DEF PeriodSettled
<1>5. \E m : m = At(w)
  OBVIOUS
<1> QED
  BY <1>1, <1>3, <1>4, <1>5, AcknowledgedKeeps

LEMMA SkipKeeps ==
  ASSUME DeliveriesKept, NEW w \in Workers, NEW why \in {"held", "unavailable"}, SkippedLocked(w, why)
  PROVE  DeliveriesKept'
<1>1. /\ worker[w].phase = "starting" /\ worker[w] # Idle /\ ~message[At(w)].redelivered
      /\ Acknowledged(w) /\ lock' = lock /\ published' = published
  BY PhasesAreBusy DEF SkippedLocked, NotGranted
<1>2. CASE fate' = [fate EXCEPT ![RunOf(w)] = @ \union {"redis was not there"}]
  BY <1>1, <1>2, SettledKeeps DEF Fates
<1>3. CASE fate' = [fate EXCEPT ![RunOf(w)] = @ \union {"another run was there"}]
  BY <1>1, <1>3, SettledKeeps DEF Fates
<1>4. CASE fate' = fate /\ lock # Free /\ lock.of = RunOf(w)
  <2>1. PICK p \in Periods : p = RunOf(w)
    BY <1>1, BusyWorker
  <2>2. PICK m : m = At(w)
    OBVIOUS
  <2>3. ~OutlivesLock(m)
    <3>1. message[m].eta = 0 /\ \A v \in Workers : v # w /\ worker[v] # Idle => At(v) # m
      BY <1>1, <2>2, BusyWorker
    <3> QED
      BY <1>1, <2>2, <3>1, PhasesAreBusy DEF OutlivesLock
  <2>4. \/ PeriodSettled(p)
        \/ \E n \in Messages : n # m /\ Pending(n, p) /\ OutlivesLock(n)
    BY <1>4, <2>1, <2>3 DEF DeliveriesKept, LockedIsPending
  <2>5. PeriodSettled(p) => PeriodSettled(p)'
    BY <1>4 DEF PeriodSettled
  <2>6. fate' \in [Periods -> SUBSET Fates] /\ \A q \in Periods : fate[q] \subseteq fate'[q]
    BY <1>4 DEF DeliveriesKept, TaskTypeOK
  <2> QED
    BY <1>1, <1>4, <2>1, <2>2, <2>4, <2>5, <2>6, AcknowledgedKeeps
<1> QED
  BY <1>2, <1>3, <1>4 DEF SkippedLocked, NotGranted, Known

LEMMA RetryKeeps ==
  ASSUME DeliveriesKept, NEW w \in Workers, NEW why, Retry(w, why)
  PROVE  DeliveriesKept'
<1>1. /\ worker[w].phase = "starting" /\ worker[w] # Idle /\ message[At(w)].redelivered
      /\ message[At(w)].retries < max_retries
      /\ worker' = [worker EXCEPT ![w].phase = "ended"]
      /\ UNCHANGED <<lock, published, fate>>
  BY PhasesAreBusy DEF Retry, NotGranted, Phase
<1>2. PICK p \in Periods : p = RunOf(w)
  BY <1>1, BusyWorker
<1>3. PICK m \in Messages : m = At(w)
  BY <1>1, BusyWorker
<1>4. /\ message[m] \in MessageRecord /\ message[m].of = p /\ p \in published /\ worker[w] \in Working
      /\ message[m].retries \in Nat
      /\ \A v \in Workers : v # w /\ worker[v] # Idle => At(v) # m
  BY <1>1, <1>2, <1>3, BusyWorker, LimitsAreNumbers DEF RunOf, MessageRecord
<1> DEFINE again == [message[m] EXCEPT !.retries = @ + 1, !.redelivered = FALSE,
                                       !.eta = Countdown, !.taken = FALSE]
<1>5. PICK n \in Messages : message[n] = NoMessage /\ message' = [message EXCEPT ![n] = again]
  BY <1>3 DEF Retry
<1>6. /\ again \in MessageRecord /\ again # NoMessage /\ again.of = p /\ again.eta = Countdown
      /\ ~again.taken /\ MessageRecord' = MessageRecord
  <2>1. message[m].retries + 1 \in 0 .. max_retries /\ Countdown \in 0 .. Countdown
    BY <1>1, <1>3, <1>4, LimitsAreNumbers
  <2>2. again \in MessageRecord /\ again.of = p /\ again.eta = Countdown /\ ~again.taken
    BY <1>4, <2>1 DEF MessageRecord
  <2> QED
    BY <1>1, <2>2 DEF MessageRecord, NoMessage
<1> HIDE DEF again
<1>7. /\ message'[n] = again /\ \A x \in Messages : x # n => message'[x] = message[x]
      /\ n # m /\ \A v \in Workers : worker[v] # Idle => At(v) # n
  BY <1>1, <1>3, <1>5, BusyWorker DEF DeliveriesKept, Delivered
<1>8. /\ worker'[w] = [worker[w] EXCEPT !.phase = "ended"] /\ worker'[w] \in Working
      /\ worker'[w] # Idle /\ worker'[w].phase = "ended" /\ worker'[w].at = worker[w].at
      /\ \A v \in Workers : v # w => worker'[v] = worker[v]
  BY <1>1, <1>4 DEF DeliveriesKept, Delivered, Working, Idle
<1>9. \A v \in Workers : /\ At(v)' = At(v) /\ (worker'[v] # Idle <=> worker[v] # Idle)
                         /\ (worker'[v].phase = "body" <=> worker[v].phase = "body")
  BY <1>1, <1>8 DEF At
<1>10. TaskTypeOK'
  <2>1. \A x \in Messages : message'[x] = NoMessage \/ message'[x] \in MessageRecord
    BY <1>6, <1>7 DEF DeliveriesKept, Delivered
  <2>2. \A v \in Workers : worker'[v] = Idle \/
          /\ worker'[v] \in Working
          /\ message'[At(v)'] # NoMessage /\ message'[At(v)'].taken
    BY <1>7, <1>8, <1>9, BusyWorker
  <2>3. \A v, x \in Workers : v # x /\ worker'[v] # Idle /\ worker'[x] # Idle => At(v)' # At(x)'
    BY <1>9 DEF DeliveriesKept, TaskTypeOK
  <2> QED
    BY <1>1, <2>1, <2>2, <2>3 DEF DeliveriesKept, TaskTypeOK, MessageRecord, Working
<1>11. Delivered'
  BY <1>1, <1>4, <1>5, <1>6, <1>7, <1>8 DEF DeliveriesKept, Delivered
<1>12. LeaseOutlivesBody'
  BY <1>1, <1>8, <1>9 DEF DeliveriesKept, LeaseOutlivesBody
<1>13. Pending(n, p)' /\ OutlivesLock(n)'
  <2>1. Pending(n, p)'
    BY <1>6, <1>7, <1>8, <1>9, PhasesAreBusy DEF Pending
  <2>2. lock'.lease \in 0 .. exclusive_ttl_seconds
    BY <1>1 DEF DeliveriesKept, TaskTypeOK
  <2> QED
    BY <1>6, <1>7, <2>1, <2>2, LimitsAreNumbers DEF OutlivesLock
<1>14. \A x \in Messages, q \in published : q # p /\ Pending(x, q) => Pending(x, q)'
  BY <1>3, <1>4, <1>5, <1>7, <1>8, <1>9 DEF Pending
<1>15. PeriodsArePending'
  BY <1>1, <1>13, <1>14 DEF DeliveriesKept, PeriodsArePending, PeriodSettled
<1>16. \A x \in Messages : x # n /\ OutlivesLock(x) => OutlivesLock(x)'
  BY <1>1, <1>7, <1>9 DEF OutlivesLock
<1>17. LockedIsPending'
  BY <1>1, <1>5, <1>13, <1>14, <1>16 DEF DeliveriesKept, LockedIsPending, PeriodSettled, Pending
<1> QED
  BY <1>10, <1>11, <1>12, <1>15, <1>17 DEF DeliveriesKept

LEMMA RetriesExceededKeeps ==
  ASSUME DeliveriesKept, NEW w \in Workers, NEW why, RetriesExceeded(w, why)
  PROVE  DeliveriesKept'
<1>1. worker[w].phase = "starting" /\ worker[w] # Idle
  BY PhasesAreBusy DEF RetriesExceeded, NotGranted
<1> QED
  BY <1>1, SettledKeeps DEF RetriesExceeded, Known, Fates

LEMMA ReleasedByItsOwner ==
  ASSUME DeliveriesKept, NEW w \in Workers, worker[w].phase = "body"
  PROVE  Released(w) = Free /\ \A v \in Workers : v # w => worker[v].phase # "body"
  BY DEF DeliveriesKept, LeaseOutlivesBody, Released

LEMMA CompleteKeeps ==
  ASSUME DeliveriesKept, NEW w \in Workers, Complete(w)
  PROVE  DeliveriesKept'
<1>1. /\ worker[w].phase = "body" /\ worker[w] # Idle /\ lock' = Free
      /\ worker' = [worker EXCEPT ![w].phase = "ended"]
      /\ fate' = [fate EXCEPT ![RunOf(w)] = @ \union {"done"}]
      /\ UNCHANGED <<message, published>>
  BY PhasesAreBusy, ReleasedByItsOwner DEF Complete, Known, Phase
<1>2. PICK p \in Periods : p = RunOf(w)
  BY <1>1, BusyWorker
<1>3. /\ p \in published /\ worker[w] \in Working /\ message[At(w)].of = p
  BY <1>1, <1>2, BusyWorker DEF RunOf
<1>4. /\ fate' \in [Periods -> SUBSET Fates] /\ "done" \in fate'[p]
      /\ \A q \in Periods : fate[q] \subseteq fate'[q]
  BY <1>1, <1>2 DEF DeliveriesKept, TaskTypeOK, Fates
<1>5. /\ worker'[w] = [worker[w] EXCEPT !.phase = "ended"] /\ worker'[w] \in Working
      /\ worker'[w] # Idle /\ worker'[w].phase = "ended" /\ worker'[w].at = worker[w].at
      /\ \A v \in Workers : v # w => worker'[v] = worker[v]
  BY <1>1, <1>3 DEF DeliveriesKept, Delivered, Working, Idle
<1>6. \A v \in Workers : At(v)' = At(v) /\ (worker'[v] # Idle <=> worker[v] # Idle)
  BY <1>1, <1>5 DEF At
<1>7. TaskTypeOK'
  <2>1. \A v \in Workers : worker'[v] = Idle \/
          /\ worker'[v] \in Working
          /\ message'[At(v)'] # NoMessage /\ message'[At(v)'].taken
    BY <1>1, <1>5, <1>6, BusyWorker
  <2>2. \A v, x \in Workers : v # x /\ worker'[v] # Idle /\ worker'[x] # Idle => At(v)' # At(x)'
    BY <1>6 DEF DeliveriesKept, TaskTypeOK
  <2>3. lock' \in [holder : Workers \union {NoOne}, lease : 0 .. exclusive_ttl_seconds,
                   of : Periods \union {NoOne}]
    BY <1>1, LimitsAreNumbers DEF Free
  <2> QED
    BY <1>1, <1>4, <2>1, <2>2, <2>3 DEF DeliveriesKept, TaskTypeOK, Working
<1>8. Delivered'
  BY <1>1, <1>5 DEF DeliveriesKept, Delivered, MessageRecord
<1>9. LeaseOutlivesBody'
  BY <1>1, <1>5, ReleasedByItsOwner DEF LeaseOutlivesBody
<1>10. \A n \in Messages, q \in published : q # p /\ Pending(n, q) => Pending(n, q)'
  BY <1>1, <1>3, <1>5, <1>6 DEF Pending
<1>11. PeriodSettled(p)' /\ \A q \in Periods : PeriodSettled(q) => PeriodSettled(q)'
  BY <1>4 DEF PeriodSettled
<1>12. PeriodsArePending'
  BY <1>1, <1>10, <1>11 DEF DeliveriesKept, PeriodsArePending, TaskTypeOK
<1>13. LockedIsPending'
  BY <1>1 DEF LockedIsPending
<1> QED
  BY <1>7, <1>8, <1>9, <1>12, <1>13 DEF DeliveriesKept

\* What is acknowledged at the end was completed, or is retried under another message.
LEMMA EndKeeps ==
  ASSUME DeliveriesKept, NEW w \in Workers, End(w)
  PROVE  DeliveriesKept'
<1>1. /\ worker[w].phase = "ended" /\ worker[w] # Idle /\ Acknowledged(w)
      /\ UNCHANGED <<lock, published, fate>>
  BY PhasesAreBusy DEF End
<1>2. PICK p \in Periods : p = RunOf(w) /\ p \in published
  BY <1>1, BusyWorker
<1>3. PICK m : m = At(w)
  OBVIOUS
<1>4. \A n \in Messages, q \in published : Pending(n, q) => n # m
  BY <1>1, <1>3 DEF Pending
<1>5. PeriodSettled(p) => PeriodSettled(p)'
  BY <1>1 DEF PeriodSettled
<1>6. \/ PeriodSettled(p)
      \/ /\ \E n \in Messages : n # m /\ Pending(n, p)
         /\ lock # Free /\ lock.of = p =>
              \E n \in Messages : n # m /\ Pending(n, p) /\ OutlivesLock(n)
  BY <1>2, <1>4 DEF DeliveriesKept, PeriodsArePending, LockedIsPending
<1>7. fate' \in [Periods -> SUBSET Fates] /\ \A q \in Periods : fate[q] \subseteq fate'[q]
  BY <1>1 DEF DeliveriesKept, TaskTypeOK
<1> QED
  BY <1>1, <1>2, <1>3, <1>5, <1>6, <1>7, AcknowledgedKeeps

\* Without retries an exception of the body is final.
LEMMA DeadLetteredAtOnce ==
  ASSUME DeliveriesKept, NEW w \in Workers, worker[w] # Idle
  PROVE  max_retries > 0 \/ DeadLettered(w) = {"dead letter"}
<1>1. message[At(w)].retries \in 0 .. max_retries
  BY BusyWorker DEF MessageRecord
<1>2. max_retries > 0 \/ message[At(w)].retries >= max_retries
  BY <1>1, LimitsAreNumbers
<1> QED
  BY <1>2 DEF DeadLettered

LEMMA RaiseKeeps ==
  ASSUME DeliveriesKept, NEW w \in Workers, NEW heartbeat \in {{}, {"failure heartbeat"}},
         Raise(w, heartbeat)
  PROVE  DeliveriesKept'
<1> DEFINE what == heartbeat \union DeadLettered(w) \union {"raised"}
<1>1. /\ worker[w].phase = "body" /\ worker[w] # Idle /\ lock' = Free /\ Acknowledged(w)
      /\ published' = published
      /\ fate' = [fate EXCEPT ![RunOf(w)] = @ \union heartbeat \union DeadLettered(w) \union {"raised"}]
  BY PhasesAreBusy, ReleasedByItsOwner DEF Raise
<1>2. fate' = [fate EXCEPT ![RunOf(w)] = @ \union what]
  <2>1. fate[RunOf(w)] \union what
          = fate[RunOf(w)] \union heartbeat \union DeadLettered(w) \union {"raised"}
    OBVIOUS
  <2> QED
    BY <1>1, <2>1
<1>3. what \in SUBSET Fates /\ "raised" \in what
  BY DEF DeadLettered, Fates
<1>4. max_retries > 0 \/ "dead letter" \in what
  BY <1>1, DeadLetteredAtOnce
<1> QED
  BY <1>1, <1>2, <1>3, <1>4, SettledKeeps

LEMMA HardLimitKeeps ==
  ASSUME DeliveriesKept, NEW w \in Workers, HardLimit(w)
  PROVE  DeliveriesKept'
  BY SettledKeeps DEF HardLimit, Known, Fates
-----------------------------------------------------------------------------
(* Time. *)

\* The lock of a body is still there at the next tick, with the lease it then needs.
LEMMA TickKeepsBodies ==
  ASSUME DeliveriesKept, TaskTick, NEW w \in Workers, worker[w].phase = "body"
  PROVE  /\ lock'.holder = w
         /\ lock'.lease + worker'[w].elapsed >= exclusive_ttl_seconds
<1>1. /\ worker[w] # Idle /\ worker[w] \in Working /\ worker[w].elapsed < time_limit
      /\ worker'[w] = [worker[w] EXCEPT !.elapsed = @ + 1]
  BY BusyWorker, PhasesAreBusy DEF TaskTick
<1>2. worker[w].elapsed \in Nat /\ worker'[w].elapsed = worker[w].elapsed + 1
  BY <1>1, LimitsAreNumbers DEF Working
<1>3. /\ lock.lease \in Nat /\ lock.holder = w
      /\ lock.lease + worker[w].elapsed >= exclusive_ttl_seconds
  BY LimitsAreNumbers DEF DeliveriesKept, TaskTypeOK, LeaseOutlivesBody
<1>4. lock.lease > 1 /\ Shortened(lock.lease) = lock.lease - 1
  BY <1>1, <1>2, <1>3, LimitsAreNumbers DEF Shortened
<1>5. lock' = [lock EXCEPT !.lease = lock.lease - 1]
  BY <1>3, <1>4 DEF TaskTick
<1>6. lock'.holder = w /\ lock'.lease = lock.lease - 1
  BY <1>3, <1>5 DEF DeliveriesKept, TaskTypeOK
<1> QED
  BY <1>2, <1>3, <1>6, LimitsAreNumbers

LEMMA TickKeeps ==
  ASSUME DeliveriesKept, TaskTick
  PROVE  DeliveriesKept'
<1>1. published' = published /\ fate' = fate /\ MessageRecord' = MessageRecord
  BY DEF TaskTick, MessageRecord
<1>2. \A m \in Messages :
        \/ message[m] = NoMessage /\ message'[m] = NoMessage
        \/ /\ message[m] \in MessageRecord /\ message[m] # NoMessage
           /\ message'[m] = [message[m] EXCEPT !.eta = IF @ > 0 THEN @ - 1 ELSE 0]
  BY DEF DeliveriesKept, Delivered, TaskTick
<1>3. \A m \in Messages : message[m] # NoMessage =>
        /\ message'[m] \in MessageRecord /\ message'[m] # NoMessage
        /\ message'[m].of = message[m].of /\ message'[m].taken = message[m].taken
        /\ message'[m].redelivered = message[m].redelivered
        /\ message[m].eta \in Nat
        /\ message'[m].eta = IF message[m].eta > 0 THEN message[m].eta - 1 ELSE 0
  <2>1. SUFFICES ASSUME NEW m \in Messages, message[m] # NoMessage
                 PROVE  /\ message'[m] \in MessageRecord /\ message'[m] # NoMessage
                        /\ message'[m].of = message[m].of /\ message'[m].taken = message[m].taken
                        /\ message'[m].redelivered = message[m].redelivered
                        /\ message[m].eta \in Nat
                        /\ message'[m].eta = IF message[m].eta > 0 THEN message[m].eta - 1 ELSE 0
    OBVIOUS
  <2> DEFINE sooner == IF message[m].eta > 0 THEN message[m].eta - 1 ELSE 0
  <2>2. message[m] \in MessageRecord /\ message'[m] = [message[m] EXCEPT !.eta = sooner]
    BY <1>2, <2>1
  <2>3. message[m].eta \in Nat /\ sooner \in 0 .. Countdown
    BY <2>2, LimitsAreNumbers DEF MessageRecord
  <2> HIDE DEF sooner
  <2>4. message'[m] \in MessageRecord /\ message'[m].eta = sooner
    BY <2>2, <2>3 DEF MessageRecord
  <2>5. message'[m] # NoMessage
    BY <2>4 DEF MessageRecord, NoMessage
  <2> QED
    BY <2>2, <2>3, <2>4, <2>5 DEF MessageRecord, sooner
<1>4. \A w \in Workers :
        \/ worker[w] = Idle /\ worker'[w] = Idle
        \/ /\ worker[w] # Idle /\ worker'[w] = [worker[w] EXCEPT !.elapsed = @ + 1]
           /\ worker'[w] \in Working /\ worker'[w] # Idle
           /\ worker'[w].phase = worker[w].phase /\ worker'[w].at = worker[w].at
  <2>1. SUFFICES ASSUME NEW w \in Workers, worker[w] # Idle
                 PROVE  /\ worker'[w] = [worker[w] EXCEPT !.elapsed = @ + 1]
                        /\ worker'[w] \in Working /\ worker'[w] # Idle
                        /\ worker'[w].phase = worker[w].phase /\ worker'[w].at = worker[w].at
    BY DEF TaskTick
  <2>2. /\ worker[w] \in Working /\ worker[w].elapsed < time_limit
        /\ worker'[w] = [worker[w] EXCEPT !.elapsed = worker[w].elapsed + 1]
    BY <2>1, BusyWorker DEF TaskTick
  <2>3. worker[w].elapsed + 1 \in 0 .. time_limit
    BY <2>2, LimitsAreNumbers DEF Working
  <2>4. worker'[w] \in Working
    BY <2>2, <2>3 DEF Working
  <2> QED
    BY <2>1, <2>2, <2>4 DEF Working, Idle
<1>5. \A w \in Workers :
        /\ worker'[w] # Idle <=> worker[w] # Idle
        /\ worker[w] # Idle => At(w)' = At(w)
        /\ \A phase \in {"starting", "body", "ended"} :
              worker'[w].phase = phase <=> worker[w].phase = phase
  BY <1>4 DEF At
<1>6. lock' = Free \/ /\ lock' = [lock EXCEPT !.lease = lock.lease - 1]
                      /\ lock.lease - 1 > 0 /\ lock.lease \in 0 .. exclusive_ttl_seconds
  <2>1. lock.lease \in 0 .. exclusive_ttl_seconds
    BY DEF DeliveriesKept, TaskTypeOK
  <2> QED
    BY <2>1, LimitsAreNumbers DEF TaskTick, Shortened
<1>7. TaskTypeOK'
  <2>1. \A m \in Messages : message'[m] = NoMessage \/ message'[m] \in MessageRecord
    BY <1>2, <1>3
  <2>2. \A v \in Workers : worker'[v] = Idle \/
          /\ worker'[v] \in Working
          /\ message'[At(v)'] # NoMessage /\ message'[At(v)'].taken
    <3>1. SUFFICES ASSUME NEW v \in Workers, worker'[v] # Idle
                   PROVE  /\ worker'[v] \in Working
                          /\ message'[At(v)'] # NoMessage /\ message'[At(v)'].taken
      OBVIOUS
    <3>2. worker[v] # Idle /\ At(v)' = At(v) /\ worker'[v] \in Working
      BY <1>4, <1>5, <3>1
    <3>3. At(v) \in Messages /\ message[At(v)] # NoMessage /\ message[At(v)].taken
      BY <3>2, BusyWorker
    <3>4. \A m \in Messages : message[m] # NoMessage /\ message[m].taken =>
            message'[m] # NoMessage /\ message'[m].taken
      BY <1>3
    <3> QED
      BY <3>2, <3>3, <3>4
  <2>3. \A v, x \in Workers : v # x /\ worker'[v] # Idle /\ worker'[x] # Idle => At(v)' # At(x)'
    BY <1>5 DEF DeliveriesKept, TaskTypeOK
  <2>4. lock' \in [holder : Workers \union {NoOne}, lease : 0 .. exclusive_ttl_seconds,
                   of : Periods \union {NoOne}]
    <3>1. CASE lock' = Free
      BY <3>1, LimitsAreNumbers DEF Free
    <3>2. CASE lock' # Free
      <4>1. lock.lease - 1 \in 0 .. exclusive_ttl_seconds
        BY <1>6, <3>2, LimitsAreNumbers
      <4> QED
        BY <1>6, <3>2, <4>1 DEF DeliveriesKept, TaskTypeOK
    <3> QED
      BY <3>1, <3>2
  <2> QED
    BY <1>1, <2>1, <2>2, <2>3, <2>4 DEF DeliveriesKept, TaskTypeOK, MessageRecord, Working
<1>8. Delivered'
  <2>1. message' \in [Messages -> MessageRecord' \union {NoMessage}]
    BY <1>1, <1>2, <1>3 DEF TaskTick
  <2>2. worker' \in [Workers -> Working \union {Idle}]
    BY <1>4 DEF TaskTick
  <2>3. \A m \in Messages : message'[m] # NoMessage /\ message'[m].taken => message'[m].eta = 0
    <3>1. SUFFICES ASSUME NEW m \in Messages, message'[m] # NoMessage, message'[m].taken
                   PROVE  message'[m].eta = 0
      OBVIOUS
    <3>2. message[m] # NoMessage /\ message[m].taken /\ message[m].eta = 0
      BY <1>2, <1>3, <3>1 DEF DeliveriesKept, Delivered
    <3> QED
      BY <1>3, <3>2
  <2> QED
    BY <2>1, <2>2, <2>3 DEF Delivered, Working
<1>9. LeaseOutlivesBody'
  BY <1>5, TickKeepsBodies DEF LeaseOutlivesBody
<1>10. \A m \in Messages, p \in published : Pending(m, p) => Pending(m, p)'
  BY <1>3, <1>5, PhasesAreBusy DEF Pending
<1>11. PeriodsArePending'
  BY <1>1, <1>10 DEF DeliveriesKept, PeriodsArePending, PeriodSettled
<1>12. ASSUME NEW m \in Messages, message[m] # NoMessage, OutlivesLock(m), lock' # Free
       PROVE  OutlivesLock(m)'
  <2>1. CASE message[m].redelivered
    BY <1>3, <1>12, <2>1 DEF OutlivesLock
  <2>2. CASE message[m].eta > 0 /\ message[m].eta >= lock.lease
    <3>1. lock'.lease = lock.lease - 1 /\ lock.lease - 1 > 0 /\ lock.lease \in Nat
      BY <1>6, <1>12, LimitsAreNumbers DEF DeliveriesKept, TaskTypeOK
    <3>2. message'[m].eta = message[m].eta - 1 /\ message[m].eta \in Nat
      BY <1>3, <1>12, <2>2
    <3> QED
      BY <2>2, <3>1, <3>2 DEF OutlivesLock
  <2>3. CASE \E w \in Workers : worker[w].phase = "body" /\ At(w) = m
    BY <1>5, <2>3, PhasesAreBusy DEF OutlivesLock
  <2> QED
    BY <1>12, <2>1, <2>2, <2>3 DEF OutlivesLock
<1>13. LockedIsPending'
  <2>1. SUFFICES ASSUME lock' # Free
                 PROVE  /\ lock'.of \in published
                        /\ PeriodSettled(lock.of) \/
                              \E m \in Messages : Pending(m, lock.of)' /\ OutlivesLock(m)'
                        /\ lock'.of = lock.of
    BY <1>1 DEF LockedIsPending, PeriodSettled, Pending
  <2>2. lock'.of = lock.of /\ lock # Free
    <3>1. lock'.of = lock.of
      BY <1>6, <2>1 DEF DeliveriesKept, TaskTypeOK
    <3> QED
      BY <1>6, <2>1, <3>1 DEF Free
  <2> QED
    BY <1>10, <1>12, <2>1, <2>2 DEF DeliveriesKept, LockedIsPending, Pending
<1> QED
  BY <1>7, <1>8, <1>9, <1>11, <1>13 DEF DeliveriesKept
-----------------------------------------------------------------------------
LEMMA TaskNextKeeps == DeliveriesKept /\ [TaskNext]_task_vars => DeliveriesKept'
<1> SUFFICES ASSUME DeliveriesKept, [TaskNext]_task_vars PROVE DeliveriesKept'
  OBVIOUS
<1>1. CASE UNCHANGED task_vars
  <2>1. UNCHANGED <<message, worker, lock, published, fate>>
    BY <1>1 DEF task_vars
  <2>2. TaskTypeOK'
    BY <2>1 DEF DeliveriesKept, TaskTypeOK, At
  <2>3. Delivered'
    BY <2>1 DEF DeliveriesKept, Delivered, MessageRecord, Working
  <2>4. LeaseOutlivesBody'
    BY <2>1 DEF DeliveriesKept, LeaseOutlivesBody
  <2>5. PeriodsArePending'
    <3>1. \A n \in Messages, p \in published : Pending(n, p) => Pending(n, p)'
      BY <2>1 DEF Pending, At
    <3>2. \A p \in published : PeriodSettled(p) => PeriodSettled(p)'
      BY <2>1 DEF PeriodSettled
    <3> QED
      BY <2>1, <3>1, <3>2 DEF DeliveriesKept, PeriodsArePending
  <2>6. LockedIsPending'
    <3>1. \A n \in Messages : OutlivesLock(n) => OutlivesLock(n)'
      BY <2>1 DEF OutlivesLock, At
    <3>2. \A n \in Messages : Pending(n, lock.of) => Pending(n, lock.of)'
      BY <2>1 DEF Pending, At
    <3>3. PeriodSettled(lock.of) => PeriodSettled(lock.of)'
      BY <2>1 DEF PeriodSettled
    <3> QED
      BY <2>1, <3>1, <3>2, <3>3 DEF DeliveriesKept, LockedIsPending
  <2> QED
    BY <2>2, <2>3, <2>4, <2>5, <2>6 DEF DeliveriesKept
<1>2. CASE \E p \in Periods : Publish(p)
  BY <1>2, PublishKeeps
<1>3. CASE TaskTick
  BY <1>3, TickKeeps
<1>4. ASSUME NEW w \in Workers,
             \/ Deliver(w) \/ WorkerIsLost(w) \/ Acquire(w) \/ Complete(w) \/ End(w)
             \/ HardLimit(w)
      PROVE  DeliveriesKept'
  BY <1>4, DeliverKeeps, WorkerIsLostKeeps, AcquireKeeps, CompleteKeeps, EndKeeps, HardLimitKeeps
<1>5. ASSUME NEW w \in Workers, NEW why \in {"held", "unavailable"},
             SkippedLocked(w, why) \/ Retry(w, why) \/ RetriesExceeded(w, why)
      PROVE  DeliveriesKept'
  BY <1>5, SkipKeeps, RetryKeeps, RetriesExceededKeeps
<1>6. ASSUME NEW w \in Workers, NEW heartbeat \in {{}, {"failure heartbeat"}},
             Raise(w, heartbeat)
      PROVE  DeliveriesKept'
  BY <1>6, RaiseKeeps
<1> QED
  BY <1>1, <1>2, <1>3, <1>4, <1>5, <1>6 DEF TaskNext

LEMMA DeliveriesKeepRuns == DeliveriesKept => RunsAreKept
<1>1. LeaseOutlivesBody => OneBodyAtATime
  BY DEF LeaseOutlivesBody, OneBodyAtATime
<1>2. PeriodsArePending => NoRunIsLost
  BY DEF PeriodsArePending, NoRunIsLost, PeriodSettled, Pending
<1> QED
  BY <1>1, <1>2 DEF DeliveriesKept, RunsAreKept

\* A periodic task has one run at a time, and no period's run is lost with its worker,
\* whatever messages are delivered again, retried or dropped for a lock (task_lock,
\* run_monitored_task, celery_app.py).
THEOREM RunsStayKept == TaskSpec => []RunsAreKept
<1>1. TaskInit => DeliveriesKept
  BY TaskInitKeeps
<1>2. DeliveriesKept /\ [TaskNext]_task_vars => DeliveriesKept'
  BY TaskNextKeeps
<1> QED
  BY <1>1, <1>2, DeliveriesKeepRuns, PTL DEF TaskSpec

(***************************************************************************)
(* The scheduled reconciler.                                               *)
(***************************************************************************)
RunRecord == [sole: BOOLEAN, bound: SUBSET Range(Connections),
              queue: [Range(Connections) -> SUBSET Orders],
              round: SUBSET Range(Connections), stopped: SUBSET Range(Connections),
              failed: [Range(Connections) -> Nat],
              attempted: 0 .. BatchLimit, used: 0 .. RunBudget,
              reported: SUBSET (Orders \X (Outcomes \cup {"local_error"})),
              out_of_scope: SUBSET Orders]

\* A run keeps to its accounts and to its batch, and reports what is saved.
RunKept(r) ==
  /\ r \in RunRecord
  /\ r.round \subseteq r.bound /\ r.stopped \subseteq r.bound
  /\ \A c \in r.bound : Cardinality(r.queue[c]) <= BatchLimit

Runs ==
  IF reconciler = NotRunning THEN saved = {} ELSE RunKept(reconciler) /\ reconciler.reported = saved

\* The wait covers what the broker asked for, and is that of a level.
WaitCovers(r) == r.asked > 0 => r.level > 0 /\ r.wait >= r.asked

\* What a row was settled from is its own account's, or both have none on record.
FromHome(r, o) ==
  r.from # None =>
    \/ r.from = AccountOf[o]
    \/ o \notin known /\ \E c \in Range(Connections) \ known : AccountOf[c] = r.from

RowKept(r, o) == r \in Row /\ WaitCovers(r) /\ FromHome(r, o)

Rows == rows = [o \in Orders |-> rows[o]] /\ \A o \in Orders : RowKept(rows[o], o)

\* The rows stand in one line, each in a place of its own.
Lined == line \in Injection(Orders, 1 .. Cardinality(Orders))

Rest ==
  /\ known \subseteq Range(Connections) \cup Orders
  /\ conn \in [Range(Connections) -> {"on", "off"}]
  /\ saved \subseteq Orders \X (Outcomes \cup {"local_error"})

\* The inductive invariant.
Kept == Rows /\ Lined /\ Rest /\ Runs

-----------------------------------------------------------------------------
(* Every inhabited set of natural numbers has a least element. *)
LEMMA LeastOfASet ==
  ASSUME NEW T \in SUBSET Nat, T # {}
  PROVE  \E x \in T : \A y \in T : x <= y
<1>1. PICK R : R = OpToRel(<, Nat)
  OBVIOUS
<1>2. IsWellFoundedOn(R, Nat)
  BY <1>1, NatLessThanWellFounded
<1>3. PICK x \in T : \A y \in T : ~ (<<y, x>> \in R)
  BY <1>2, WFMin
<1>4. \A a, b \in Nat : a < b => <<a, b>> \in R
  BY <1>1 DEF OpToRel
<1>5. ASSUME NEW y \in T PROVE x <= y
  <2>1. ~(y < x)
    BY <1>3, <1>4, Zenon
  <2> QED
    BY <2>1
<1> QED
  BY <1>3, <1>5

LEMMA MinIsLeast ==
  ASSUME NEW T \in SUBSET Nat, T # {}
  PROVE  Min(T) \in T /\ \A y \in T : Min(T) <= y
  BY LeastOfASet DEF Min

LEMMA OrdersAreCounted == Cardinality(Orders) \in Nat
  BY EachOnce, FS_CardinalityType

\* The steps are numbers, and the last is the longest.
LEMMA LastIsLongest ==
  /\ MaxLevel \in Nat \ {0}
  /\ \A l \in 1 .. MaxLevel : Steps[l] \in Nat \ {0} /\ Steps[l] <= Steps[MaxLevel]
<1>1. MaxLevel \in Nat \ {0} /\ \A l \in 1 .. MaxLevel : Steps[l] \in Nat \ {0}
  BY StepsGrow DEF MaxLevel
<1>2. ASSUME NEW l \in 1 .. MaxLevel PROVE Steps[l] <= Steps[MaxLevel]
  <2>1. CASE l = MaxLevel
    BY <1>1, <2>1
  <2>2. CASE l < MaxLevel
    BY <1>1, <2>2, StepsGrow
  <2> QED
    BY <1>1, <2>1, <2>2
<1> QED
  BY <1>1, <1>2

\* What a broker may ask for is within the longest wait.
LEMMA UsableType ==
  ASSUME NEW v \in RetryAfters \cup {None}
  PROVE  usable_retry_after(v) \in 0 .. Steps[MaxLevel]
<1>0. MaxLevel \in Nat \ {0} /\ Steps[MaxLevel] \in Nat \ {0}
  BY LastIsLongest
<1>1. CASE v = None \/ v <= 0
  BY <1>0, <1>1 DEF usable_retry_after
<1>2. CASE ~(v = None \/ v <= 0)
  <2>1. v \in Nat
    BY <1>2, Quantities
  <2>2. Min({v, Steps[MaxLevel]}) \in {v, Steps[MaxLevel]}
        /\ Min({v, Steps[MaxLevel]}) <= Steps[MaxLevel]
    BY <1>0, <2>1, MinIsLeast
  <2> QED
    BY <1>0, <1>2, <2>1, <2>2 DEF usable_retry_after
<1> QED
  BY <1>1, <1>2

\* The level after an attempt has a wait that covers what the broker asked for.
LEMMA LevelCovers ==
  ASSUME NEW level \in 0 .. MaxLevel, NEW v \in RetryAfters \cup {None}
  PROVE  /\ level_after_unsettled_attempt(level, v) \in 1 .. MaxLevel
         /\ usable_retry_after(v) <= Steps[level_after_unsettled_attempt(level, v)]
<1> DEFINE up == Min({level + 1, MaxLevel})
<1>0. MaxLevel \in Nat \ {0}
  BY LastIsLongest
<1>1. up \in 1 .. MaxLevel
  <2>1. {level + 1, MaxLevel} \in SUBSET Nat
    BY <1>0
  <2>2. up \in {level + 1, MaxLevel} /\ up <= MaxLevel
    BY <2>1, MinIsLeast
  <2> QED
    BY <1>0, <2>2
<1>2. PICK U : U = {l \in up .. MaxLevel : Steps[l] >= usable_retry_after(v)} \cup {MaxLevel}
  OBVIOUS
<1>6. U \in SUBSET (1 .. MaxLevel) /\ U # {}
  BY <1>0, <1>1, <1>2
<1>3. Min(U) \in U
  <2>1. U \in SUBSET Nat
    BY <1>0, <1>6
  <2> QED
    BY <1>6, <2>1, MinIsLeast
<1>4. \A l \in U : usable_retry_after(v) <= Steps[l]
  <2>1. usable_retry_after(v) \in 0 .. Steps[MaxLevel]
    BY UsableType
  <2>2. Steps[MaxLevel] \in Nat
    BY LastIsLongest
  <2>3. \A l \in 1 .. MaxLevel : Steps[l] \in Nat
    BY LastIsLongest
  <2> QED
    BY <1>1, <1>2, <2>1, <2>2, <2>3
<1>5. level_after_unsettled_attempt(level, v) = Min(U)
  BY <1>2 DEF level_after_unsettled_attempt
<1> QED
  BY <1>3, <1>4, <1>5, <1>6

\* The first of a line are no more than a batch.
LEMMA ForemostIsABatch ==
  ASSUME Lined, NEW s \in SUBSET Orders
  PROVE  Cardinality(Foremost(s)) <= BatchLimit
<1>0. BatchLimit \in Nat
  BY Quantities
<1>1. Foremost(s) \in SUBSET s /\ IsFiniteSet(s)
  BY EachOnce, FS_Subset DEF Foremost
<1>2. IsFiniteSet(Foremost(s)) /\ Cardinality(Foremost(s)) \in Nat
  BY <1>1, FS_Subset, FS_CardinalityType
<1>3. CASE Foremost(s) = {}
  BY <1>0, <1>3, FS_EmptySet
<1>4. CASE Foremost(s) # {}
  <2>1. PICK N : N = Cardinality(Orders)
    OBVIOUS
  <2>2. N \in Nat /\ \A o \in Orders : line[o] \in 1 .. N
    BY <2>1, OrdersAreCounted DEF Lined, Injection
  <2>3. PICK T : T = {N - line[o] : o \in Foremost(s)}
    OBVIOUS
  <2>4. T \in SUBSET Nat /\ T # {}
    BY <1>1, <1>4, <2>2, <2>3
  <2>5. PICK x \in T : \A y \in T : x <= y
    BY <2>4, LeastOfASet
  <2>6. PICK last \in Foremost(s) : x = N - line[last]
    BY <2>3
  <2>7. ASSUME NEW o \in Foremost(s) PROVE line[o] <= line[last]
    <3>1. N - line[last] <= N - line[o]
      BY <2>3, <2>5, <2>6
    <3>2. line[o] \in 1 .. N /\ line[last] \in 1 .. N
      BY <1>1, <2>2
    <3> QED
      BY <2>2, <3>1, <3>2
  <2>8. PICK B : B = {p \in s : line[p] < line[last]}
    OBVIOUS
  <2>9. Cardinality(B) < BatchLimit
    BY <2>8 DEF Foremost
  <2>10. IsFiniteSet(B) /\ Cardinality(B) \in Nat
    BY <1>1, <2>8, FS_Subset, FS_CardinalityType
  <2>11. Foremost(s) \ {last} \in SUBSET B
    BY <1>1, <2>2, <2>7, <2>8 DEF Lined, Injection, IsInjective
  <2>12. Cardinality(Foremost(s) \ {last}) <= Cardinality(B)
    BY <2>10, <2>11, FS_Subset
  <2>13. Cardinality(Foremost(s) \ {last}) = Cardinality(Foremost(s)) - 1
    BY <1>2, <2>6, FS_RemoveElement
  <2> QED
    BY <1>0, <1>2, <2>9, <2>10, <2>12, <2>13
<1> QED
  BY <1>3, <1>4

LEMMA InitKept == Init => Kept
<1> SUFFICES ASSUME Init PROVE Kept
  OBVIOUS
<1>0. MaxLevel \in Nat \ {0} /\ Steps[MaxLevel] \in Nat \ {0} /\ RaiseAgain \in Nat \ {0}
  BY LastIsLongest, Quantities
<1>1. Rows
  <2>1. ASSUME NEW o \in Orders PROVE RowKept(rows[o], o)
    <3>1. rows[o] = [status |-> IF o \in Unknowns THEN "submission_unknown" ELSE "open",
                     id |-> o \notin Unknowns, recent |-> o \in Unknowns,
                     level |-> 0, wait |-> 0, asked |-> 0, raised |-> 0, from |-> None]
      BY DEF Init
    <3>2. 0 \in 0 .. MaxLevel /\ 0 \in 0 .. Steps[MaxLevel] /\ 0 \in 0 .. RaiseAgain
      BY <1>0
    <3>3. rows[o] \in Row
      BY <3>1, <3>2 DEF Row
    <3>4. WaitCovers(rows[o]) /\ FromHome(rows[o], o)
      BY <3>1 DEF WaitCovers, FromHome
    <3> QED
      BY <3>3, <3>4 DEF RowKept
  <2> QED
    BY <2>1 DEF Init, Rows
<1>2. Lined
  <2>1. ExistsBijection(1 .. Cardinality(Orders), Orders)
    BY EachOnce, FS_CardinalityType
  <2>2. PICK f : f \in Bijection(1 .. Cardinality(Orders), Orders)
    BY <2>1 DEF ExistsBijection
  <2>3. Inverse(f, 1 .. Cardinality(Orders), Orders)
          \in Bijection(Orders, 1 .. Cardinality(Orders))
    BY <2>2, Fun_BijInverse
  <2>4. Injection(Orders, 1 .. Cardinality(Orders)) # {}
    BY <2>3 DEF Bijection
  <2> QED
    BY <2>4 DEF Init, Lined
<1>3. Rest /\ Runs
  BY DEF Init, Rest, Runs
<1> QED
  BY <1>1, <1>2, <1>3 DEF Kept

-----------------------------------------------------------------------------
(* A run. *)

LEMMA StartKept ==
  ASSUME Kept, StartRun
  PROVE  Rest' /\ Runs'
<1>1. reconciler = NotRunning /\ saved = {} /\ UNCHANGED <<rows, line, known, saved>>
  BY DEF Kept, Runs, StartRun
<1>2. PICK refused \in SUBSET active_connections :
       LET sole == unscoped_orders_are_readable(Cardinality(active_connections))
           opened == active_connections \ refused
           b == _bind(opened, sole)
       IN /\ conn' = [c \in DOMAIN conn |-> IF c \in refused THEN "off" ELSE conn[c]]
          /\ reconciler' = IF opened = {} \/ ~OneAccountEach(b) THEN NotRunning
                    ELSE [sole |-> sole, bound |-> b,
                          queue |-> [c \in Range(Connections) |->
                              IF c \in b THEN Foremost({o \in Orders : due(o, c, sole)}) ELSE {}],
                          round |-> {}, stopped |-> {},
                          failed |-> [c \in Range(Connections) |-> 0],
                          attempted |-> 0, used |-> 0,
                          reported |-> {}, out_of_scope |-> _out_of_scope(b, sole)]
  BY DEF StartRun
<1>3. PICK sole : sole = unscoped_orders_are_readable(Cardinality(active_connections))
  OBVIOUS
<1>4. PICK b : b = _bind(active_connections \ refused, sole)
  OBVIOUS
<1>5. b \subseteq Range(Connections) /\ sole \in BOOLEAN
  BY <1>3, <1>4 DEF _bind, active_connections, unscoped_orders_are_readable
<1>6. Rest'
  BY <1>1, <1>2 DEF Kept, Rest
<1>7. CASE reconciler' = NotRunning
  BY <1>1, <1>6, <1>7 DEF Runs
<1>8. CASE reconciler' # NotRunning
  <2>1. PICK q : q = [c \in Range(Connections) |->
                        IF c \in b THEN Foremost({o \in Orders : due(o, c, sole)}) ELSE {}]
    OBVIOUS
  <2>2. reconciler' = [sole |-> sole, bound |-> b, queue |-> q,
                round |-> {}, stopped |-> {},
                failed |-> [c \in Range(Connections) |-> 0],
                attempted |-> 0, used |-> 0,
                reported |-> {}, out_of_scope |-> _out_of_scope(b, sole)]
    BY <1>2, <1>3, <1>4, <1>8, <2>1
  <2>3. q \in [Range(Connections) -> SUBSET Orders]
    BY <2>1 DEF Foremost
  <2>4. \A c \in b : Cardinality(q[c]) <= BatchLimit
    <3> SUFFICES ASSUME NEW c \in b PROVE Cardinality(q[c]) <= BatchLimit
      OBVIOUS
    <3>1. PICK d : d = {o \in Orders : due(o, c, sole)}
      OBVIOUS
    <3>2. q[c] = Foremost(d)
      BY <1>5, <2>1, <3>1
    <3> QED
      BY <3>1, <3>2, ForemostIsABatch DEF Kept
  <2>5. 0 \in 0 .. BatchLimit /\ 0 \in 0 .. RunBudget
    BY Quantities
  <2>6. _out_of_scope(b, sole) \subseteq Orders
    BY DEF _out_of_scope
  <2>7. [c \in Range(Connections) |-> 0] \in [Range(Connections) -> Nat]
    OBVIOUS
  <2>8. reconciler' \in RunRecord
    BY <1>5, <2>2, <2>3, <2>5, <2>6, <2>7 DEF RunRecord
  <2>9. RunKept(reconciler')
    BY <2>2, <2>4, <2>8 DEF RunKept
  <2> QED
    BY <1>1, <1>6, <1>8, <2>2, <2>9 DEF Runs
<1> QED
  BY <1>7, <1>8

\* A turn is one of an account of the run, within the run's bounds.
LEMMA TurnIsOfTheRun ==
  ASSUME Runs, NEW c \in Range(Connections), NEW o \in Orders, Turn(c, o)
  PROVE  /\ reconciler # NotRunning /\ RunKept(reconciler) /\ reconciler.reported = saved
         /\ c \in reconciler.bound /\ Round \subseteq reconciler.bound
         /\ reconciler.attempted + 1 \in 0 .. BatchLimit /\ reconciler.used + 1 \in 0 .. RunBudget
<1>1. reconciler # NotRunning /\ RunKept(reconciler) /\ reconciler.reported = saved
  BY DEF Runs, Turn
<1>2. Round \subseteq reconciler.bound /\ c \in Round
  BY <1>1 DEF Round, Waiting, RunKept, Turn
<1>3. /\ reconciler.attempted \in 0 .. BatchLimit /\ reconciler.used \in 0 .. RunBudget
      /\ reconciler.attempted < BatchLimit /\ ~(reconciler.used >= RunBudget)
  BY <1>1 DEF RunKept, RunRecord, Turn, More, OutOfTime
<1>4. reconciler.attempted + 1 \in 0 .. BatchLimit /\ reconciler.used + 1 \in 0 .. RunBudget
  BY <1>3, Quantities
<1> QED
  BY <1>1, <1>2, <1>4

LEMMA TakenKept ==
  ASSUME Runs, NEW c \in Range(Connections), NEW o \in Orders, Turn(c, o)
  PROVE  /\ RunKept(Taken(c, o)) /\ Taken(c, o) # NotRunning
         /\ Taken(c, o).reported = saved /\ Taken(c, o).used = reconciler.used
         /\ Taken(c, o).bound = reconciler.bound
<1>1. /\ RunKept(reconciler) /\ reconciler.reported = saved
      /\ c \in reconciler.bound /\ Round \subseteq reconciler.bound
      /\ reconciler.attempted + 1 \in 0 .. BatchLimit
  BY TurnIsOfTheRun
<1>2. PICK q : q = [reconciler.queue EXCEPT ![c] = @ \ {o}]
  OBVIOUS
<1>3. reconciler \in RunRecord /\ reconciler.queue \in [Range(Connections) -> SUBSET Orders]
  BY <1>1 DEF RunKept, RunRecord
<1>4. q \in [Range(Connections) -> SUBSET Orders]
  BY <1>2, <1>3
<1>5. Taken(c, o) = [reconciler EXCEPT !.queue = q, !.round = Round \ {c}, !.attempted = @ + 1]
  BY <1>2, <1>3 DEF Taken, RunRecord
<1>6. Round \ {c} \subseteq Range(Connections)
  BY <1>1, <1>3 DEF RunRecord
<1>7. Taken(c, o) \in RunRecord
  BY <1>1, <1>3, <1>4, <1>5, <1>6 DEF RunRecord
<1>8. /\ Taken(c, o).queue = q /\ Taken(c, o).round = Round \ {c}
      /\ Taken(c, o).reported = reconciler.reported /\ Taken(c, o).used = reconciler.used
      /\ Taken(c, o).bound = reconciler.bound /\ Taken(c, o).stopped = reconciler.stopped
  BY <1>3, <1>5 DEF RunRecord
<1>9. ASSUME NEW d \in reconciler.bound PROVE Cardinality(q[d]) <= BatchLimit
  <2>1. d \in Range(Connections) /\ reconciler.queue[d] \in SUBSET Orders
        /\ Cardinality(reconciler.queue[d]) <= BatchLimit
    BY <1>1, <1>3 DEF RunKept, RunRecord
  <2>2. q[d] \in SUBSET reconciler.queue[d]
    BY <1>2, <1>3, <2>1
  <2>3. IsFiniteSet(reconciler.queue[d]) /\ IsFiniteSet(q[d])
    BY <2>1, <2>2, EachOnce, FS_Subset
  <2>4. Cardinality(q[d]) <= Cardinality(reconciler.queue[d])
    BY <2>2, <2>3, FS_Subset
  <2>5. Cardinality(q[d]) \in Nat /\ Cardinality(reconciler.queue[d]) \in Nat /\ BatchLimit \in Nat
    BY <2>3, FS_CardinalityType, Quantities
  <2> QED
    BY <2>1, <2>4, <2>5
<1>10. RunKept(Taken(c, o))
  BY <1>1, <1>7, <1>8, <1>9 DEF RunKept
<1>11. Taken(c, o) # NotRunning
  <2>1. "bound" \in DOMAIN Taken(c, o)
    BY <1>7 DEF RunRecord
  <2>2. "bound" \notin DOMAIN NotRunning
    BY DEF NotRunning
  <2> QED
    BY <2>1, <2>2
<1> QED
  BY <1>1, <1>8, <1>10, <1>11

-----------------------------------------------------------------------------
(* One order. *)

\* An order that waits longer waits as long as the broker asked for at least.
LEMMA LongerKept ==
  ASSUME NEW o \in Orders, RowKept(rows[o], o), NEW outcome, NEW v \in RetryAfters \cup {None}
  PROVE  /\ RowKept(_wait_longer(o, outcome, v), o)
         /\ (outcome \in NotSettling /\ _wait_longer(o, outcome, v).level = MaxLevel)
              => _wait_longer(o, outcome, v).raised > 0
<1>1. PICK level : level = level_after_unsettled_attempt(rows[o].level, v)
  OBVIOUS
<1>2. PICK asked : asked = usable_retry_after(v)
  OBVIOUS
<1>3. PICK raise : raise = (level >= MaxLevel /\ outcome \in NotSettling /\ rows[o].raised = 0)
  OBVIOUS
<1>4. rows[o] \in Row /\ rows[o].level \in 0 .. MaxLevel /\ rows[o].raised \in 0 .. RaiseAgain
  BY DEF RowKept, Row
<1>5. level \in 1 .. MaxLevel /\ asked \in 0 .. Steps[MaxLevel] /\ asked <= Steps[level]
  BY <1>1, <1>2, <1>4, LevelCovers, UsableType
<1>6. MaxLevel \in Nat \ {0} /\ Steps[MaxLevel] \in Nat \ {0}
      /\ Steps[level] \in 0 .. Steps[MaxLevel]
  <2>1. MaxLevel \in Nat \ {0} /\ Steps[MaxLevel] \in Nat \ {0}
    BY LastIsLongest
  <2>2. Steps[level] \in Nat \ {0} /\ Steps[level] <= Steps[MaxLevel]
    BY <1>5, LastIsLongest
  <2> QED
    BY <2>1, <2>2
<1>7. PICK raised : raised = IF raise THEN RaiseAgain ELSE rows[o].raised
  OBVIOUS
<1>8. raised \in 0 .. RaiseAgain /\ RaiseAgain \in Nat \ {0}
  BY <1>4, <1>7, Quantities
<1>9. PICK r : r = _wait_longer(o, outcome, v)
  OBVIOUS
<1>10. r = [rows[o] EXCEPT !.level = level, !.wait = Steps[level], !.asked = asked,
                           !.raised = raised]
  BY <1>1, <1>2, <1>3, <1>4, <1>7, <1>9 DEF _wait_longer, Row
<1>11. level \in 0 .. MaxLevel
  BY <1>5, <1>6
<1>12. r \in Row
  BY <1>4, <1>5, <1>6, <1>8, <1>10, <1>11 DEF Row
<1>13. /\ r.level = level /\ r.wait = Steps[level] /\ r.asked = asked /\ r.raised = raised
       /\ r.from = rows[o].from
  BY <1>4, <1>10 DEF Row
<1>14. WaitCovers(r)
  BY <1>5, <1>6, <1>13 DEF WaitCovers
<1>15. FromHome(r, o)
  BY <1>13 DEF RowKept, FromHome
<1>16. ASSUME outcome \in NotSettling, level = MaxLevel PROVE raised > 0
  <2>1. CASE rows[o].raised = 0
    <3>1. level >= MaxLevel
      BY <1>6, <1>16
    <3>2. raise
      BY <1>3, <1>16, <2>1, <3>1
    <3> QED
      BY <1>7, <1>8, <3>2
  <2>2. CASE rows[o].raised # 0
    <3>1. ~raise
      BY <1>3, <2>2
    <3>2. raised = rows[o].raised
      BY <1>7, <3>1
    <3> QED
      BY <1>4, <1>8, <2>2, <3>2
  <2> QED
    BY <2>1, <2>2
<1> QED
  BY <1>9, <1>12, <1>13, <1>14, <1>15, <1>16 DEF RowKept

\* What is settled from a home the order can have been placed at.
LEMMA SettledKept ==
  ASSUME NEW o \in Orders, RowKept(rows[o], o), NEW x \in Range(Connections) \cup Orders,
         FromHome([from |-> AccountOf[x]], o)
  PROVE  RowKept(Settled(o, AccountOf[x]), o)
<1>0. 0 \in 0 .. MaxLevel /\ 0 \in 0 .. Steps[MaxLevel] /\ 0 \in 0 .. RaiseAgain
  BY LastIsLongest, Quantities
<1>1. PICK r : r = Settled(o, AccountOf[x])
  OBVIOUS
<1>2. rows[o] \in Row
  BY DEF RowKept
<1>3. r \in Row
  BY <1>0, <1>1, <1>2 DEF Settled, Row
<1>4. r.asked = 0 /\ r.from = AccountOf[x]
  BY <1>1, <1>2 DEF Settled, Row
<1>5. WaitCovers(r) /\ FromHome(r, o)
  BY <1>4 DEF WaitCovers, FromHome
<1> QED
  BY <1>1, <1>3, <1>5 DEF RowKept

\* An account an order is settled at is its own, or both are without one on record.
LEMMA HomeIsPossible ==
  ASSUME NEW c \in Range(Connections), NEW o \in Orders, NEW sole \in BOOLEAN,
         owns(o, c, sole), CanSettle(c, o)
  PROVE  FromHome([from |-> AccountOf[c]], o)
<1>1. CASE rows[o].id
  BY <1>1 DEF CanSettle, FromHome
<1>2. CASE ~rows[o].id /\ Scope(o) # None
  BY <1>2 DEF owns, Scope, FromHome
<1>3. CASE ~rows[o].id /\ Scope(o) = None
  <2>1. Scope(c) = None
    BY <1>3 DEF owns
  <2>2. o \notin known /\ c \notin known
    BY <1>3, <2>1, NoneIsNoAccount DEF Scope
  <2>3. c \in Range(Connections) \ known
    BY <2>2
  <2>4. [from |-> AccountOf[c]].from = AccountOf[c]
    OBVIOUS
  <2> QED
    BY <2>2, <2>3, <2>4 DEF FromHome
<1> QED
  BY <1>1, <1>2, <1>3

LEMMA RecordKept ==
  ASSUME NEW c \in Range(Connections), NEW o \in Orders, RowKept(rows[o], o),
         NEW sole \in BOOLEAN, due(o, c, sole),
         NEW outcome, Possible(c, o, outcome),
         NEW v \in RetryAfters \cup {None}, NEW row \in _record(c, o, outcome, v)
  PROVE  RowKept(row, o)
<1>0. 0 \in 0 .. MaxLevel /\ 0 \in 0 .. Steps[MaxLevel]
  BY LastIsLongest
<1>1. rows[o] \in Row /\ owns(o, c, sole)
  BY DEF RowKept, due
<1>2. CASE outcome = "unchanged"
  <2>1. row = [rows[o] EXCEPT !.level = 0, !.wait = 0, !.asked = 0]
    BY <1>2 DEF _record
  <2>2. row \in Row
    BY <1>0, <1>1, <2>1 DEF Row
  <2>3. row.asked = 0 /\ row.from = rows[o].from
    BY <1>1, <2>1 DEF Row
  <2> QED
    BY <2>2, <2>3 DEF RowKept, WaitCovers, FromHome
<1>3. CASE outcome = "settled"
  <2>1. CanSettle(c, o)
    BY <1>3 DEF Possible, Answered
  <2>2. FromHome([from |-> AccountOf[c]], o)
    BY <1>1, <2>1, HomeIsPossible
  <2>3. CASE row = Settled(o, AccountOf[c])
    BY <2>2, <2>3, SettledKept
  <2>4. CASE row = [rows[o] EXCEPT !.status = "open", !.id = TRUE, !.from = AccountOf[c],
                                   !.level = 0, !.wait = 0, !.asked = 0]
    <3>1. row \in Row
      BY <1>0, <1>1, <2>4 DEF Row
    <3>2. row.asked = 0 /\ row.from = AccountOf[c]
      BY <1>1, <2>4 DEF Row
    <3> QED
      BY <2>2, <3>1, <3>2 DEF RowKept, WaitCovers, FromHome
  <2> QED
    BY <1>3, <2>3, <2>4 DEF _record
<1>4. CASE outcome # "unchanged" /\ outcome # "settled"
  <2>1. row = _wait_longer(o, outcome, v)
    BY <1>4 DEF _record
  <2> QED
    BY <2>1, LongerKept
<1> QED
  BY <1>2, <1>3, <1>4

\* The line stays one when an order goes to its end.
LEMMA MovedKept ==
  ASSUME Lined, NEW o \in Orders, line' = Moved(o)
  PROVE  Lined'
<1>1. PICK N : N = Cardinality(Orders)
  OBVIOUS
<1>2. N \in Nat /\ line \in [Orders -> 1 .. N]
      /\ \A p, q \in Orders : line[p] = line[q] => p = q
  BY <1>1, OrdersAreCounted DEF Lined, Injection, IsInjective
<1>3. line' = [p \in Orders |-> IF p = o THEN N
                                ELSE IF line[p] > line[o] THEN line[p] - 1 ELSE line[p]]
  BY <1>1 DEF Moved
<1>4. \A p \in Orders : line[p] \in 1 .. N
  BY <1>2
<1>5. ASSUME NEW p \in Orders PROVE line'[p] \in 1 .. N
  BY <1>2, <1>3, <1>4
<1>6. ASSUME NEW p \in Orders, NEW q \in Orders, line'[p] = line'[q] PROVE p = q
  <2>1. line[p] \in 1 .. N /\ line[q] \in 1 .. N /\ line[o] \in 1 .. N
    BY <1>4
  <2>2. (p # o => line[p] # line[o]) /\ (q # o => line[q] # line[o])
    BY <1>2
  <2>3. (p # o /\ q # o) => line[p] = line[q]
    BY <1>2, <1>3, <1>6, <2>1, <2>2
  <2>4. p = o <=> q = o
    BY <1>2, <1>3, <1>6, <2>1, <2>2
  <2> QED
    BY <1>2, <2>3, <2>4
<1>7. line' \in [Orders -> 1 .. N]
  BY <1>3, <1>5
<1> QED
  BY <1>1, <1>6, <1>7 DEF Lined, Injection, IsInjective

LEMMA OneRow ==
  ASSUME Rows, UNCHANGED known, NEW o \in Orders, NEW row, RowKept(row, o),
         rows' = [rows EXCEPT ![o] = row]
  PROVE  Rows'
<1>1. rows = [p \in Orders |-> rows[p]] /\ \A p \in Orders : RowKept(rows[p], p)
  BY DEF Rows
<1>2. rows' = [p \in Orders |-> rows'[p]]
  BY <1>1
<1>3. \A p \in Orders : rows'[p] = IF p = o THEN row ELSE rows[p]
  BY <1>1
<1>4. ASSUME NEW p \in Orders PROVE RowKept(rows[p], p)' 
  <2>1. RowKept(rows'[p], p)
    BY <1>1, <1>3
  <2> QED
    BY <2>1 DEF RowKept, FromHome, WaitCovers
<1> QED
  BY <1>2, <1>4 DEF Rows

-----------------------------------------------------------------------------
(* The steps. *)

\* What stays as it was stays kept.
LEMMA SameRows ==
  ASSUME Rows, UNCHANGED <<rows, known>>
  PROVE  Rows'
BY DEF Rows, RowKept, FromHome, WaitCovers

LEMMA SameLine ==
  ASSUME Lined, UNCHANGED line
  PROVE  Lined'
BY DEF Lined

LEMMA SameRuns ==
  ASSUME Runs, UNCHANGED <<reconciler, saved>>
  PROVE  Runs'
<1>1. CASE reconciler = NotRunning
  BY <1>1 DEF Runs
<1>2. CASE reconciler # NotRunning
  <2>1. RunKept(reconciler) /\ reconciler.reported = saved
    BY <1>2 DEF Runs
  <2>2. RunKept(reconciler')
    BY <2>1
  <2> QED
    BY <1>2, <2>1, <2>2 DEF Runs
<1> QED
  BY <1>1, <1>2

LEMMA TakenRuns ==
  ASSUME Runs, NEW c \in Range(Connections), NEW o \in Orders, Turn(c, o),
         reconciler' = Taken(c, o), UNCHANGED saved
  PROVE  Runs'
<1>1. RunKept(Taken(c, o)) /\ Taken(c, o) # NotRunning /\ Taken(c, o).reported = saved
  BY TakenKept
<1>2. PICK r : r = Taken(c, o)
  OBVIOUS
<1>3. reconciler' = r /\ RunKept(r) /\ r # NotRunning /\ r.reported = saved
  BY <1>1, <1>2
<1> HIDE <1>2
<1>4. RunKept(reconciler') /\ reconciler' # NotRunning /\ reconciler'.reported = saved'
  BY <1>3
<1> QED
  BY <1>4 DEF Runs

\* An outcome is counted when it is saved.
LEMMA CountedRuns ==
  ASSUME Runs, NEW c \in Range(Connections), NEW o \in Orders, Turn(c, o),
         NEW outcome \in Outcomes \cup {"local_error"},
         NEW failed \in Nat, NEW stopped \in {reconciler.stopped, reconciler.stopped \cup {c}},
         NEW used \in {reconciler.used, reconciler.used + 1},
         reconciler' = [Taken(c, o) EXCEPT !.failed[c] = failed, !.stopped = stopped, !.used = used,
                                    !.reported = @ \cup {<<o, outcome>>}],
         saved' = saved \cup {<<o, outcome>>}
  PROVE  Runs'
<1>1. PICK r : r = Taken(c, o)
  OBVIOUS
<1>2. /\ RunKept(r) /\ r.reported = saved /\ r.used = reconciler.used /\ r.bound = reconciler.bound
      /\ r.stopped = reconciler.stopped
  <2>1. r.stopped = reconciler.stopped
    BY <1>1, TurnIsOfTheRun DEF Taken, RunKept, RunRecord
  <2> QED
    BY <1>1, <2>1, TakenKept
<1>3. c \in reconciler.bound /\ used \in 0 .. RunBudget
  <2>1. c \in reconciler.bound /\ reconciler.used \in 0 .. RunBudget /\ reconciler.used + 1 \in 0 .. RunBudget
    BY TurnIsOfTheRun DEF RunKept, RunRecord
  <2> QED
    BY <2>1
<1>4. r \in RunRecord /\ r.failed \in [Range(Connections) -> Nat]
  BY <1>2 DEF RunKept, RunRecord
<1>5. PICK f : f = [r.failed EXCEPT ![c] = failed]
  OBVIOUS
<1>6. f \in [Range(Connections) -> Nat]
  BY <1>4, <1>5
<1>7. PICK n : n = [r EXCEPT !.failed = f, !.stopped = stopped, !.used = used,
                             !.reported = @ \cup {<<o, outcome>>}]
  OBVIOUS
<1>8. reconciler' = n
  BY <1>1, <1>4, <1>5, <1>7 DEF RunRecord
<1>9. stopped \subseteq r.bound /\ stopped \in SUBSET Range(Connections)
  BY <1>2, <1>3, <1>4 DEF RunKept, RunRecord
<1>10. r.reported \cup {<<o, outcome>>}
         \in SUBSET (Orders \X (Outcomes \cup {"local_error"}))
  BY <1>4 DEF RunRecord
<1>11. n \in RunRecord
  BY <1>3, <1>4, <1>6, <1>7, <1>9, <1>10 DEF RunRecord
<1>12. /\ n.round = r.round /\ n.bound = r.bound /\ n.queue = r.queue /\ n.stopped = stopped
       /\ n.reported = r.reported \cup {<<o, outcome>>}
  BY <1>4, <1>7 DEF RunRecord
<1>13. RunKept(n)
  BY <1>2, <1>9, <1>11, <1>12 DEF RunKept
<1>14. n # NotRunning
  <2>1. "bound" \in DOMAIN n
    BY <1>11 DEF RunRecord
  <2>2. "bound" \notin DOMAIN NotRunning
    BY DEF NotRunning
  <2> QED
    BY <2>1, <2>2
<1>15. n.reported = saved'
  BY <1>2, <1>12
<1>16. RunKept(reconciler') /\ reconciler' # NotRunning /\ reconciler'.reported = saved'
  BY <1>8, <1>13, <1>14, <1>15
<1> QED
  BY <1>16 DEF Runs

LEMMA ReconcileOneKept ==
  ASSUME Kept, NEW c \in Range(Connections), NEW o \in Orders, ReconcileOne(c, o)
  PROVE  Kept'
<1>1. PICK outcome \in Outcomes : /\ Possible(c, o, outcome)
        /\ \E v \in IF outcome = "rate_limited" THEN RetryAfters ELSE {None} :
             \E row \in _record(c, o, outcome, v) :
               /\ rows' = [rows EXCEPT ![o] = row]
               /\ reconciler' = [Taken(c, o) EXCEPT
                    !.failed[c] = FailedReads(c, outcome), !.stopped = Stopped(c, outcome),
                    !.used = IF outcome = "broker_read_failed" THEN @ + 1 ELSE @,
                    !.reported = @ \cup {<<o, outcome>>}]
               /\ saved' = saved \cup {<<o, outcome>>}
  BY DEF ReconcileOne
<1>2. PICK v \in IF outcome = "rate_limited" THEN RetryAfters ELSE {None} :
             \E row \in _record(c, o, outcome, v) :
               /\ rows' = [rows EXCEPT ![o] = row]
               /\ reconciler' = [Taken(c, o) EXCEPT
                    !.failed[c] = FailedReads(c, outcome), !.stopped = Stopped(c, outcome),
                    !.used = IF outcome = "broker_read_failed" THEN @ + 1 ELSE @,
                    !.reported = @ \cup {<<o, outcome>>}]
               /\ saved' = saved \cup {<<o, outcome>>}
  BY <1>1
<1>3. PICK row \in _record(c, o, outcome, v) :
        /\ rows' = [rows EXCEPT ![o] = row]
        /\ reconciler' = [Taken(c, o) EXCEPT
             !.failed[c] = FailedReads(c, outcome), !.stopped = Stopped(c, outcome),
             !.used = IF outcome = "broker_read_failed" THEN @ + 1 ELSE @,
             !.reported = @ \cup {<<o, outcome>>}]
        /\ saved' = saved \cup {<<o, outcome>>}
  BY <1>2
<1>4. Turn(c, o) /\ due(o, c, reconciler.sole) /\ line' = Moved(o) /\ UNCHANGED <<known, conn>>
  BY DEF ReconcileOne
<1>5. RunKept(reconciler) /\ reconciler.sole \in BOOLEAN /\ reconciler.failed \in [Range(Connections) -> Nat]
  BY <1>4, TurnIsOfTheRun DEF Kept, RunKept, RunRecord
<1>6. Rows'
  <2>1. RowKept(rows[o], o)
    BY DEF Kept, Rows
  <2>2. v \in RetryAfters \cup {None}
    OBVIOUS
  <2>3. RowKept(row, o)
    BY <1>1, <1>4, <1>5, <2>1, <2>2, RecordKept
  <2> QED
    BY <1>3, <1>4, <2>3, OneRow DEF Kept
<1>7. Runs'
  <2>1. FailedReads(c, outcome) \in Nat
    BY <1>5 DEF FailedReads
  <2>2. Stopped(c, outcome) \in {reconciler.stopped, reconciler.stopped \cup {c}}
    BY DEF Stopped
  <2>3. PICK used : used = IF outcome = "broker_read_failed" THEN reconciler.used + 1 ELSE reconciler.used
    OBVIOUS
  <2>4. RunKept(Taken(c, o)) /\ Taken(c, o).used = reconciler.used
    BY <1>4, TakenKept DEF Kept
  <2>5. reconciler' = [Taken(c, o) EXCEPT
             !.failed[c] = FailedReads(c, outcome), !.stopped = Stopped(c, outcome),
             !.used = used, !.reported = @ \cup {<<o, outcome>>}]
    BY <1>3, <2>3, <2>4 DEF RunKept, RunRecord
  <2>6. used \in {reconciler.used, reconciler.used + 1}
    BY <2>3
  <2> QED
    BY <1>3, <1>4, <2>1, <2>2, <2>5, <2>6, CountedRuns DEF Kept
<1>8. Lined'
  BY <1>4, MovedKept DEF Kept
<1>9. Rest'
  BY <1>3, <1>4 DEF Kept, Rest
<1> QED
  BY <1>6, <1>7, <1>8, <1>9 DEF Kept

LEMMA LocalFailureKept ==
  ASSUME Kept, NEW c \in Range(Connections), NEW o \in Orders, _record_local_failure(c, o)
  PROVE  Kept'
<1>1. /\ Turn(c, o) /\ line' = Moved(o) /\ UNCHANGED <<known, conn>>
      /\ rows' = [rows EXCEPT ![o] = _wait_longer(o, "local_error", None)]
      /\ reconciler' = [Taken(c, o) EXCEPT !.reported = @ \cup {<<o, "local_error">>}]
      /\ saved' = saved \cup {<<o, "local_error">>}
  BY DEF _record_local_failure
<1>2. Rows'
  <2>1. RowKept(rows[o], o)
    BY DEF Kept, Rows
  <2>2. RowKept(_wait_longer(o, "local_error", None), o)
    BY <2>1, LongerKept
  <2> QED
    BY <1>1, <2>2, OneRow DEF Kept
<1>3. Runs'
  <2>1. RunKept(reconciler) /\ RunKept(Taken(c, o)) /\ Taken(c, o).used = reconciler.used
    BY <1>1, TakenKept, TurnIsOfTheRun DEF Kept
  <2>2. Taken(c, o).failed = reconciler.failed /\ Taken(c, o).stopped = reconciler.stopped
    BY <2>1 DEF Taken, RunKept, RunRecord
  <2>3. reconciler.failed \in [Range(Connections) -> Nat]
    BY <2>1 DEF RunKept, RunRecord
  <2>4. reconciler' = [Taken(c, o) EXCEPT !.failed[c] = reconciler.failed[c], !.stopped = reconciler.stopped,
                                   !.used = reconciler.used, !.reported = @ \cup {<<o, "local_error">>}]
    BY <1>1, <2>1, <2>2, <2>3 DEF RunKept, RunRecord
  <2> QED
    BY <1>1, <2>3, <2>4, CountedRuns DEF Kept
<1>4. Lined'
  BY <1>1, MovedKept DEF Kept
<1>5. Rest'
  BY <1>1 DEF Kept, Rest
<1> QED
  BY <1>2, <1>3, <1>4, <1>5 DEF Kept

LEMMA OtherWriterKept ==
  ASSUME Kept, NEW o \in Orders, OtherWriter(o)
  PROVE  Kept'
<1>1. RowKept(rows[o], o)
  BY DEF Kept, Rows
<1>2. FromHome([from |-> AccountOf[o]], o)
  BY DEF FromHome
<1>3. RowKept(Settled(o, AccountOf[o]), o)
  BY <1>1, <1>2, SettledKept
<1>4. Rows'
  BY <1>3, OneRow DEF OtherWriter, Kept
<1>5. Lined' /\ Runs'
  BY SameLine, SameRuns DEF OtherWriter, Kept
<1>6. Rest'
  BY DEF OtherWriter, Kept, Rest
<1> QED
  BY <1>4, <1>5, <1>6 DEF Kept

LEMMA TickKept ==
  ASSUME Kept, Tick
  PROVE  Kept'
<1>1. ASSUME NEW o \in Orders PROVE RowKept(rows'[o], o)
  <2>1. rows'[o] = [rows[o] EXCEPT !.wait = Less(@), !.asked = Less(@), !.raised = Less(@),
                                   !.recent = FALSE]
    BY DEF Tick
  <2>2. RowKept(rows[o], o) /\ rows[o] \in Row
    BY DEF Kept, Rows, RowKept
  <2>3. Steps[MaxLevel] \in Nat /\ RaiseAgain \in Nat
    BY LastIsLongest, Quantities
  <2>4. /\ rows[o].wait \in 0 .. Steps[MaxLevel] /\ rows[o].asked \in 0 .. Steps[MaxLevel]
        /\ rows[o].raised \in 0 .. RaiseAgain /\ rows[o].level \in 0 .. MaxLevel
    BY <2>2 DEF Row
  <2>5. /\ Less(rows[o].wait) \in 0 .. Steps[MaxLevel]
        /\ Less(rows[o].asked) \in 0 .. Steps[MaxLevel]
        /\ Less(rows[o].raised) \in 0 .. RaiseAgain
    BY <2>3, <2>4 DEF Less
  <2>6. rows'[o] \in Row
    BY <2>1, <2>2, <2>5 DEF Row
  <2>7. /\ rows'[o].wait = Less(rows[o].wait) /\ rows'[o].asked = Less(rows[o].asked)
        /\ rows'[o].level = rows[o].level /\ rows'[o].from = rows[o].from
    BY <2>1, <2>2 DEF Row
  <2>8. WaitCovers(rows[o]) /\ FromHome(rows[o], o)
    BY <2>2 DEF RowKept
  <2>9. WaitCovers(rows'[o])
    BY <2>3, <2>4, <2>7, <2>8 DEF WaitCovers, Less
  <2>10. FromHome(rows'[o], o)
    BY <2>7, <2>8 DEF FromHome
  <2> QED
    BY <2>6, <2>9, <2>10 DEF RowKept
<1>2. Rows'
  <2>1. rows' = [o \in Orders |-> rows'[o]]
    BY DEF Tick
  <2>2. UNCHANGED known
    BY DEF Tick
  <2> QED
    BY <1>1, <2>1, <2>2 DEF Rows, RowKept, FromHome, WaitCovers
<1>3. Lined' /\ Runs'
  BY SameLine, SameRuns DEF Tick, Kept
<1>4. Rest'
  BY DEF Tick, Kept, Rest
<1> QED
  BY <1>2, <1>3, <1>4 DEF Kept

LEMMA StepKept ==
  ASSUME Kept, [Next]_vars
  PROVE  Kept'
<1>1. CASE StartRun
  <2>1. UNCHANGED <<rows, line, known>>
    BY <1>1 DEF StartRun
  <2> QED
    BY <1>1, <2>1, StartKept, SameRows, SameLine DEF Kept
<1>2. CASE EndRun \/ Killed
  <2>1. UNCHANGED <<rows, line, known, conn>> /\ reconciler' = NotRunning /\ saved' = {}
    BY <1>2 DEF EndRun, Killed
  <2>2. Rest' /\ Runs'
    BY <2>1 DEF Kept, Rest, Runs
  <2> QED
    BY <2>1, <2>2, SameRows, SameLine DEF Kept
<1>3. CASE Tick
  BY <1>3, TickKept
<1>4. ASSUME NEW c \in Range(Connections), NEW o \in Orders, Attempt(c, o)
      PROVE  Kept'
  <2>1. CASE SkipLocked(c, o) \/ NotAttempted(c, o)
    <3>1. Turn(c, o) /\ reconciler' = Taken(c, o) /\ UNCHANGED <<rows, line, known, conn, saved>>
      BY <2>1 DEF SkipLocked, NotAttempted
    <3>2. Runs'
      BY <3>1, TakenRuns DEF Kept
    <3>3. Rest'
      BY <3>1 DEF Kept, Rest
    <3> QED
      BY <3>1, <3>2, <3>3, SameRows, SameLine DEF Kept
  <2>2. CASE ReconcileOne(c, o)
    BY <2>2, ReconcileOneKept
  <2>3. CASE _record_local_failure(c, o)
    BY <2>3, LocalFailureKept
  <2> QED
    BY <1>4, <2>1, <2>2, <2>3 DEF Attempt
<1>5. CASE \E o \in Orders : OtherWriter(o)
  BY <1>5, OtherWriterKept
<1>6. ASSUME NEW c \in Range(Connections), ChangeConnection(c)
      PROVE  Kept'
  <2>1. UNCHANGED <<rows, line, known, reconciler, saved>>
    BY <1>6 DEF ChangeConnection
  <2>2. Rest'
    BY <1>6, <2>1 DEF ChangeConnection, Kept, Rest
  <2> QED
    BY <2>1, <2>2, SameRows, SameLine, SameRuns DEF Kept
<1>7. CASE UNCHANGED vars
  <2>1. Rest'
    BY <1>7 DEF Kept, Rest, vars
  <2> QED
    BY <1>7, <2>1, SameRows, SameLine, SameRuns DEF Kept, vars
<1> QED
  BY <1>1, <1>2, <1>3, <1>4, <1>5, <1>6, <1>7 DEF Next

-----------------------------------------------------------------------------
(* The theorems. *)

\* Whichever connections come and go, a run reads only for the accounts it has
\* bound, keeps to its batch and its time, reports exactly what is saved, and every
\* wait covers what the broker asked for (reconcile_pending_orders, _wait_longer).
THEOREM RunsKeepTheirBounds == Spec => []Kept
<1>1. Init => Kept
  BY InitKept
<1>2. Kept /\ [Next]_vars => Kept'
  BY StepKept
<1> QED
  BY <1>1, <1>2, PTL DEF Spec

LEMMA KeptIsHome == Kept => SettledAtHome
<1> SUFFICES ASSUME Kept PROVE SettledAtHome
  OBVIOUS
<1>1. rows \in [Orders -> Row]
  BY DEF Kept, Rows, RowKept
<1>2. reconciler # NotRunning =>
       /\ reconciler.bound \subseteq Range(Connections) /\ reconciler.stopped \subseteq reconciler.bound
       /\ reconciler.queue \in [Range(Connections) -> SUBSET Orders]
       /\ reconciler.attempted \in 0 .. BatchLimit /\ reconciler.used \in 0 .. RunBudget
       /\ \A c \in reconciler.bound : Cardinality(reconciler.queue[c]) <= BatchLimit
  BY DEF Kept, Runs, RunKept, RunRecord
<1>3. TypeOK
  BY <1>1, <1>2 DEF Kept, Lined, Rest, TypeOK
<1>4. \A o \in Orders : FromHome(rows[o], o)
  BY DEF Kept, Rows, RowKept
<1> QED
  BY <1>3, <1>4 DEF SettledAtHome, FromHome

\* An order is never settled from another account's answer, whatever connections
\* are switched on and off, saved or run out between two orders of a run: but for
\* an order and a connection that both have no account on record (_bind, owns).
THEOREM AlwaysSettledAtHome == Spec => []SettledAtHome
  BY RunsKeepTheirBounds, KeptIsHome, PTL

LEMMA KeptIsTold == Kept => AttemptsAreKept
<1> SUFFICES ASSUME Kept PROVE AttemptsAreKept
  OBVIOUS
<1>1. ASSUME NEW o \in Orders, rows[o].asked > 0 PROVE ~is_due(o)
  <2>1. RowKept(rows[o], o)
    BY DEF Kept, Rows
  <2>2. /\ rows[o].level \in 0 .. MaxLevel /\ rows[o].wait \in 0 .. Steps[MaxLevel]
        /\ rows[o].asked \in 0 .. Steps[MaxLevel]
    BY <2>1 DEF RowKept, Row
  <2>3. rows[o].level > 0 /\ rows[o].wait >= rows[o].asked
    BY <1>1, <2>1 DEF RowKept, WaitCovers
  <2>4. MaxLevel \in Nat /\ Steps[MaxLevel] \in Nat
    BY LastIsLongest
  <2> QED
    BY <1>1, <2>2, <2>3, <2>4 DEF is_due
<1>2. ReportIsSaved
  BY DEF Kept, Runs, ReportIsSaved
<1> QED
  BY <1>1, <1>2 DEF AttemptsAreKept, NotAskedTooSoon

\* No order is due before the time its broker asked for has passed, and a run never
\* reports an outcome whose commit failed (_wait_longer, _record, the handler of a
\* local failure).
THEOREM AttemptsAreAlwaysKept == Spec => []AttemptsAreKept
  BY RunsKeepTheirBounds, KeptIsTold, PTL

\* A run that starts decides about every order that waits.
LEMMA StartDecides ==
  ASSUME StartRun, reconciler' # NotRunning, NEW o \in Orders, awaiting(o)
  PROVE  (o \in reconciler'.out_of_scope) # (\E c \in reconciler'.bound : owns(o, c, reconciler'.sole))
<1>1. PICK refused \in SUBSET active_connections :
       LET sole == unscoped_orders_are_readable(Cardinality(active_connections))
           opened == active_connections \ refused
           b == _bind(opened, sole)
       IN reconciler' = IF opened = {} \/ ~OneAccountEach(b) THEN NotRunning
                    ELSE [sole |-> sole, bound |-> b,
                          queue |-> [c \in Range(Connections) |->
                              IF c \in b THEN Foremost({p \in Orders : due(p, c, sole)}) ELSE {}],
                          round |-> {}, stopped |-> {},
                          failed |-> [c \in Range(Connections) |-> 0],
                          attempted |-> 0, used |-> 0,
                          reported |-> {}, out_of_scope |-> _out_of_scope(b, sole)]
  BY DEF StartRun
<1>2. PICK sole : sole = unscoped_orders_are_readable(Cardinality(active_connections))
  OBVIOUS
<1>3. PICK b : b = _bind(active_connections \ refused, sole)
  OBVIOUS
<1>4. reconciler'.bound = b /\ reconciler'.sole = sole /\ reconciler'.out_of_scope = _out_of_scope(b, sole)
  BY <1>1, <1>2, <1>3
<1>5. CASE Scope(o) # None
  <2>1. o \in _out_of_scope(b, sole) <=> ~\E c \in b : Scope(c) = Scope(o)
    BY <1>5 DEF _out_of_scope
  <2>2. \A c \in b : owns(o, c, sole) <=> Scope(c) = Scope(o)
    BY <1>5 DEF owns
  <2> QED
    BY <1>4, <2>1, <2>2
<1>6. CASE Scope(o) = None
  <2>1. o \in _out_of_scope(b, sole)
          <=> ~\E c \in b : sole /\ (rows[o].id \/ Scope(c) = None)
    BY <1>6 DEF _out_of_scope
  <2>2. \A c \in b : owns(o, c, sole) <=> (sole /\ (rows[o].id \/ Scope(c) = None))
    BY <1>6 DEF owns
  <2> QED
    BY <1>4, <2>1, <2>2
<1> QED
  BY <1>5, <1>6

\* A run starts by StartRun alone.
LEMMA OnlyAStartStarts ==
  ASSUME Kept, [Next]_vars, reconciler = NotRunning, reconciler' # NotRunning
  PROVE  StartRun
<1>1. ~(EndRun \/ Killed \/ Tick) /\ ~UNCHANGED vars
  BY DEF EndRun, Killed, Tick, vars
<1>2. ASSUME NEW c \in Range(Connections), NEW o \in Orders, Attempt(c, o) PROVE FALSE
  BY <1>2 DEF Attempt, SkipLocked, NotAttempted, ReconcileOne, _record_local_failure, Turn
<1>3. ~\E o \in Orders : OtherWriter(o)
  BY DEF OtherWriter
<1>4. ~\E c \in Range(Connections) : ChangeConnection(c)
  BY DEF ChangeConnection
<1> QED
  BY <1>1, <1>2, <1>3, <1>4 DEF Next

\* Only an attempt saves an outcome, its own.
LEMMA OnlyAttemptsSave ==
  ASSUME Kept, [Next]_vars, NEW r \in saved' \ saved
  PROVE  \E c \in Range(Connections), o \in Orders :
           ReconcileOne(c, o) \/ _record_local_failure(c, o)
<1>1. ~(StartRun \/ EndRun \/ Killed \/ Tick) /\ ~UNCHANGED vars
  BY DEF StartRun, EndRun, Killed, Tick, vars
<1>2. ~\E o \in Orders : OtherWriter(o)
  BY DEF OtherWriter
<1>3. ~\E c \in Range(Connections) : ChangeConnection(c)
  BY DEF ChangeConnection
<1>4. PICK c \in Range(Connections), o \in Orders : Attempt(c, o)
  BY <1>1, <1>2, <1>3 DEF Next
<1>5. ~SkipLocked(c, o) /\ ~NotAttempted(c, o)
  BY DEF SkipLocked, NotAttempted
<1> QED
  BY <1>4, <1>5 DEF Attempt

LEMMA NotSettlingRaised ==
  ASSUME Kept, [Next]_vars PROVE NotSettlingIsRaised
<1> SUFFICES ASSUME NEW p \in Orders, rows'[p].level = MaxLevel,
                    NEW r \in saved' \ saved, r[1] = p, r[2] \in NotSettling
             PROVE  rows'[p].raised > 0
  BY DEF NotSettlingIsRaised
<1>1. PICK c \in Range(Connections), o \in Orders :
        ReconcileOne(c, o) \/ _record_local_failure(c, o)
  BY OnlyAttemptsSave
<1>2. RowKept(rows[o], o) /\ rows = [q \in Orders |-> rows[q]]
  BY DEF Kept, Rows
<1>3. CASE _record_local_failure(c, o)
  <2>1. r = <<o, "local_error">> /\ rows' = [rows EXCEPT ![o] = _wait_longer(o, "local_error", None)]
    BY <1>3 DEF _record_local_failure
  <2>2. p = o
    BY <2>1
  <2>3. rows'[o] = _wait_longer(o, "local_error", None)
    BY <1>2, <2>1
  <2> QED
    BY <1>2, <2>2, <2>3, LongerKept DEF NotSettling
<1>4. CASE ReconcileOne(c, o)
  <2>1. PICK outcome \in Outcomes :
          \E v \in IF outcome = "rate_limited" THEN RetryAfters ELSE {None} :
             \E row \in _record(c, o, outcome, v) :
               /\ rows' = [rows EXCEPT ![o] = row]
               /\ saved' = saved \cup {<<o, outcome>>}
    BY <1>4 DEF ReconcileOne
  <2>2. PICK v \in RetryAfters \cup {None} :
             \E row \in _record(c, o, outcome, v) :
               /\ rows' = [rows EXCEPT ![o] = row]
               /\ saved' = saved \cup {<<o, outcome>>}
    BY <2>1
  <2>3. r = <<o, outcome>>
    BY <2>2
  <2>4. p = o /\ outcome \in NotSettling
    BY <2>3
  <2>5. outcome # "unchanged" /\ outcome # "settled"
    BY <2>4 DEF NotSettling
  <2>6. rows' = [rows EXCEPT ![o] = _wait_longer(o, outcome, v)]
    BY <2>2, <2>5 DEF _record
  <2>7. rows'[o] = _wait_longer(o, outcome, v)
    BY <1>2, <2>6
  <2> QED
    BY <1>2, <2>4, <2>7, LongerKept
<1> QED
  BY <1>1, <1>3, <1>4

\* Every waiting order is read by some account or counted as out of scope when a run
\* starts, never both; and an attempt that does not settle an order at its longest
\* wait leaves it raised (StartRun, _wait_longer).
THEOREM NothingIsEverOverlooked == Spec => NothingIsOverlooked
<1>1. Kept /\ [Next]_vars => [NobodyIsOverlooked /\ NotSettlingIsRaised]_vars
  <2> SUFFICES ASSUME Kept, [Next]_vars PROVE NobodyIsOverlooked /\ NotSettlingIsRaised
    OBVIOUS
  <2>1. NobodyIsOverlooked
    BY OnlyAStartStarts, StartDecides DEF NobodyIsOverlooked
  <2> QED
    BY <2>1, NotSettlingRaised
<1> QED
  BY <1>1, RunsKeepTheirBounds, PTL DEF Spec, NothingIsOverlooked

(***************************************************************************)
(* The rebalance.                                                          *)
(***************************************************************************)
\* What the broker may still take or pay for an order.
Left(x) == x.unshown + (IF x.at = "gone" THEN 0 ELSE x.quantity - x.filled)

\* An order's part in a sum over those of one ticker and side, over the buys, and
\* its shares if it is a buy.
Part(x, t, side) == IF x # NoOrder /\ x.ticker = t /\ x.side = side THEN Left(x) ELSE 0
BuyPart(x) == IF x # NoOrder /\ x.side = "buy" THEN Left(x) ELSE 0
BuyShares(x) == IF x # NoOrder /\ x.side = "buy" THEN x.quantity ELSE 0

\* The strategy's buys, and the shares they were to buy.
Buys == {o \in Used : orders[o].side = "buy"}
Bought == Sum([o \in Buys |-> orders[o].quantity])

\* What is shown of an order was filled and what was filled was asked for, and an
\* order that ended Lag ago is shown in full.
OrderKept(x) ==
  /\ x \in OrderRecords
  /\ x.unshown <= x.filled /\ x.filled <= x.quantity
  /\ x.age <= ORDER_SETTLE_TIME
  /\ x.at # "gone" => x.filled < x.quantity
  /\ x.row = "ended" => x.at = "gone" /\ (x.age > Lag => x.unshown = 0)
  /\ x.row = "working" => x.at # "sent"

OrdersKept ==
  /\ orders = [o \in Slots |-> orders[o]]
  /\ \A o \in Slots : orders[o] # NoOrder => OrderKept(orders[o])

Strategies == [mark : {0} \cup Range(PeriodOf), attempts_on : 0 .. Len(PeriodOf),
               attempts : 0 .. MAX_CASH_BLOCKED_ATTEMPTS + 1]

Counts(s) == s \in Strategies /\ (s.attempts = 0 <=> s.attempts_on = 0)

RebalanceRuns ==
  [phase : {"read", "lines", "sending"}, elapsed : 0 .. RunLimit, shares : [Tickers -> Nat],
   cash : Nat, on : 1 .. Len(PeriodOf), loaded : Strategies, fresh : BOOLEAN,
   locked : BOOLEAN, todo : SUBSET Tickers, cash_blocks : BOOLEAN, halt_blocks : BOOLEAN,
   unconfirmed : BOOLEAN, excused : SUBSET Tickers]

DryRuns == [loaded : Strategies, on : 1 .. Len(PeriodOf), fresh : BOOLEAN]

Types ==
  /\ settings \in [kill : BOOLEAN, auto : BOOLEAN]
  /\ day \in 1 .. Len(PeriodOf)
  /\ Counts(strategy)
  /\ run = NoRun \/ (run \in RebalanceRuns /\ Counts(run.loaded))
  /\ dry = NoRun \/ dry \in DryRuns
  /\ shown \in [shares : [Tickers -> Nat], cash : Nat]

\* What was loaded is what is saved, as long as no other record was made, and
\* no period is recorded that has not come.
Current(r) ==
  /\ r.fresh => r.loaded = strategy
  /\ r.on <= day
  /\ r.loaded.mark <= PeriodOf[r.on]

MarksKept ==
  /\ strategy.mark <= PeriodOf[day]
  /\ run # NoRun => Current(run)
  /\ dry # NoRun => Current(dry)

\* An account read while no order was late is still what the broker shows.
ReadKept ==
  (run.phase = "read"
     /\ \A o \in Used : orders[o].row = "ended" /\ orders[o].age > run.elapsed + Lag)
  => shown.shares = run.shares /\ shown.cash = run.cash

\* The line that is next (Line), of a run's lines and the shares it has read.
LineIn(todo, shares) ==
  CHOOSE t \in todo : \A u \in todo \ {t} :
    IF (IF TargetShares[t] > shares[t] THEN "buy" ELSE "sell")
         = (IF TargetShares[u] > shares[u] THEN "buy" ELSE "sell")
    THEN t < u
    ELSE (IF TargetShares[t] > shares[t] THEN "buy" ELSE "sell") = "sell"

\* The lines of which no order has been sent.
Unsent(r) == IF r.phase = "sending" THEN r.todo \ {LineIn(r.todo, r.shares)} ELSE r.todo

\* While a run sends its orders every other one is over or its own: one at most is
\* being sent, and one of unknown outcome stopped the run.
Rowed ==
  /\ \A o \in Used :
       /\ orders[o].row \in Active \/ orders[o].age <= run.elapsed
       /\ orders[o].row = "transmitting" => run.phase = "sending" /\ orders[o].ticker \in run.todo
       /\ orders[o].row = "submission_unknown" => run.todo = {} /\ orders[o].ticker \in run.excused
  /\ \A o, p \in Used :
       orders[o].row = "transmitting" /\ orders[p].row = "transmitting" => o = p

\* A line that was not sent has no order yet, and the account shows it as it was read.
Untouched ==
  /\ \A t \in run.todo : run.shares[t] # TargetShares[t]
  /\ \A t \in Unsent(run) :
       /\ shown.shares[t] = run.shares[t]
       /\ \A o \in Used : orders[o].ticker # t

\* The cash a run counts on is shown beside what its buys may still cost.
Afforded == AllOf(Buys) + run.cash <= shown.cash + Bought

\* What was sent comes to the target, but where a blocked line excuses it.
OnTheWay ==
  \A t \in Tickers \ (Unsent(run) \cup run.excused) :
    Coming(t) = TargetShares[t] \/ run.cash_blocks \/ run.halt_blocks

LinesKept ==
  run.phase \in {"lines", "sending"} => Rowed /\ Untouched /\ Afforded /\ OnTheWay

\* The inductive invariant.
Traded == /\ Types /\ OrdersKept /\ NeverOvershoots /\ BuysAreCovered
          /\ MarksKept /\ ReadKept /\ LinesKept

-----------------------------------------------------------------------------
\* The shares of one order.
LEMMA SharesAtOne ==
  ASSUME NEW x, NEW n \in Nat
  PROVE  IsFiniteSet({x} \X (1..n)) /\ Cardinality({x} \X (1..n)) = n
<1>1. IsFiniteSet({x}) /\ Cardinality({x}) = 1
  BY FS_Singleton
<1>2. IsFiniteSet(1..n) /\ Cardinality(1..n) = n
  BY FS_Interval
<1>3. /\ IsFiniteSet({x} \X (1..n))
      /\ Cardinality({x} \X (1..n)) = Cardinality({x}) * Cardinality(1..n)
  BY <1>1, <1>2, FS_Product
<1> QED
  BY <1>1, <1>2, <1>3

\* Finitely many orders hold finitely many shares.
LEMMA SharesAreFinite ==
  ASSUME NEW S, IsFiniteSet(S), NEW f \in [S -> Nat]
  PROVE  IsFiniteSet(UNION {{y} \X (1..f[y]) : y \in S})
<1>1. PICK h : h = [y \in S |-> {y} \X (1..f[y])]
  OBVIOUS
<1>2. PICK T : T = {{y} \X (1..f[y]) : y \in S}
  OBVIOUS
<1>3. h \in Surjection(S, T)
  <2>1. h \in [S -> T]
    BY <1>1, <1>2
  <2>2. \A t \in T : \E y \in S : h[y] = t
    BY <1>1, <1>2
  <2> QED
    BY <2>1, <2>2 DEF Surjection
<1>4. IsFiniteSet(T)
  BY <1>3, FS_Surjection
<1>5. ASSUME NEW t \in T PROVE IsFiniteSet(t)
  <2>1. PICK y \in S : t = {y} \X (1..f[y])
    BY <1>2
  <2>2. f[y] \in Nat
    OBVIOUS
  <2> QED
    BY <2>1, <2>2, SharesAtOne
<1> QED
  BY <1>2, <1>4, <1>5, FS_UNION

\* A sum is what one order has and what the others have.
LEMMA SumSplit ==
  ASSUME NEW S, IsFiniteSet(S), NEW f \in [S -> Nat], NEW x
  PROVE  /\ Cardinality(UNION {{y} \X (1..f[y]) : y \in S \ {x}}) \in Nat
         /\ Sum(f) = Cardinality(UNION {{y} \X (1..f[y]) : y \in S \ {x}})
                       + (IF x \in S THEN f[x] ELSE 0)
<1> DEFINE SharesOf(y) == {y} \X (1..f[y])
           Others == UNION {SharesOf(y) : y \in S \ {x}}
<1>1. IsFiniteSet(S \ {x})
  BY FS_Subset
<1>2. PICK r : r = [y \in S \ {x} |-> f[y]]
  OBVIOUS
<1>3. r \in [S \ {x} -> Nat] /\ \A y \in S \ {x} : r[y] = f[y]
  BY <1>2
<1>4. IsFiniteSet(Others)
  <2>1. IsFiniteSet(UNION {{y} \X (1..r[y]) : y \in S \ {x}})
    BY <1>1, <1>3, SharesAreFinite
  <2>2. {{y} \X (1..r[y]) : y \in S \ {x}} = {SharesOf(y) : y \in S \ {x}}
    BY <1>3
  <2> QED
    BY <2>1, <2>2
<1>5. Cardinality(Others) \in Nat
  BY <1>4, FS_CardinalityType
<1>6. Sum(f) = Cardinality(UNION {SharesOf(y) : y \in S})
  BY DEF Sum
<1>7. CASE x \notin S
  <2>1. S \ {x} = S
    BY <1>7
  <2>2. Sum(f) = Cardinality(Others)
    BY <1>6, <2>1
  <2> HIDE DEF Others, SharesOf
  <2>3. Sum(f) = Cardinality(Others) + (IF x \in S THEN f[x] ELSE 0)
    BY <1>5, <1>7, <2>2
  <2> QED
    BY <1>5, <2>3 DEF Others, SharesOf
<1>8. CASE x \in S
  <2>0. f[x] \in Nat
    BY <1>8
  <2>1. IsFiniteSet(SharesOf(x)) /\ Cardinality(SharesOf(x)) = f[x]
    BY <2>0, SharesAtOne
  <2>2. Others \cap SharesOf(x) = {}
    OBVIOUS
  <2>3. UNION {SharesOf(y) : y \in S} = Others \cup SharesOf(x)
    BY <1>8
  <2>4. Cardinality(Others \cup SharesOf(x))
          = Cardinality(Others) + Cardinality(SharesOf(x)) - Cardinality(Others \cap SharesOf(x))
    BY <1>4, <2>1, FS_Union
  <2>5. Cardinality(Others \cap SharesOf(x)) = 0
    BY <2>2, FS_EmptySet
  <2>6. Sum(f) = Cardinality(Others \cup SharesOf(x))
    BY <1>6, <2>3
  <2> HIDE DEF Others, SharesOf
  <2>7. Sum(f) = Cardinality(Others) + f[x]
    BY <1>5, <2>0, <2>1, <2>4, <2>5, <2>6
  <2>8. Sum(f) = Cardinality(Others) + (IF x \in S THEN f[x] ELSE 0)
    BY <1>8, <2>7
  <2> QED
    BY <1>5, <2>8 DEF Others, SharesOf
<1> QED
  BY <1>7, <1>8

LEMMA SumIsNatural ==
  ASSUME NEW S, IsFiniteSet(S), NEW f \in [S -> Nat]
  PROVE  Sum(f) \in Nat
  BY SharesAreFinite, FS_CardinalityType DEF Sum

LEMMA SumOfNone ==
  ASSUME NEW f, DOMAIN f = {}
  PROVE  Sum(f) = 0
<1>1. UNION {{o} \X (1 .. f[o]) : o \in DOMAIN f} = {}
  OBVIOUS
<1> QED
  BY <1>1, FS_EmptySet DEF Sum

LEMMA SumHolds ==
  ASSUME NEW S, IsFiniteSet(S), NEW f \in [S -> Nat], NEW x \in S
  PROVE  f[x] <= Sum(f)
<1>1. PICK n : n = Cardinality(UNION {{y} \X (1..f[y]) : y \in S \ {x}})
  OBVIOUS
<1>2. n \in Nat /\ Sum(f) = n + f[x] /\ f[x] \in Nat
  BY <1>1, SumSplit
<1> QED
  BY <1>2

LEMMA SumChange ==
  ASSUME NEW S, IsFiniteSet(S), NEW T, IsFiniteSet(T),
         NEW f \in [S -> Nat], NEW g \in [T -> Nat], NEW x,
         S \ {x} = T \ {x}, \A y \in S \ {x} : f[y] = g[y]
  PROVE  Sum(g) = Sum(f) - (IF x \in S THEN f[x] ELSE 0) + (IF x \in T THEN g[x] ELSE 0)
<1>1. PICK n : n = Cardinality(UNION {{y} \X (1..f[y]) : y \in S \ {x}})
  OBVIOUS
<1>2. n = Cardinality(UNION {{y} \X (1..g[y]) : y \in T \ {x}})
  <2>1. {{y} \X (1..f[y]) : y \in S \ {x}} = {{y} \X (1..g[y]) : y \in T \ {x}}
    OBVIOUS
  <2> QED
    BY <1>1, <2>1
<1>3. n \in Nat /\ Sum(f) = n + (IF x \in S THEN f[x] ELSE 0)
  BY <1>1, SumSplit
<1>4. Sum(g) = n + (IF x \in T THEN g[x] ELSE 0)
  BY <1>2, SumSplit
<1>5. (IF x \in S THEN f[x] ELSE 0) \in Nat /\ (IF x \in T THEN g[x] ELSE 0) \in Nat
  OBVIOUS
<1> QED
  BY <1>3, <1>4, <1>5

-----------------------------------------------------------------------------
LEMMA LeftIsNatural ==
  ASSUME NEW x, OrderKept(x)
  PROVE  /\ Left(x) \in Nat /\ x.unshown <= Left(x) /\ x.quantity \in Nat
         /\ x # NoOrder /\ x.ticker \in Tickers /\ x.side \in {"buy", "sell"}
         /\ x.unshown \in Nat /\ x.filled \in Nat /\ x.age \in Nat
  BY SettledOrdersAreShown DEF OrderKept, OrderRecords, Left, NoOrder, Active, Old

LEMMA AllIsNatural ==
  ASSUME OrdersKept, NEW os \in SUBSET Used
  PROVE  AllOf(os) \in Nat /\ \A o \in os : Left(orders[o]) <= AllOf(os)
<1>1. PICK f : f = [o \in os |-> Outstanding(o)]
  OBVIOUS
<1>2. \A o \in os : f[o] = Left(orders[o]) /\ OrderKept(orders[o])
  BY <1>1 DEF Outstanding, Left, OrdersKept, Used
<1>3. f \in [os -> Nat]
  BY <1>1, <1>2, LeftIsNatural
<1>4. IsFiniteSet(os)
  BY SharesAndCash, FS_Subset DEF Used
<1>5. AllOf(os) = Sum(f)
  BY <1>1 DEF AllOf
<1> QED
  BY <1>2, <1>3, <1>4, <1>5, SumIsNatural, SumHolds

LEMMA NothingOfNone == AllOf({}) = 0
<1>1. PICK f : f = [o \in {} |-> Outstanding(o)]
  OBVIOUS
<1>2. DOMAIN f = {} /\ AllOf({}) = Sum(f)
  BY <1>1 DEF AllOf
<1> QED
  BY <1>2, SumOfNone

LEMMA BoughtIsNatural ==
  ASSUME OrdersKept
  PROVE  Bought \in Nat /\ (Buys = {} => Bought = 0)
<1>1. PICK f : f = [o \in Buys |-> orders[o].quantity]
  OBVIOUS
<1>2. f \in [Buys -> Nat] /\ DOMAIN f = Buys
  BY <1>1, LeftIsNatural DEF Buys, Used, OrdersKept
<1>3. IsFiniteSet(Buys)
  BY SharesAndCash, FS_Subset DEF Buys, Used
<1> QED
  BY <1>1, <1>2, <1>3, SumIsNatural, SumOfNone DEF Bought

\* A step that changes one order.
Becomes(o, n) == orders'[o] = n /\ \A p \in Slots \ {o} : orders'[p] = orders[p]

\* What is outstanding of some orders, order by order.
LEMMA OutstandingOf ==
  ASSUME OrdersKept, NEW S \in SUBSET Used, NEW f, f = [p \in S |-> Outstanding(p)]
  PROVE  f \in [S -> Nat] /\ \A p \in S : f[p] = Left(orders[p])
<1>1. \A p \in S : f[p] = Left(orders[p]) /\ OrderKept(orders[p])
  BY DEF Outstanding, Left, OrdersKept, Used
<1> QED
  BY <1>1, LeftIsNatural

LEMMA OutstandingThen ==
  ASSUME OrdersKept', NEW S \in SUBSET Used', NEW f, f = [p \in S |-> Outstanding(p)']
  PROVE  f \in [S -> Nat] /\ \A p \in S : f[p] = Left(orders'[p])
<1>1. \A p \in S : f[p] = Left(orders'[p]) /\ OrderKept(orders'[p])
  BY DEF Outstanding, Left, OrdersKept, Used
<1> QED
  BY <1>1, LeftIsNatural

\* When one order changes, what is outstanding of any class of orders changes by
\* what that order had and has.
LEMMA OneChanges ==
  ASSUME OrdersKept, OrdersKept', NEW o \in Slots, NEW n, Becomes(o, n),
         NEW S \in SUBSET Used, NEW T \in SUBSET Used',
         S \ {o} = T \ {o}, NEW f \in [S -> Nat], NEW g \in [T -> Nat],
         \A p \in S : f[p] = Left(orders[p]), \A p \in T : g[p] = Left(orders'[p])
  PROVE  Sum(g) = Sum(f) - (IF o \in S THEN Left(orders[o]) ELSE 0)
                         + (IF o \in T THEN Left(n) ELSE 0)
<1>0. orders'[o] = n /\ \A p \in Slots \ {o} : orders'[p] = orders[p]
  BY DEF Becomes
<1>7. IsFiniteSet(S) /\ IsFiniteSet(T)
  BY SharesAndCash, FS_Subset DEF Used
<1>8. \A p \in S \ {o} : f[p] = g[p]
  BY <1>0 DEF Used
<1>9. Sum(g) = Sum(f) - (IF o \in S THEN f[o] ELSE 0) + (IF o \in T THEN g[o] ELSE 0)
  BY <1>7, <1>8, SumChange
<1> QED
  BY <1>0, <1>9

LEMMA TickerChanges ==
  ASSUME OrdersKept, OrdersKept', NEW o \in Slots, NEW n, Becomes(o, n),
         NEW t, NEW side
  PROVE  AllOf(OfTicker(t, side))' = AllOf(OfTicker(t, side))
            - Part(orders[o], t, side) + Part(n, t, side)
<1>0. orders'[o] = n /\ \A p \in Slots \ {o} : orders'[p] = orders[p]
  BY DEF Becomes
<1>1. PICK S : S = {p \in Used : orders[p].ticker = t /\ orders[p].side = side}
  OBVIOUS
<1>2. PICK T : T = {p \in Used' : orders'[p].ticker = t /\ orders'[p].side = side}
  OBVIOUS
<1>3. S \ {o} = T \ {o}
  BY <1>0, <1>1, <1>2 DEF Used
<1>4. (IF o \in S THEN Left(orders[o]) ELSE 0) = Part(orders[o], t, side)
  BY <1>1 DEF Part, Used
<1>5. (IF o \in T THEN Left(n) ELSE 0) = Part(n, t, side)
  BY <1>0, <1>2 DEF Part, Used
<1>6. S \in SUBSET Used /\ T \in SUBSET Used'
  BY <1>1, <1>2
<1>7. PICK f, g : f = [p \in S |-> Outstanding(p)] /\ g = [p \in T |-> Outstanding(p)']
  OBVIOUS
<1>71. f \in [S -> Nat] /\ \A p \in S : f[p] = Left(orders[p])
  BY <1>6, <1>7, OutstandingOf
<1>72. g \in [T -> Nat] /\ \A p \in T : g[p] = Left(orders'[p])
  BY <1>6, <1>7, OutstandingThen
<1>8. Sum(g) = Sum(f) - (IF o \in S THEN Left(orders[o]) ELSE 0) + (IF o \in T THEN Left(n) ELSE 0)
  BY <1>3, <1>6, <1>71, <1>72, OneChanges
<1>9. AllOf(OfTicker(t, side)) = Sum(f)
  BY <1>1, <1>7 DEF AllOf, OfTicker
<1>10. AllOf(OfTicker(t, side))' = Sum(g)
  BY <1>2, <1>7 DEF AllOf, OfTicker
<1> QED
  BY <1>4, <1>5, <1>8, <1>9, <1>10

LEMMA BuysChange ==
  ASSUME OrdersKept, OrdersKept', NEW o \in Slots, NEW n, Becomes(o, n)
  PROVE  /\ AllOf(Buys)' = AllOf(Buys) - BuyPart(orders[o]) + BuyPart(n)
         /\ Bought' = Bought - BuyShares(orders[o]) + BuyShares(n)
<1>0. orders'[o] = n /\ \A p \in Slots \ {o} : orders'[p] = orders[p]
  BY DEF Becomes
<1>1. PICK S : S = {p \in Used : orders[p].side = "buy"}
  OBVIOUS
<1>2. PICK T : T = {p \in Used' : orders'[p].side = "buy"}
  OBVIOUS
<1>3. S \ {o} = T \ {o}
  BY <1>0, <1>1, <1>2 DEF Used
<1>6. S \in SUBSET Used /\ T \in SUBSET Used'
  BY <1>1, <1>2
<1>7. AllOf(Buys)' = AllOf(Buys) - BuyPart(orders[o]) + BuyPart(n)
  <2>4. (IF o \in S THEN Left(orders[o]) ELSE 0) = BuyPart(orders[o])
    BY <1>1 DEF BuyPart, Used
  <2>5. (IF o \in T THEN Left(n) ELSE 0) = BuyPart(n)
    BY <1>0, <1>2 DEF BuyPart, Used
  <2>6. PICK f, g : f = [p \in S |-> Outstanding(p)] /\ g = [p \in T |-> Outstanding(p)']
    OBVIOUS
  <2>61. f \in [S -> Nat] /\ \A p \in S : f[p] = Left(orders[p])
    BY <1>6, <2>6, OutstandingOf
  <2>62. g \in [T -> Nat] /\ \A p \in T : g[p] = Left(orders'[p])
    BY <1>6, <2>6, OutstandingThen
  <2>7. Sum(g) = Sum(f) - (IF o \in S THEN Left(orders[o]) ELSE 0) + (IF o \in T THEN Left(n) ELSE 0)
    BY <1>3, <1>6, <2>61, <2>62, OneChanges
  <2>8. AllOf(Buys) = Sum(f)
    BY <1>1, <2>6 DEF AllOf, Buys
  <2>9. AllOf(Buys)' = Sum(g)
    BY <1>2, <2>6 DEF AllOf, Buys
  <2> QED
    BY <2>4, <2>5, <2>7, <2>8, <2>9
<1>8. Bought' = Bought - BuyShares(orders[o]) + BuyShares(n)
  <2>1. PICK f : f = [p \in S |-> orders[p].quantity]
    OBVIOUS
  <2>2. PICK g : g = [p \in T |-> orders'[p].quantity]
    OBVIOUS
  <2>3. f \in [S -> Nat]
    BY <1>1, <2>1, LeftIsNatural DEF Used, OrdersKept
  <2>4. g \in [T -> Nat]
    BY <1>2, <2>2, LeftIsNatural DEF Used, OrdersKept
  <2>5. IsFiniteSet(S) /\ IsFiniteSet(T)
    BY <1>6, SharesAndCash, FS_Subset DEF Used
  <2>6. \A p \in S \ {o} : f[p] = g[p]
    BY <1>0, <1>1, <1>3, <2>1, <2>2 DEF Used
  <2>7. Sum(g) = Sum(f) - (IF o \in S THEN f[o] ELSE 0) + (IF o \in T THEN g[o] ELSE 0)
    BY <1>3, <2>3, <2>4, <2>5, <2>6, SumChange
  <2>8. (IF o \in S THEN f[o] ELSE 0) = BuyShares(orders[o])
    BY <1>1, <2>1 DEF BuyShares, Used
  <2>9. (IF o \in T THEN g[o] ELSE 0) = BuyShares(n)
    BY <1>0, <1>2, <2>2 DEF BuyShares, Used
  <2>10. Bought = Sum(f) /\ Bought' = Sum(g)
    BY <1>1, <1>2, <2>1, <2>2 DEF Bought, Buys
  <2> QED
    BY <2>7, <2>8, <2>9, <2>10
<1> QED
  BY <1>7, <1>8

\* Orders of which nothing is outstanding do not count.
LEMMA SumWithout ==
  ASSUME NEW S, NEW T \in SUBSET S, NEW f \in [S -> Nat], NEW g \in [T -> Nat],
         \A x \in T : f[x] = g[x], \A x \in S \ T : f[x] = 0
  PROVE  Sum(f) = Sum(g)
<1>1. ASSUME NEW x \in S, NEW i \in 1 .. f[x] PROVE x \in T /\ i \in 1 .. g[x]
  OBVIOUS
<1>2. ASSUME NEW x \in T PROVE x \in S /\ f[x] = g[x]
  OBVIOUS
<1>3. PICK F : F = UNION {{o} \X (1 .. f[o]) : o \in S}
  OBVIOUS
<1>4. PICK G : G = UNION {{o} \X (1 .. g[o]) : o \in T}
  OBVIOUS
<1>5. ASSUME NEW e \in F PROVE e \in G
  <2>1. PICK x \in S : e \in {x} \X (1 .. f[x])
    BY <1>3
  <2>2. PICK i \in 1 .. f[x] : e = <<x, i>>
    BY <2>1
  <2>3. x \in T /\ i \in 1 .. g[x]
    BY <1>1
  <2> QED
    BY <1>4, <2>2, <2>3
<1>6. ASSUME NEW e \in G PROVE e \in F
  <2>1. PICK x \in T : e \in {x} \X (1 .. g[x])
    BY <1>4
  <2>2. x \in S /\ e \in {x} \X (1 .. f[x])
    BY <1>2, <2>1
  <2> QED
    BY <1>3, <2>2
<1>7. F = G
  BY <1>5, <1>6
<1>8. Sum(f) = Cardinality(F) /\ Sum(g) = Cardinality(G)
  BY <1>3, <1>4 DEF Sum
<1> QED
  BY <1>7, <1>8

\* A step that leaves what is outstanding as it is, and may forget orders of
\* which nothing is.
Stays ==
  /\ Used' \subseteq Used
  /\ \A p \in Used' : /\ orders'[p].ticker = orders[p].ticker
                      /\ orders'[p].side = orders[p].side
                      /\ orders'[p].quantity = orders[p].quantity
                      /\ Left(orders'[p]) = Left(orders[p])
  /\ \A p \in Used \ Used' : Left(orders[p]) = 0

LEMMA TickerStays ==
  ASSUME OrdersKept, OrdersKept', Stays, NEW t, NEW side
  PROVE  AllOf(OfTicker(t, side))' = AllOf(OfTicker(t, side))
<1>1. PICK S : S = {p \in Used : orders[p].ticker = t /\ orders[p].side = side}
  OBVIOUS
<1>2. PICK T : T = {p \in Used' : orders'[p].ticker = t /\ orders'[p].side = side}
  OBVIOUS
<1>3. S \in SUBSET Used /\ T \in SUBSET Used' /\ T \in SUBSET S
  BY <1>1, <1>2 DEF Stays
<1>4. \A p \in T : Left(orders'[p]) = Left(orders[p])
  BY <1>2 DEF Stays
<1>5. \A p \in S \ T : Left(orders[p]) = 0
  BY <1>1, <1>2 DEF Stays
<1>7. PICK f, g : f = [p \in S |-> Outstanding(p)] /\ g = [p \in T |-> Outstanding(p)']
  OBVIOUS
<1>71. f \in [S -> Nat] /\ \A p \in S : f[p] = Left(orders[p])
  BY <1>3, <1>7, OutstandingOf
<1>72. g \in [T -> Nat] /\ \A p \in T : g[p] = Left(orders'[p])
  BY <1>3, <1>7, OutstandingThen
<1>8. Sum(f) = Sum(g)
  BY <1>3, <1>4, <1>5, <1>71, <1>72, SumWithout
<1>9. AllOf(OfTicker(t, side)) = Sum(f)
  BY <1>1, <1>7 DEF AllOf, OfTicker
<1>10. AllOf(OfTicker(t, side))' = Sum(g)
  BY <1>2, <1>7 DEF AllOf, OfTicker
<1> QED
  BY <1>8, <1>9, <1>10

LEMMA BuysStay ==
  ASSUME OrdersKept, OrdersKept', Stays
  PROVE  AllOf(Buys)' = AllOf(Buys) /\ (Used' = Used => Bought' = Bought)
<1>1. PICK S : S = {p \in Used : orders[p].side = "buy"}
  OBVIOUS
<1>2. PICK T : T = {p \in Used' : orders'[p].side = "buy"}
  OBVIOUS
<1>3. S \in SUBSET Used /\ T \in SUBSET Used' /\ T \in SUBSET S
  BY <1>1, <1>2 DEF Stays
<1>4. \A p \in T : Left(orders'[p]) = Left(orders[p])
  BY <1>2 DEF Stays
<1>5. \A p \in S \ T : Left(orders[p]) = 0
  BY <1>1, <1>2 DEF Stays
<1>6. AllOf(Buys)' = AllOf(Buys)
  <2>7. PICK f, g : f = [p \in S |-> Outstanding(p)] /\ g = [p \in T |-> Outstanding(p)']
    OBVIOUS
  <2>71. f \in [S -> Nat] /\ \A p \in S : f[p] = Left(orders[p])
    BY <1>3, <2>7, OutstandingOf
  <2>72. g \in [T -> Nat] /\ \A p \in T : g[p] = Left(orders'[p])
    BY <1>3, <2>7, OutstandingThen
  <2>8. Sum(f) = Sum(g)
    BY <1>3, <1>4, <1>5, <2>71, <2>72, SumWithout
  <2>9. AllOf(Buys) = Sum(f)
    BY <1>1, <2>7 DEF AllOf, Buys
  <2>10. AllOf(Buys)' = Sum(g)
    BY <1>2, <2>7 DEF AllOf, Buys
  <2> QED
    BY <2>8, <2>9, <2>10
<1>7. ASSUME Used' = Used PROVE Bought' = Bought
  <2>1. PICK f : f = [p \in S |-> orders[p].quantity]
    OBVIOUS
  <2>2. PICK g : g = [p \in T |-> orders'[p].quantity]
    OBVIOUS
  <2>3. S = T /\ \A p \in S : orders'[p].quantity = orders[p].quantity
    BY <1>1, <1>2, <1>7 DEF Stays
  <2>4. f = g
    BY <2>1, <2>2, <2>3
  <2>5. Bought = Sum(f) /\ Bought' = Sum(g)
    BY <1>1, <1>2, <2>1, <2>2 DEF Bought, Buys
  <2> QED
    BY <2>4, <2>5
<1> QED
  BY <1>6, <1>7

\* Then every position and the cash are as far from their bounds as before.
LEMMA AllStays ==
  ASSUME OrdersKept, OrdersKept', Stays, shown' = shown
  PROVE  /\ NeverOvershoots => NeverOvershoots'
         /\ BuysAreCovered => BuysAreCovered'
         /\ \A t : Coming(t)' = Coming(t)
<1>1. \A t : /\ AllOf(OfTicker(t, "buy"))' = AllOf(OfTicker(t, "buy"))
             /\ AllOf(OfTicker(t, "sell"))' = AllOf(OfTicker(t, "sell"))
  BY TickerStays
<1>2. NeverOvershoots => NeverOvershoots'
  BY <1>1 DEF NeverOvershoots
<1>3. BuysAreCovered => BuysAreCovered'
  BY BuysStay DEF BuysAreCovered, Buys
<1>4. \A t : Coming(t)' = Coming(t)
  BY <1>1 DEF Coming
<1> QED
  BY <1>2, <1>3, <1>4

LEMMA UnchangedStays ==
  ASSUME OrdersKept, UNCHANGED orders
  PROVE  OrdersKept' /\ Stays /\ Used' = Used
  BY DEF OrdersKept, Stays, Used

LEMMA EndsOfTwo ==
  ASSUME NEW a \in Nat, NEW b \in Nat
  PROVE  /\ Max({a, b}) \in Nat /\ a <= Max({a, b}) /\ b <= Max({a, b})
         /\ Min({a, b}) \in Nat /\ Min({a, b}) <= a /\ Min({a, b}) <= b
         /\ Min({a, b}) \in {a, b}
<1>1. \E x \in {a, b} : \A y \in {a, b} : x >= y
  BY a >= b \/ b >= a
<1>2. \E x \in {a, b} : \A y \in {a, b} : x <= y
  BY a <= b \/ b <= a
<1>3. Max({a, b}) \in {a, b} /\ \A y \in {a, b} : Max({a, b}) >= y
  BY <1>1 DEF Max
<1>4. Min({a, b}) \in {a, b} /\ \A y \in {a, b} : Min({a, b}) <= y
  BY <1>2 DEF Min
<1> QED
  BY <1>3, <1>4

LEMMA EndsOfRange ==
  ASSUME NEW t \in Tickers
  PROVE  /\ Max({InitialShares[t], TargetShares[t]}) \in Nat
         /\ InitialShares[t] <= Max({InitialShares[t], TargetShares[t]})
         /\ TargetShares[t] <= Max({InitialShares[t], TargetShares[t]})
         /\ Min({InitialShares[t], TargetShares[t]}) \in Nat
         /\ Min({InitialShares[t], TargetShares[t]}) <= InitialShares[t]
         /\ Min({InitialShares[t], TargetShares[t]}) <= TargetShares[t]
  BY SharesAndCash, EndsOfTwo

\* An order that goes on, with no more outstanding than before.
LEMMA OrderGoesOn ==
  ASSUME OrdersKept, NEW o \in Slots, orders[o] # NoOrder, NEW n, OrderKept(n),
         orders' = [p \in Slots |-> orders'[p]], Becomes(o, n),
         n.ticker = orders[o].ticker, n.side = orders[o].side,
         n.quantity = orders[o].quantity, Left(n) <= Left(orders[o]), shown' = shown,
         \A t \in Tickers : shown.shares[t] \in Nat, shown.cash \in Nat
  PROVE  /\ OrdersKept' /\ Used' = Used
         /\ NeverOvershoots => NeverOvershoots'
         /\ BuysAreCovered => BuysAreCovered'
         /\ AllOf(Buys)' <= AllOf(Buys) /\ Bought' = Bought
         /\ \A p \in Used : orders'[p].ticker = orders[p].ticker
         /\ \A t \in Tickers : t # orders[o].ticker \/ Left(n) = Left(orders[o])
                                 => Coming(t)' = Coming(t)
<1>0. orders'[o] = n /\ \A p \in Slots \ {o} : orders'[p] = orders[p]
  BY DEF Becomes
<1>1. n # NoOrder /\ Left(n) \in Nat
  BY LeftIsNatural
<1>2. Left(orders[o]) \in Nat /\ OrderKept(orders[o])
  BY LeftIsNatural DEF OrdersKept
<1>3. OrdersKept'
  BY <1>0 DEF OrdersKept
<1>4. Used' = Used
  BY <1>0, <1>1 DEF Used
<1>5. ASSUME NEW t, NEW side
      PROVE  /\ AllOf(OfTicker(t, side))' <= AllOf(OfTicker(t, side))
             /\ AllOf(OfTicker(t, side))' \in Nat /\ AllOf(OfTicker(t, side)) \in Nat
             /\ t # orders[o].ticker \/ Left(n) = Left(orders[o])
                  => AllOf(OfTicker(t, side))' = AllOf(OfTicker(t, side))
  <2>1. AllOf(OfTicker(t, side))' = AllOf(OfTicker(t, side))
            - Part(orders[o], t, side) + Part(n, t, side)
    BY <1>3, TickerChanges
  <2>2. /\ Part(orders[o], t, side) \in Nat /\ Part(n, t, side) \in Nat
        /\ Part(n, t, side) <= Part(orders[o], t, side)
        /\ t # orders[o].ticker \/ Left(n) = Left(orders[o])
             => Part(n, t, side) = Part(orders[o], t, side)
    BY <1>1, <1>2 DEF Part
  <2>3. AllOf(OfTicker(t, side)) \in Nat /\ Part(orders[o], t, side) <= AllOf(OfTicker(t, side))
    <3>1. OfTicker(t, side) \in SUBSET Used
      BY DEF OfTicker
    <3>2. PICK os : os = OfTicker(t, side)
      OBVIOUS
    <3>3. AllOf(os) \in Nat /\ \A p \in os : Left(orders[p]) <= AllOf(os)
      BY <3>1, <3>2, AllIsNatural
    <3>4. Part(orders[o], t, side) = IF o \in os THEN Left(orders[o]) ELSE 0
      BY <3>2 DEF Part, OfTicker, Used
    <3> QED
      BY <3>2, <3>3, <3>4
  <2> QED
    BY <2>1, <2>2, <2>3
<1>6. NeverOvershoots => NeverOvershoots'
  <2> SUFFICES ASSUME NeverOvershoots, NEW t \in Tickers
      PROVE  /\ shown.shares[t] + AllOf(OfTicker(t, "buy"))'
                  <= Max({InitialShares[t], TargetShares[t]})
             /\ shown.shares[t] - AllOf(OfTicker(t, "sell"))'
                  >= Min({InitialShares[t], TargetShares[t]})
    BY DEF NeverOvershoots
  <2>1. PICK b, c : b = AllOf(OfTicker(t, "buy")) /\ c = AllOf(OfTicker(t, "sell"))
    OBVIOUS
  <2>2. PICK bb, cc : bb = AllOf(OfTicker(t, "buy"))' /\ cc = AllOf(OfTicker(t, "sell"))'
    OBVIOUS
  <2>3. {b, c, bb, cc} \subseteq Nat /\ bb <= b /\ cc <= c /\ shown.shares[t] \in Nat
    BY <1>5, <2>1, <2>2
  <2>4. PICK high, low : /\ high = Max({InitialShares[t], TargetShares[t]})
                         /\ low = Min({InitialShares[t], TargetShares[t]})
    OBVIOUS
  <2>5. high \in Nat /\ low \in Nat
    BY <2>4, EndsOfRange
  <2>6. shown.shares[t] + b <= high /\ shown.shares[t] - c >= low
    BY <2>1, <2>4 DEF NeverOvershoots
  <2>7. shown.shares[t] + bb <= high /\ shown.shares[t] - cc >= low
    BY <2>3, <2>5, <2>6
  <2> QED
    BY <2>2, <2>4, <2>7
<1>7. /\ AllOf(Buys)' <= AllOf(Buys) /\ Bought' = Bought
      /\ AllOf(Buys)' \in Nat /\ AllOf(Buys) \in Nat
  <2>1. /\ AllOf(Buys)' = AllOf(Buys) - BuyPart(orders[o]) + BuyPart(n)
        /\ Bought' = Bought - BuyShares(orders[o]) + BuyShares(n)
    BY <1>3, BuysChange
  <2>2. /\ BuyPart(orders[o]) \in Nat /\ BuyPart(n) \in Nat
        /\ BuyPart(n) <= BuyPart(orders[o])
    BY <1>1, <1>2 DEF BuyPart
  <2>3. BuyShares(n) = BuyShares(orders[o]) /\ BuyShares(n) \in Nat
    BY <1>1, <1>2, LeftIsNatural DEF BuyShares
  <2>4. AllOf(Buys) \in Nat /\ BuyPart(orders[o]) <= AllOf(Buys)
    <3>1. Buys \in SUBSET Used
      BY DEF Buys
    <3>2. PICK os : os = Buys
      OBVIOUS
    <3>3. AllOf(os) \in Nat /\ \A p \in os : Left(orders[p]) <= AllOf(os)
      BY <3>1, <3>2, AllIsNatural
    <3>4. BuyPart(orders[o]) = IF o \in os THEN Left(orders[o]) ELSE 0
      BY <3>2 DEF BuyPart, Buys, Used
    <3> QED
      BY <3>2, <3>3, <3>4
  <2>5. Bought \in Nat
    BY BoughtIsNatural
  <2> QED
    BY <2>1, <2>2, <2>3, <2>4, <2>5
<1>8. BuysAreCovered => BuysAreCovered'
  <2>1. BuysAreCovered <=> AllOf(Buys) <= shown.cash
    BY DEF BuysAreCovered, Buys
  <2>2. BuysAreCovered' <=> AllOf(Buys)' <= shown'.cash
    BY DEF BuysAreCovered, Buys
  <2> QED
    BY <1>7, <2>1, <2>2
<1>9. \A p \in Used : orders'[p].ticker = orders[p].ticker
  BY <1>0 DEF Used
<1>10. ASSUME NEW t \in Tickers, t # orders[o].ticker \/ Left(n) = Left(orders[o])
       PROVE  Coming(t)' = Coming(t)
  BY <1>5, <1>10 DEF Coming
<1> QED
  BY <1>3, <1>4, <1>6, <1>7, <1>8, <1>9, <1>10

LEMMA QuietStep ==
  ASSUME OrdersKept, NeverOvershoots, BuysAreCovered, UNCHANGED <<orders, shown>>
  PROVE  /\ OrdersKept' /\ NeverOvershoots' /\ BuysAreCovered' /\ Used' = Used
         /\ AllOf(Buys)' = AllOf(Buys) /\ Bought' = Bought
         /\ \A t : Coming(t)' = Coming(t)
<1>1. OrdersKept' /\ Stays /\ Used' = Used
  BY UnchangedStays
<1> QED
  BY <1>1, AllStays, BuysStay

LEMMA ComingIsInteger ==
  ASSUME OrdersKept, NEW t \in Tickers, shown.shares[t] \in Nat
  PROVE  Coming(t) \in Int
<1>1. PICK b, c : b = OfTicker(t, "buy") /\ c = OfTicker(t, "sell")
  OBVIOUS
<1>2. b \in SUBSET Used /\ c \in SUBSET Used
  BY <1>1 DEF OfTicker
<1>3. AllOf(b) \in Nat /\ AllOf(c) \in Nat
  BY <1>2, AllIsNatural
<1> QED
  BY <1>1, <1>3 DEF Coming

\* The lines of a run go on: fewer are unsent, what is unsent is as it was, and
\* the account is as far from what the run counts on as it was.
LEMMA LinesGoOn ==
  ASSUME OrdersKept, LinesKept, run.phase \in {"lines", "sending"},
         run'.shares = run.shares, run'.cash = run.cash, run'.todo \subseteq run.todo,
         Unsent(run') \subseteq Unsent(run), run.excused \subseteq run'.excused,
         \/ Unsent(run) \subseteq Unsent(run') \cup run'.excused
         \/ run'.cash_blocks \/ run'.halt_blocks,
         run.cash_blocks => run'.cash_blocks, run.halt_blocks => run'.halt_blocks,
         Rowed',
         \A p \in Used' : p \in Used /\ orders'[p].ticker = orders[p].ticker,
         \A t \in Unsent(run') : shown'.shares[t] = shown.shares[t],
         run.cash \in Nat, shown.cash \in Nat, shown'.cash \in Nat,
         AllOf(Buys)' \in Nat, Bought' \in Nat,
         AllOf(Buys)' + shown.cash + Bought <= AllOf(Buys) + shown'.cash + Bought',
         \A t \in Tickers \ run'.excused : Coming(t)' = Coming(t)
  PROVE  LinesKept'
<1>1. Rowed /\ Untouched /\ Afforded /\ OnTheWay
  BY DEF LinesKept
<1>2. Untouched'
  BY <1>1 DEF Untouched
<1>3. Afforded'
  <2>1. PICK a, b : a = AllOf(Buys) /\ b = Bought
    OBVIOUS
  <2>2. PICK aa, bb : aa = AllOf(Buys)' /\ bb = Bought'
    OBVIOUS
  <2>3. a \in Nat /\ b \in Nat
    <3>1. Buys \in SUBSET Used
      BY DEF Buys
    <3> QED
      BY <2>1, <3>1, AllIsNatural, BoughtIsNatural
  <2>4. a + run.cash <= shown.cash + b
    BY <1>1, <2>1 DEF Afforded
  <2>5. aa + shown.cash + b <= a + shown'.cash + bb
    BY <2>1, <2>2
  <2>6. aa \in Nat /\ bb \in Nat
    BY <2>2
  <2>7. aa + run.cash <= shown'.cash + bb
    BY <2>3, <2>4, <2>5, <2>6
  <2> QED
    BY <2>2, <2>7 DEF Afforded
<1>4. OnTheWay'
  <2> SUFFICES ASSUME NEW t \in Tickers, t \notin Unsent(run'), t \notin run'.excused,
                      ~run'.cash_blocks, ~run'.halt_blocks
               PROVE  Coming(t)' = TargetShares[t]
    BY DEF OnTheWay
  <2>1. Coming(t)' = Coming(t)
    OBVIOUS
  <2>2. t \notin Unsent(run) /\ t \notin run.excused /\ ~run.cash_blocks /\ ~run.halt_blocks
    OBVIOUS
  <2> QED
    BY <1>1, <2>1, <2>2 DEF OnTheWay
<1> QED
  BY <1>2, <1>3, <1>4 DEF LinesKept

-----------------------------------------------------------------------------
\* The next line.
LEMMA LineIsOfTheRun == Line = LineIn(run.todo, run.shares)
  BY DEF Line, LineIn, ComesBefore, Side

LEMMA LeastTicker ==
  ASSUME NEW T \in SUBSET Nat, T # {}
  PROVE  \E x \in T : \A y \in T : x <= y
<1>1. PICK R : R = OpToRel(<, Nat)
  OBVIOUS
<1>2. IsWellFoundedOn(R, Nat)
  BY <1>1, NatLessThanWellFounded
<1>3. PICK x \in T : \A y \in T : ~ (<<y, x>> \in R)
  BY <1>2, WFMin
<1>4. \A a, b \in Nat : a < b => <<a, b>> \in R
  BY <1>1 DEF OpToRel
<1>5. ASSUME NEW y \in T PROVE x <= y
  <2>1. ~(y < x)
    BY <1>3, <1>4, Zenon
  <2> QED
    BY <2>1
<1> QED
  BY <1>5

LEMMA LineIsToDo ==
  ASSUME run.todo \subseteq Tickers, run.todo # {}
  PROVE  Line \in run.todo
<1>1. PICK sells : sells = {t \in run.todo : Side(t) = "sell"}
  OBVIOUS
<1>2. PICK first : /\ first \in run.todo
                   /\ \A u \in run.todo \ {first} : ComesBefore(first, u)
  <2>1. CASE sells # {}
    <3>1. sells \in SUBSET Nat
      BY <1>1, TickersAreOrdered
    <3>2. PICK t \in sells : \A u \in sells : t <= u
      BY <2>1, <3>1, LeastTicker
    <3>3. ASSUME NEW u \in run.todo \ {t} PROVE ComesBefore(t, u)
      <4>1. t \in Nat /\ u \in Nat /\ Side(t) = "sell"
        BY <1>1, <3>1, TickersAreOrdered
      <4>2. CASE u \in sells
        BY <1>1, <3>2, <4>1, <4>2 DEF ComesBefore
      <4>3. CASE u \notin sells
        BY <1>1, <4>1, <4>3 DEF ComesBefore
      <4> QED
        BY <4>2, <4>3
    <3> QED
      BY <1>1, <3>2, <3>3
  <2>2. CASE sells = {}
    <3>1. run.todo \in SUBSET Nat
      BY TickersAreOrdered
    <3>2. PICK t \in run.todo : \A u \in run.todo : t <= u
      BY <3>1, LeastTicker
    <3>3. ASSUME NEW u \in run.todo \ {t} PROVE ComesBefore(t, u)
      <4>1. t \in Nat /\ u \in Nat /\ t <= u /\ t # u
        BY <3>1, <3>2
      <4>2. Side(t) = "buy" /\ Side(u) = "buy"
        BY <1>1, <2>2 DEF Side
      <4> QED
        BY <4>1, <4>2 DEF ComesBefore
    <3> QED
      BY <3>2, <3>3
  <2> QED
    BY <2>1, <2>2
<1>3. \E t \in run.todo : \A u \in run.todo \ {t} : ComesBefore(t, u)
  BY <1>2
<1> QED
  BY <1>3 DEF Line

-----------------------------------------------------------------------------
(* The steps. *)
LEMMA RunIsARecord ==
  ASSUME Types
  PROVE  /\ run # NoRun <=> run.phase \in {"read", "lines", "sending"}
         /\ run # NoRun => run \in RebalanceRuns /\ Counts(run.loaded)
         /\ NoRun.phase = "none" /\ NoRun \notin RebalanceRuns /\ NoRun \notin DryRuns
  BY DEF Types, RebalanceRuns, DryRuns, NoRun

LEMMA OutdatedRun ==
  ASSUME NEW r \in RebalanceRuns
  PROVE  LET s == Outdated(r) IN
         /\ s \in RebalanceRuns /\ s.phase = r.phase /\ s.elapsed = r.elapsed
         /\ s.shares = r.shares /\ s.cash = r.cash /\ s.on = r.on /\ s.loaded = r.loaded
         /\ ~s.fresh /\ s.todo = r.todo /\ s.cash_blocks = r.cash_blocks
         /\ s.halt_blocks = r.halt_blocks /\ s.excused = r.excused
<1>1. r # NoRun
  BY DEF RebalanceRuns, NoRun
<1>2. Outdated(r) = [r EXCEPT !.fresh = FALSE]
  BY <1>1 DEF Outdated
<1> QED
  BY <1>2 DEF RebalanceRuns

LEMMA OutdatedDryRun ==
  ASSUME NEW r \in DryRuns
  PROVE  LET s == Outdated(r) IN
         s \in DryRuns /\ s.on = r.on /\ s.loaded = r.loaded /\ ~s.fresh
<1>1. r # NoRun
  BY DEF DryRuns, NoRun
<1>2. Outdated(r) = [r EXCEPT !.fresh = FALSE]
  BY <1>1 DEF Outdated
<1> QED
  BY <1>2 DEF DryRuns

\* Steps in which the run stays at its line, or ends.
LEMMA RunStands ==
  ASSUME Traded, UNCHANGED <<orders, shown>>, Types', MarksKept',
         run' = run \/ run' = Outdated(run) \/ run' = NoRun
  PROVE  Traded'
<1>1. /\ OrdersKept' /\ NeverOvershoots' /\ BuysAreCovered' /\ Used' = Used
      /\ AllOf(Buys)' = AllOf(Buys) /\ Bought' = Bought
      /\ \A t : Coming(t)' = Coming(t)
  BY QuietStep DEF Traded
<1>2. CASE run' = NoRun
  BY <1>1, <1>2 DEF Traded, ReadKept, LinesKept, NoRun
<1>3. CASE run' # NoRun
  <2>1. run # NoRun /\ run \in RebalanceRuns
    BY <1>3, RunIsARecord DEF Traded, Outdated
  <2>2. /\ run'.phase = run.phase /\ run'.elapsed = run.elapsed
        /\ run'.shares = run.shares /\ run'.cash = run.cash
        /\ run'.todo = run.todo /\ run'.cash_blocks = run.cash_blocks
        /\ run'.halt_blocks = run.halt_blocks /\ run'.excused = run.excused
    BY <1>3, <2>1, OutdatedRun
  <2>3. ReadKept'
    BY <1>1, <2>2 DEF Traded, ReadKept
  <2>4. LinesKept'
    <3> SUFFICES ASSUME run'.phase \in {"lines", "sending"} PROVE LinesKept'
      BY DEF LinesKept
    <3>1. run.phase \in {"lines", "sending"} /\ OrdersKept /\ LinesKept
      BY <2>2 DEF Traded
    <3>2. Unsent(run') = Unsent(run)
      BY <2>2 DEF Unsent
    <3>3. Rowed'
      BY <1>1, <2>2, <3>1 DEF LinesKept, Rowed
    <3>4. run.cash \in Nat /\ shown.cash \in Nat /\ shown'.cash \in Nat
      BY <2>1 DEF RebalanceRuns, Traded, Types
    <3>5. AllOf(Buys) \in Nat /\ Bought \in Nat
      <4>1. Buys \in SUBSET Used
        BY DEF Buys
      <4> QED
        BY <3>1, <4>1, AllIsNatural, BoughtIsNatural
    <3>6. AllOf(Buys)' + shown.cash + Bought <= AllOf(Buys) + shown'.cash + Bought'
      BY <1>1, <3>4, <3>5
    <3> QED
      BY <1>1, <2>2, <3>1, <3>2, <3>3, <3>4, <3>5, <3>6, LinesGoOn
  <2> QED
    BY <1>1, <2>3, <2>4 DEF Traded
<1> QED
  BY <1>2, <1>3

LEMMA PeriodsAreNumbers ==
  ASSUME NEW d \in 1 .. Len(PeriodOf), NEW e \in 1 .. Len(PeriodOf), d <= e
  PROVE  /\ PeriodOf[d] \in Nat \ {0} /\ PeriodOf[d] \in Range(PeriodOf)
         /\ PeriodOf[d] <= PeriodOf[e]
  BY PeriodsFollow DEF Range

LEMMA MarksAreNumbers ==
  ASSUME NEW s \in Strategies
  PROVE  s.mark \in Nat /\ s.attempts \in Nat /\ s.attempts_on \in Nat
<1>1. \A d \in 1 .. Len(PeriodOf) : PeriodOf[d] \in Nat
  BY PeriodsFollow
<1>2. DOMAIN PeriodOf = 1 .. Len(PeriodOf)
  BY PeriodsFollow
<1>3. Len(PeriodOf) \in Nat
  BY PeriodsFollow
<1> QED
  BY <1>1, <1>2, <1>3, SettledOrdersAreShown DEF Strategies, Range

LEMMA ControlsKeep ==
  ASSUME Traded, NEW kill \in BOOLEAN, NEW auto \in BOOLEAN, SetControls(kill, auto)
  PROVE  Traded'
<1>1. Types' /\ MarksKept'
  BY DEF SetControls, Traded, Types, MarksKept, Current
<1> QED
  BY <1>1, RunStands DEF SetControls

LEMMA NextDayKeeps ==
  ASSUME Traded, NextDay
  PROVE  Traded'
<1>1. Types'
  BY PeriodsFollow DEF NextDay, Traded, Types
<1>2. ASSUME NEW r, Current(r), r.on \in 1 .. Len(PeriodOf) PROVE Current(r)'
  BY <1>2 DEF NextDay, Current, Traded, Types
<1>3. strategy.mark <= PeriodOf[day']
  <2>1. day \in 1 .. Len(PeriodOf) /\ day' \in 1 .. Len(PeriodOf) /\ day <= day'
    BY <1>1 DEF NextDay, Traded, Types
  <2>2. PeriodOf[day] \in Nat /\ PeriodOf[day'] \in Nat /\ PeriodOf[day] <= PeriodOf[day']
    BY <2>1, PeriodsAreNumbers
  <2>3. strategy.mark \in Nat /\ strategy.mark <= PeriodOf[day]
    BY MarksAreNumbers DEF Traded, Types, Counts, MarksKept
  <2> QED
    BY <2>2, <2>3
<1>4. MarksKept'
  <2>1. run # NoRun => run.on \in 1 .. Len(PeriodOf)
    BY DEF Traded, Types, RebalanceRuns
  <2>2. dry # NoRun => dry.on \in 1 .. Len(PeriodOf)
    BY DEF Traded, Types, DryRuns
  <2>3. run # NoRun => Current(run)'
    BY <1>2, <2>1 DEF Traded, MarksKept, NextDay, Current
  <2>4. dry # NoRun => Current(dry)'
    BY <1>2, <2>2 DEF Traded, MarksKept, NextDay, Current
  <2> QED
    BY <1>3, <2>3, <2>4 DEF MarksKept, NextDay
<1> QED
  BY <1>1, <1>4, RunStands DEF NextDay

\* Whoever saves the strategy outdates the others.
LEMMA SavingOutdates ==
  ASSUME Traded, UNCHANGED <<settings, day, orders, shown>>,
         Counts(strategy'), strategy'.mark <= PeriodOf[day],
         \/ run' = NoRun \/ run' = Outdated(run) \/ UNCHANGED <<run, strategy>>,
         \/ dry' = NoRun \/ dry' = Outdated(dry) \/ UNCHANGED <<dry, strategy>>
  PROVE  Traded'
<1>1. run' = NoRun \/ (run' \in RebalanceRuns /\ Counts(run'.loaded) /\ Current(run)')
  <2>1. CASE run = NoRun \/ run' = NoRun
    BY <2>1 DEF Outdated
  <2>2. CASE run # NoRun /\ UNCHANGED <<run, strategy>>
    BY <2>2 DEF Traded, Types, MarksKept, Current
  <2>3. CASE run # NoRun /\ run' = Outdated(run)
    <3>1. run \in RebalanceRuns /\ Counts(run.loaded) /\ Current(run)
      BY <2>3 DEF Traded, Types, MarksKept
    <3>2. run' \in RebalanceRuns /\ run'.on = run.on /\ run'.loaded = run.loaded /\ ~run'.fresh
      BY <2>3, <3>1, OutdatedRun
    <3> QED
      BY <3>1, <3>2 DEF Current
  <2> QED
    BY <2>1, <2>2, <2>3
<1>2. dry' = NoRun \/ (dry' \in DryRuns /\ Current(dry)')
  <2>1. CASE dry = NoRun \/ dry' = NoRun
    BY <2>1 DEF Outdated
  <2>2. CASE dry # NoRun /\ UNCHANGED <<dry, strategy>>
    BY <2>2 DEF Traded, Types, MarksKept, Current
  <2>3. CASE dry # NoRun /\ dry' = Outdated(dry)
    <3>1. dry \in DryRuns /\ Current(dry)
      BY <2>3 DEF Traded, Types, MarksKept
    <3>2. dry' \in DryRuns /\ dry'.on = dry.on /\ dry'.loaded = dry.loaded /\ ~dry'.fresh
      BY <2>3, <3>1, OutdatedDryRun
    <3> QED
      BY <3>1, <3>2 DEF Current
  <2> QED
    BY <2>1, <2>2, <2>3
<1>3. MarksKept'
  BY <1>1, <1>2 DEF MarksKept
<1>4. settings' = settings /\ day' = day /\ shown' = shown
  OBVIOUS
<1>5. /\ settings' \in [kill : BOOLEAN, auto : BOOLEAN] /\ day' \in 1 .. Len(PeriodOf)
      /\ shown' \in [shares : [Tickers -> Nat], cash : Nat]
  BY <1>4 DEF Traded, Types
<1>6. Types'
  BY <1>1, <1>2, <1>5 DEF Types
<1> QED
  BY <1>3, <1>6, RunStands

\* What a run or a dry run records is a period that has come.
LEMMA PeriodHasCome ==
  ASSUME Traded, NEW r, Current(r), r.on \in 1 .. Len(PeriodOf), r.loaded \in Strategies
  PROVE  /\ PeriodOf[r.on] <= PeriodOf[day] /\ r.loaded.mark <= PeriodOf[day]
         /\ PeriodOf[r.on] \in Range(PeriodOf)
<1>1. day \in 1 .. Len(PeriodOf) /\ r.on <= day
  BY DEF Traded, Types, Current
<1>2. /\ PeriodOf[r.on] \in Nat /\ PeriodOf[day] \in Nat /\ PeriodOf[r.on] <= PeriodOf[day]
      /\ PeriodOf[r.on] \in Range(PeriodOf)
  BY <1>1, PeriodsAreNumbers
<1>3. r.loaded.mark \in Nat /\ r.loaded.mark <= PeriodOf[r.on]
  BY MarksAreNumbers DEF Current
<1> QED
  BY <1>2, <1>3

LEMMA EditKeeps ==
  ASSUME Traded, EditStrategy \/ RunLost \/ DryRunLost
  PROVE  Traded'
<1>1. Counts(strategy') /\ strategy'.mark <= PeriodOf[day]
  BY DEF EditStrategy, RunLost, DryRunLost, Traded, Types, MarksKept
<1> QED
  BY <1>1, SavingOutdates DEF EditStrategy, RunLost, DryRunLost

LEMMA BeginDryRunKeeps ==
  ASSUME Traded, BeginDryRun
  PROVE  Traded'
<1>1. dry' \in DryRuns /\ Current(dry)'
  BY DEF BeginDryRun, Traded, Types, MarksKept, Counts, DryRuns, Current
<1>2. run # NoRun => Current(run)'
  BY DEF BeginDryRun, Traded, MarksKept, Current
<1>3. Types' /\ MarksKept'
  BY <1>1, <1>2 DEF BeginDryRun, Traded, Types, MarksKept
<1> QED
  BY <1>3, RunStands DEF BeginDryRun

LEMMA DryRunWritesKeeps ==
  ASSUME Traded, DryRunWrites
  PROVE  Traded' /\ strategy'.mark >= strategy.mark
<1>1. dry \in DryRuns /\ Current(dry) /\ dry.on \in 1 .. Len(PeriodOf) /\ dry.loaded \in Strategies
  BY DEF DryRunWrites, Traded, Types, MarksKept, DryRuns
<1>2. PICK halted \in {FALSE, settings.kill} :
        strategy' = [mark |-> IF halted THEN dry.loaded.mark ELSE PeriodOf[dry.on],
                     attempts_on |-> 0, attempts |-> 0]
  BY DEF DryRunWrites
<1>3. strategy'.mark \in {dry.loaded.mark, PeriodOf[dry.on]}
  BY <1>2
<1>4. strategy'.mark <= PeriodOf[day]
  BY <1>1, <1>3, PeriodHasCome
<1>5. Counts(strategy')
  <2>1. strategy'.mark \in {0} \cup Range(PeriodOf)
    BY <1>1, <1>3, PeriodHasCome DEF Strategies
  <2>2. strategy' = [mark |-> strategy'.mark, attempts_on |-> 0, attempts |-> 0]
    BY <1>2
  <2>3. 0 \in 0 .. Len(PeriodOf) /\ 0 \in 0 .. MAX_CASH_BLOCKED_ATTEMPTS + 1
    BY PeriodsFollow, SettledOrdersAreShown
  <2> QED
    BY <2>1, <2>2, <2>3 DEF Counts, Strategies
<1>6. strategy'.mark >= strategy.mark
  <2>1. dry.loaded = strategy /\ dry.loaded.mark <= PeriodOf[dry.on]
    BY <1>1 DEF Current, DryRunWrites
  <2>2. strategy.mark \in Nat /\ PeriodOf[dry.on] \in Nat
    BY <1>1, <2>1, MarksAreNumbers, PeriodsAreNumbers
  <2> QED
    BY <1>3, <2>1, <2>2
<1> QED
  BY <1>4, <1>5, <1>6, SavingOutdates DEF DryRunWrites

LEMMA UnplannedKeeps ==
  ASSUME Traded, NEW marks \in BOOLEAN, RecordUnplanned(marks)
  PROVE  /\ Traded' /\ strategy'.mark >= strategy.mark
         /\ strategy'.mark \in {run.loaded.mark, PeriodOf[run.on]}
         /\ run' = NoRun /\ run # NoRun
<1>1. /\ run # NoRun /\ run \in RebalanceRuns /\ Current(run) /\ run.on \in 1 .. Len(PeriodOf)
      /\ run.loaded \in Strategies /\ Counts(run.loaded)
  BY RunIsARecord DEF RecordUnplanned, Traded, MarksKept, RebalanceRuns
<1>2. strategy' = [run.loaded EXCEPT !.mark = IF marks THEN PeriodOf[run.on] ELSE @]
  <2>1. run.loaded = [run.loaded EXCEPT !.mark = run.loaded.mark]
    BY <1>1 DEF Strategies
  <2>2. CASE marks
    BY <2>2 DEF RecordUnplanned
  <2>3. CASE ~marks
    BY <2>1, <2>3 DEF RecordUnplanned
  <2> QED
    BY <2>2, <2>3
<1>3. /\ strategy'.mark \in {run.loaded.mark, PeriodOf[run.on]}
      /\ strategy'.attempts = run.loaded.attempts
      /\ strategy'.attempts_on = run.loaded.attempts_on
  BY <1>1, <1>2 DEF Strategies
<1>4. strategy'.mark <= PeriodOf[day] /\ strategy'.mark \in {0} \cup Range(PeriodOf)
  BY <1>1, <1>3, PeriodHasCome DEF Strategies
<1>5. Counts(strategy')
  BY <1>1, <1>2, <1>3, <1>4 DEF Counts, Strategies
<1>6. strategy'.mark >= strategy.mark
  <2>1. run.loaded = strategy /\ run.loaded.mark <= PeriodOf[run.on]
    BY <1>1 DEF Current, RecordUnplanned
  <2>2. strategy.mark \in Nat /\ PeriodOf[run.on] \in Nat
    BY <1>1, <2>1, MarksAreNumbers, PeriodsAreNumbers
  <2> QED
    BY <1>3, <2>1, <2>2
<1> QED
  BY <1>1, <1>3, <1>4, <1>5, <1>6, SavingOutdates DEF RecordUnplanned

LEMMA AttemptsAreCounted ==
  ASSUME Traded, run # NoRun
  PROVE  /\ CashBlockedAttempts \in 0 .. MAX_CASH_BLOCKED_ATTEMPTS + 1
         /\ run.cash_blocks => CashBlockedAttempts > 0
<1>1. run \in RebalanceRuns /\ run.loaded \in Strategies
  BY RunIsARecord DEF Traded, RebalanceRuns
<1>2. PICK a : a = 1 + (IF run.loaded.attempts_on = run.on THEN run.loaded.attempts ELSE 0)
  OBVIOUS
<1>3. a \in Nat /\ a > 0
  BY <1>1, <1>2, MarksAreNumbers
<1>4. MAX_CASH_BLOCKED_ATTEMPTS + 1 \in Nat
  BY SettledOrdersAreShown
<1>5. /\ Min({MAX_CASH_BLOCKED_ATTEMPTS + 1, a}) \in {MAX_CASH_BLOCKED_ATTEMPTS + 1, a}
      /\ Min({MAX_CASH_BLOCKED_ATTEMPTS + 1, a}) <= MAX_CASH_BLOCKED_ATTEMPTS + 1
  BY <1>3, <1>4, EndsOfTwo
<1>6. CashBlockedAttempts
        = IF ~run.cash_blocks THEN 0 ELSE Min({MAX_CASH_BLOCKED_ATTEMPTS + 1, a})
  BY <1>2 DEF CashBlockedAttempts
<1>7. PICK m : m = Min({MAX_CASH_BLOCKED_ATTEMPTS + 1, a})
  OBVIOUS
<1>8. m \in 1 .. MAX_CASH_BLOCKED_ATTEMPTS + 1
  BY <1>3, <1>4, <1>5, <1>7, SettledOrdersAreShown
<1> QED
  BY <1>4, <1>6, <1>7, <1>8

LEMMA RecordKeeps ==
  ASSUME Traded, Record
  PROVE  Traded' /\ strategy'.mark >= strategy.mark
<1>1. /\ run # NoRun /\ run \in RebalanceRuns /\ Current(run) /\ run.on \in 1 .. Len(PeriodOf)
      /\ run.loaded \in Strategies /\ Counts(run.loaded)
  BY RunIsARecord DEF Record, Finished, Traded, MarksKept, RebalanceRuns
<1>2. PICK m : m = IF ToBeContinued THEN run.loaded.mark ELSE PeriodOf[run.on]
  OBVIOUS
<1>3. PICK c : c = CashBlockedAttempts
  OBVIOUS
<1>4. strategy' = [mark |-> m, attempts_on |-> IF c > 0 THEN run.on ELSE 0, attempts |-> c]
  BY <1>2, <1>3 DEF Record
<1>5. c \in 0 .. MAX_CASH_BLOCKED_ATTEMPTS + 1
  BY <1>1, <1>3, AttemptsAreCounted
<1>6. m \in {run.loaded.mark, PeriodOf[run.on]}
  BY <1>2
<1>7. m <= PeriodOf[day] /\ m \in {0} \cup Range(PeriodOf)
  BY <1>1, <1>6, PeriodHasCome DEF Strategies
<1>8. Counts(strategy')
  <2>1. PICK d : d = IF c > 0 THEN run.on ELSE 0
    OBVIOUS
  <2>2. d \in 0 .. Len(PeriodOf) /\ (c = 0 <=> d = 0)
    BY <1>1, <1>5, <2>1, PeriodsFollow, SettledOrdersAreShown
  <2> QED
    BY <1>4, <1>5, <1>7, <2>1, <2>2 DEF Counts, Strategies
<1>9. strategy'.mark >= strategy.mark
  <2>1. run.loaded = strategy /\ run.loaded.mark <= PeriodOf[run.on]
    BY <1>1 DEF Current, Record
  <2>2. strategy.mark \in Nat /\ PeriodOf[run.on] \in Nat
    BY <1>1, <2>1, MarksAreNumbers, PeriodsAreNumbers
  <2> QED
    BY <1>4, <1>6, <2>1, <2>2
<1> QED
  BY <1>1, <1>4, <1>7, <1>8, <1>9, SavingOutdates DEF Record

LEMMA ReadAccountKeeps ==
  ASSUME Traded, ReadAccount
  PROVE  Traded'
<1>1. /\ OrdersKept' /\ NeverOvershoots' /\ BuysAreCovered'
  BY QuietStep DEF Traded, ReadAccount
<1>2. /\ day \in 1 .. Len(PeriodOf) /\ Counts(strategy) /\ strategy \in Strategies
      /\ shown.shares \in [Tickers -> Nat] /\ shown.cash \in Nat
      /\ strategy.mark <= PeriodOf[day]
  BY DEF Traded, Types, Counts, MarksKept
<1>3. 0 \in 0 .. RunLimit /\ day <= day
  BY <1>2, PeriodsFollow, SettledOrdersAreShown
<1>4. run' \in RebalanceRuns /\ Counts(run'.loaded)
  BY <1>2, <1>3 DEF ReadAccount, RebalanceRuns
<1>5. Types'
  BY <1>4 DEF ReadAccount, Traded, Types
<1>6. MarksKept'
  <2>1. Current(run)'
    BY <1>2, <1>3 DEF ReadAccount, Current
  <2>2. dry # NoRun => Current(dry)'
    BY DEF Traded, MarksKept, ReadAccount, Current
  <2> QED
    BY <1>2, <2>1, <2>2 DEF ReadAccount, MarksKept
<1>7. ReadKept' /\ LinesKept'
  BY DEF ReadAccount, ReadKept, LinesKept
<1> QED
  BY <1>1, <1>5, <1>6, <1>7 DEF Traded

LEMMA NothingIsKept ==
  ASSUME OrdersKept, ~InFlight
  PROVE  Used = {}
<1>1. ASSUME NEW o \in Used PROVE FALSE
  <2>1. OrderKept(orders[o])
    BY DEF OrdersKept, Used
  <2>2. orders[o].age <= ORDER_SETTLE_TIME
    BY <2>1 DEF OrderKept
  <2> QED
    BY <2>2 DEF InFlight
<1> QED
  BY <1>1

LEMMA NothingComes ==
  ASSUME Used = {}, NEW t \in Tickers, shown.shares[t] \in Nat
  PROVE  Coming(t) = shown.shares[t]
<1>1. OfTicker(t, "buy") = {} /\ OfTicker(t, "sell") = {}
  BY DEF OfTicker
<1>2. AllOf(OfTicker(t, "buy")) = 0 /\ AllOf(OfTicker(t, "sell")) = 0
  BY <1>1, NothingOfNone
<1> QED
  BY <1>2 DEF Coming

\* A run that plans has read an account that shows everything.
LEMMA PlansOnTheTruth ==
  ASSUME Traded, run.phase = "read", ~InFlight
  PROVE  /\ Used = {} /\ shown.shares = run.shares /\ shown.cash = run.cash
         /\ \A t \in Tickers : Coming(t) = run.shares[t]
<1>1. Used = {}
  BY NothingIsKept DEF Traded
<1>2. shown.shares = run.shares /\ shown.cash = run.cash
  BY <1>1 DEF Traded, ReadKept
<1>3. \A t \in Tickers : shown.shares[t] \in Nat
  BY DEF Traded, Types
<1> QED
  BY <1>1, <1>2, <1>3, NothingComes

LEMMA QuantitiesAreNumbers ==
  ASSUME Traded, run # NoRun, NEW t \in Tickers
  PROVE  /\ Quantity(t) \in Nat /\ Side(t) \in {"buy", "sell"}
         /\ Quantity(t) > 0 <=> run.shares[t] # TargetShares[t]
         /\ Side(t) = "buy" => TargetShares[t] = run.shares[t] + Quantity(t)
         /\ Side(t) = "sell" => run.shares[t] = TargetShares[t] + Quantity(t)
         /\ run.shares[t] \in Nat /\ TargetShares[t] \in Nat
<1>1. run.shares[t] \in Nat /\ TargetShares[t] \in Nat
  BY RunIsARecord, SharesAndCash DEF Traded, RebalanceRuns
<1> QED
  BY <1>1 DEF Quantity, Side

LEMMA MakePlanKeeps ==
  ASSUME Traded, MakePlan
  PROVE  Traded'
<1>1. /\ OrdersKept' /\ NeverOvershoots' /\ BuysAreCovered' /\ Used' = Used
      /\ AllOf(Buys)' = AllOf(Buys) /\ Bought' = Bought
      /\ \A t : Coming(t)' = Coming(t)
  BY QuietStep DEF Traded, MakePlan
<1>2. run # NoRun /\ run \in RebalanceRuns /\ Counts(run.loaded)
  BY RunIsARecord DEF Traded, MakePlan
<1>3. /\ Used = {} /\ shown.shares = run.shares /\ shown.cash = run.cash
      /\ \A t \in Tickers : Coming(t) = run.shares[t]
  BY PlansOnTheTruth DEF MakePlan
<1>4. PICK todo : todo = _build_rebalance_plan
  OBVIOUS
<1>5. todo \in SUBSET Tickers
  BY <1>4 DEF _build_rebalance_plan
<1>6. run' = [run EXCEPT !.phase = "lines", !.todo = todo, !.locked = TRUE]
  BY <1>4 DEF MakePlan
<1>7. /\ run' \in RebalanceRuns /\ run'.phase = "lines" /\ run'.todo = todo
      /\ run'.shares = run.shares /\ run'.cash = run.cash /\ run'.on = run.on
      /\ run'.loaded = run.loaded /\ run'.fresh = run.fresh /\ run' # NoRun
  BY <1>2, <1>5, <1>6 DEF RebalanceRuns, NoRun
<1>8. Types'
  BY <1>2, <1>7 DEF MakePlan, Traded, Types
<1>9. MarksKept'
  <2>1. Current(run)'
    BY <1>2, <1>7 DEF Traded, MarksKept, Current, MakePlan
  <2>2. dry # NoRun => Current(dry)'
    BY DEF Traded, MarksKept, MakePlan, Current
  <2> QED
    BY <2>1, <2>2 DEF MakePlan, Traded, MarksKept
<1>10. ReadKept'
  BY <1>7 DEF ReadKept
<1>11. LinesKept'
  <2>1. Unsent(run') = todo
    BY <1>7 DEF Unsent
  <2>2. Rowed'
    BY <1>1, <1>3 DEF Rowed
  <2>3. Untouched'
    <3>1. \A t \in todo : run.shares[t] # TargetShares[t]
      BY <1>2, <1>4, QuantitiesAreNumbers DEF _build_rebalance_plan
    <3> QED
      BY <1>1, <1>3, <1>7, <2>1, <3>1 DEF Untouched, MakePlan
  <2>4. Afforded'
    <3>1. Buys = {}
      BY <1>3 DEF Buys
    <3>2. AllOf(Buys) = 0
      BY <3>1, NothingOfNone
    <3>3. Bought = 0
      BY <3>1, BoughtIsNatural DEF Traded
    <3>4. run.cash \in Nat
      BY <1>2 DEF RebalanceRuns
    <3> QED
      BY <1>1, <1>3, <1>7, <3>2, <3>3, <3>4 DEF Afforded, MakePlan
  <2>5. OnTheWay'
    <3> SUFFICES ASSUME NEW t \in Tickers, t \notin todo
                 PROVE  Coming(t)' = TargetShares[t]
      BY <2>1 DEF OnTheWay
    <3>1. ~(Quantity(t) > 0)
      BY <1>4 DEF _build_rebalance_plan
    <3>2. run.shares[t] = TargetShares[t]
      BY <1>2, <3>1, QuantitiesAreNumbers
    <3> QED
      BY <1>1, <1>3, <3>2
  <2> QED
    BY <2>2, <2>3, <2>4, <2>5 DEF LinesKept
<1> QED
  BY <1>1, <1>8, <1>9, <1>10, <1>11 DEF Traded

LEMMA LineFacts ==
  ASSUME Traded, AtLine
  PROVE  /\ run \in RebalanceRuns /\ Counts(run.loaded) /\ run # NoRun
         /\ Line \in run.todo /\ Line \in Tickers /\ Unsent(run) = run.todo
         /\ Rowed /\ Untouched /\ Afforded /\ OnTheWay
         /\ \A o \in Used : orders[o].row \notin {"transmitting", "submission_unknown"}
<1>1. run.phase = "lines" /\ run.todo # {}
  BY DEF AtLine
<1>2. run \in RebalanceRuns /\ Counts(run.loaded) /\ run # NoRun
  BY <1>1, RunIsARecord DEF Traded
<1>3. run.todo \subseteq Tickers
  BY <1>2 DEF RebalanceRuns
<1>4. Line \in run.todo
  BY <1>1, <1>3, LineIsToDo
<1>5. Rowed /\ Untouched /\ Afforded /\ OnTheWay
  BY <1>1 DEF Traded, LinesKept
<1> QED
  BY <1>1, <1>2, <1>3, <1>4, <1>5 DEF Unsent, Rowed

\* A line that is refused is left, with its reason.
LEMMA RefusalKeeps ==
  ASSUME Traded, AtLine, UNCHANGED <<settings, day, strategy, dry, orders, shown>>,
         run' \in RebalanceRuns, run'.phase = run.phase, run'.elapsed = run.elapsed,
         run'.shares = run.shares, run'.cash = run.cash, run'.on = run.on,
         run'.loaded = run.loaded, run'.fresh = run.fresh,
         run'.todo = run.todo \ {Line}, run.excused \subseteq run'.excused,
         run.cash_blocks => run'.cash_blocks, run.halt_blocks => run'.halt_blocks,
         Line \in run'.excused \/ run'.cash_blocks \/ run'.halt_blocks
  PROVE  Traded'
<1>1. /\ OrdersKept' /\ NeverOvershoots' /\ BuysAreCovered' /\ Used' = Used
      /\ AllOf(Buys)' = AllOf(Buys) /\ Bought' = Bought
      /\ \A t : Coming(t)' = Coming(t)
  BY QuietStep DEF Traded
<1>2. /\ run \in RebalanceRuns /\ Counts(run.loaded) /\ run # NoRun
      /\ Line \in run.todo /\ Unsent(run) = run.todo /\ Rowed
      /\ \A o \in Used : orders[o].row \notin {"transmitting", "submission_unknown"}
  BY LineFacts
<1>3. run.phase = "lines"
  BY DEF AtLine
<1>4. Types'
  BY <1>2 DEF Traded, Types
<1>5. MarksKept'
  <2>1. Current(run)'
    BY <1>2 DEF Traded, MarksKept, Current
  <2>2. dry # NoRun => Current(dry)'
    BY DEF Traded, MarksKept, Current
  <2> QED
    BY <2>1, <2>2 DEF Traded, MarksKept
<1>6. ReadKept'
  BY <1>3 DEF ReadKept
<1>7. LinesKept'
  <2>1. Unsent(run') = run.todo \ {Line}
    BY <1>3 DEF Unsent
  <2>2. Rowed'
    BY <1>1, <1>2 DEF Rowed
  <2>3. run.cash \in Nat /\ shown.cash \in Nat /\ shown'.cash \in Nat
    BY <1>2 DEF RebalanceRuns, Traded, Types
  <2>4. AllOf(Buys) \in Nat /\ Bought \in Nat /\ OrdersKept /\ LinesKept
    <3>1. Buys \in SUBSET Used
      BY DEF Buys
    <3> QED
      BY <3>1, AllIsNatural, BoughtIsNatural DEF Traded
  <2>5. AllOf(Buys)' + shown.cash + Bought <= AllOf(Buys) + shown'.cash + Bought'
    BY <1>1, <2>3, <2>4
  <2> QED
    BY <1>1, <1>2, <1>3, <2>1, <2>2, <2>3, <2>4, <2>5, LinesGoOn
<1> QED
  BY <1>1, <1>4, <1>5, <1>6, <1>7 DEF Traded

LEMMA RefusalsKeep ==
  ASSUME Traded, RefuseForGood \/ RefuseForHalt \/ RefuseForCash
  PROVE  Traded'
<1>1. AtLine /\ UNCHANGED <<settings, day, strategy, dry, orders, shown>>
  BY DEF RefuseForGood, RefuseForHalt, RefuseForCash
<1>2. run \in RebalanceRuns /\ Line \in Tickers /\ Line \in run.todo
  BY <1>1, LineFacts
<1>3. PICK this : this = Line
  OBVIOUS
<1>4. CASE RefuseForGood
  <2>1. run' = [run EXCEPT !.todo = @ \ {this}, !.excused = @ \union {this}]
    BY <1>3, <1>4 DEF RefuseForGood
  <2>2. /\ run' \in RebalanceRuns /\ run'.phase = run.phase /\ run'.elapsed = run.elapsed
        /\ run'.shares = run.shares /\ run'.cash = run.cash /\ run'.on = run.on
        /\ run'.loaded = run.loaded /\ run'.fresh = run.fresh
        /\ run'.todo = run.todo \ {this} /\ run'.excused = run.excused \union {this}
        /\ run'.cash_blocks = run.cash_blocks /\ run'.halt_blocks = run.halt_blocks
    BY <1>2, <1>3, <2>1 DEF RebalanceRuns
  <2> QED
    BY <1>1, <1>3, <2>2, RefusalKeeps
<1>5. CASE RefuseForHalt
  <2>1. run' = [run EXCEPT !.todo = @ \ {this}, !.halt_blocks = TRUE]
    BY <1>3, <1>5 DEF RefuseForHalt
  <2>2. /\ run' \in RebalanceRuns /\ run'.phase = run.phase /\ run'.elapsed = run.elapsed
        /\ run'.shares = run.shares /\ run'.cash = run.cash /\ run'.on = run.on
        /\ run'.loaded = run.loaded /\ run'.fresh = run.fresh
        /\ run'.todo = run.todo \ {this} /\ run'.excused = run.excused
        /\ run'.cash_blocks = run.cash_blocks /\ run'.halt_blocks
    BY <1>2, <1>3, <2>1 DEF RebalanceRuns
  <2> QED
    BY <1>1, <1>3, <2>2, RefusalKeeps
<1>6. CASE RefuseForCash
  <2>1. run' = [run EXCEPT !.todo = @ \ {this}, !.cash_blocks = TRUE]
    BY <1>3, <1>6 DEF RefuseForCash
  <2>2. /\ run' \in RebalanceRuns /\ run'.phase = run.phase /\ run'.elapsed = run.elapsed
        /\ run'.shares = run.shares /\ run'.cash = run.cash /\ run'.on = run.on
        /\ run'.loaded = run.loaded /\ run'.fresh = run.fresh
        /\ run'.todo = run.todo \ {this} /\ run'.excused = run.excused
        /\ run'.cash_blocks /\ run'.halt_blocks = run.halt_blocks
    BY <1>2, <1>3, <2>1 DEF RebalanceRuns
  <2> QED
    BY <1>1, <1>3, <2>2, RefusalKeeps
<1> QED
  BY <1>4, <1>5, <1>6

\* A new order.
LEMMA OrderIsNew ==
  ASSUME OrdersKept, NEW o \in Slots, o \notin Used, NEW n, OrderKept(n), Becomes(o, n),
         orders' = [p \in Slots |-> orders'[p]]
  PROVE  /\ OrdersKept' /\ Used' = Used \cup {o}
         /\ \A t, side : AllOf(OfTicker(t, side))' = AllOf(OfTicker(t, side)) + Part(n, t, side)
         /\ AllOf(Buys)' = AllOf(Buys) + BuyPart(n) /\ Bought' = Bought + BuyShares(n)
         /\ AllOf(Buys) \in Nat /\ Bought \in Nat
         /\ \A t, side : AllOf(OfTicker(t, side)) \in Nat
<1>0. orders'[o] = n /\ \A p \in Slots \ {o} : orders'[p] = orders[p]
  BY DEF Becomes
<1>1. n # NoOrder /\ Left(n) \in Nat /\ n.quantity \in Nat
  BY LeftIsNatural
<1>2. OrdersKept'
  BY <1>0 DEF OrdersKept
<1>3. Used' = Used \cup {o}
  BY <1>0, <1>1 DEF Used
<1>4. orders[o] = NoOrder
  BY DEF Used
<1>5. ASSUME NEW t, NEW side
      PROVE  /\ AllOf(OfTicker(t, side))' = AllOf(OfTicker(t, side)) + Part(n, t, side)
             /\ AllOf(OfTicker(t, side)) \in Nat
  <2>1. AllOf(OfTicker(t, side))' = AllOf(OfTicker(t, side))
            - Part(orders[o], t, side) + Part(n, t, side)
    BY <1>2, TickerChanges
  <2>2. Part(orders[o], t, side) = 0 /\ Part(n, t, side) \in Nat
    BY <1>1, <1>4 DEF Part
  <2>3. AllOf(OfTicker(t, side)) \in Nat
    <3>1. OfTicker(t, side) \in SUBSET Used
      BY DEF OfTicker
    <3> QED
      BY <3>1, AllIsNatural
  <2> QED
    BY <2>1, <2>2, <2>3
<1>6. /\ AllOf(Buys)' = AllOf(Buys) + BuyPart(n) /\ Bought' = Bought + BuyShares(n)
      /\ AllOf(Buys) \in Nat /\ Bought \in Nat
  <2>1. /\ AllOf(Buys)' = AllOf(Buys) - BuyPart(orders[o]) + BuyPart(n)
        /\ Bought' = Bought - BuyShares(orders[o]) + BuyShares(n)
    BY <1>2, BuysChange
  <2>2. /\ BuyPart(orders[o]) = 0 /\ BuyShares(orders[o]) = 0
        /\ BuyPart(n) \in Nat /\ BuyShares(n) \in Nat
    BY <1>1, <1>4 DEF BuyPart, BuyShares
  <2>3. Buys \in SUBSET Used
    BY DEF Buys
  <2>4. AllOf(Buys) \in Nat /\ Bought \in Nat
    BY <2>3, AllIsNatural, BoughtIsNatural
  <2> QED
    BY <2>1, <2>2, <2>4
<1> QED
  BY <1>2, <1>3, <1>5, <1>6

\* The order of a line.
OrderOf(row, at) ==
  [row |-> row, ticker |-> Line, side |-> Side(Line), quantity |-> Quantity(Line),
   filled |-> 0, unshown |-> 0, at |-> at, age |-> 0]

LEMMA OrderOfALine ==
  ASSUME Traded, AtLine, NEW o \in Slots, NEW row, NEW at, NEW n, n = OrderOf(row, at),
         NewOrder(o, row, at),
         (row = "transmitting" /\ at = "sent") \/ (row = "ended" /\ at = "gone")
  PROVE  /\ OrderKept(n) /\ Becomes(o, n) /\ orders' = [p \in Slots |-> orders'[p]]
         /\ n.row = row /\ n.ticker = Line /\ n.side = Side(Line)
         /\ n.quantity = Quantity(Line) /\ n.age = 0
         /\ Left(n) = IF at = "gone" THEN 0 ELSE Quantity(Line)
<1>1. /\ run # NoRun /\ Line \in run.todo /\ Line \in Tickers /\ Untouched
  BY LineFacts
<1>2. run.shares[Line] # TargetShares[Line]
  BY <1>1 DEF Untouched
<1>3. /\ Quantity(Line) \in Nat /\ Side(Line) \in {"buy", "sell"} /\ Quantity(Line) > 0
  BY <1>1, <1>2, QuantitiesAreNumbers
<1>4. PICK this, side, quantity :
        this = Line /\ side = Side(Line) /\ quantity = Quantity(Line)
  OBVIOUS
<1>5. n = [row |-> row, ticker |-> this, side |-> side, quantity |-> quantity,
           filled |-> 0, unshown |-> 0, at |-> at, age |-> 0]
  BY <1>4 DEF OrderOf
<1>6. orders' = [orders EXCEPT ![o] = n]
  BY DEF NewOrder, OrderOf
<1>7. Becomes(o, n) /\ orders' = [p \in Slots |-> orders'[p]]
  <2>1. orders = [p \in Slots |-> orders[p]]
    BY DEF Traded, OrdersKept
  <2> QED
    BY <1>6, <2>1 DEF Becomes
<1>8. 0 \in 0 .. Old /\ 0 <= ORDER_SETTLE_TIME /\ ~(0 > Lag)
  BY SettledOrdersAreShown DEF Old
<1>9. OrderKept(n)
  BY <1>1, <1>3, <1>4, <1>5, <1>8 DEF OrderKept, OrderRecords, Active
<1>10. Left(n) = IF at = "gone" THEN 0 ELSE Quantity(Line)
  BY <1>3, <1>4, <1>5 DEF Left
<1> QED
  BY <1>4, <1>5, <1>7, <1>9, <1>10

LEMMA SubmitBlockedKeeps ==
  ASSUME Traded, NEW o \in Slots, SubmitBlocked(o)
  PROVE  Traded'
<1>1. PICK n : n = OrderOf("ended", "gone")
  OBVIOUS
<1>2. /\ OrderKept(n) /\ Becomes(o, n) /\ orders' = [p \in Slots |-> orders'[p]] /\ Left(n) = 0
  BY <1>1, OrderOfALine DEF SubmitBlocked
<1>3. /\ OrdersKept'
      /\ \A t, side : AllOf(OfTicker(t, side))' = AllOf(OfTicker(t, side)) + Part(n, t, side)
      /\ AllOf(Buys)' = AllOf(Buys) + BuyPart(n)
      /\ AllOf(Buys) \in Nat
      /\ \A t, side : AllOf(OfTicker(t, side)) \in Nat
  BY <1>2, OrderIsNew DEF Traded, SubmitBlocked
<1>4. BuyPart(n) = 0 /\ \A t, side : Part(n, t, side) = 0
  BY <1>2 DEF BuyPart, Part
<1>5. NeverOvershoots'
  BY <1>3, <1>4 DEF NeverOvershoots, Traded, SubmitBlocked
<1>6. BuysAreCovered'
  <2>1. BuysAreCovered <=> AllOf(Buys) <= shown.cash
    BY DEF BuysAreCovered, Buys
  <2>2. BuysAreCovered' <=> AllOf(Buys)' <= shown'.cash
    BY DEF BuysAreCovered, Buys
  <2> QED
    BY <1>3, <1>4, <2>1, <2>2 DEF Traded, SubmitBlocked
<1>7. run' = NoRun /\ UNCHANGED <<settings, day, strategy, dry, shown>>
  BY DEF SubmitBlocked
<1>8. Types'
  BY <1>7 DEF Traded, Types
<1>9. MarksKept'
  <2>1. dry # NoRun => Current(dry)'
    BY <1>7 DEF Traded, MarksKept, Current
  <2> QED
    BY <1>7, <2>1 DEF Traded, MarksKept
<1>10. ReadKept' /\ LinesKept'
  BY <1>7 DEF ReadKept, LinesKept, NoRun
<1> QED
  BY <1>3, <1>5, <1>6, <1>8, <1>9, <1>10 DEF Traded

\* A buy is admitted against every buy that is kept.
LEMMA UnseenIsAll ==
  ASSUME Traded, AtLine
  PROVE  Promised = Bought
<1>1. \A o \in Used : orders[o].row \in Active \/ orders[o].age <= run.elapsed
  BY LineFacts DEF Rowed
<1>2. run.elapsed \in Nat
  BY LineFacts, SettledOrdersAreShown DEF RebalanceRuns
<1>3. \A o \in Used : orders[o].age \in Nat
  BY LeftIsNatural DEF Traded, OrdersKept, Used
<1>4. Unseen = Buys
  BY <1>1, <1>2, <1>3, SettledOrdersAreShown DEF Unseen, Buys
<1>5. PICK S : S = Buys
  OBVIOUS
<1> QED
  BY <1>4, <1>5 DEF Promised, Bought

LEMMA DispatchKeeps ==
  ASSUME Traded, NEW o \in Slots, Dispatch(o)
  PROVE  Traded'
<1>1. PICK n : n = OrderOf("transmitting", "sent")
  OBVIOUS
<1>2. PICK this, q : this = Line /\ q = Quantity(Line)
  OBVIOUS
<1>3. /\ OrderKept(n) /\ Becomes(o, n) /\ orders' = [p \in Slots |-> orders'[p]] /\ Left(n) = q
      /\ n.row = "transmitting" /\ n.ticker = this /\ n.side = Side(Line) /\ n.quantity = q
  BY <1>1, <1>2, OrderOfALine DEF Dispatch
<1>4. /\ OrdersKept' /\ Used' = Used \cup {o}
      /\ \A t, side : AllOf(OfTicker(t, side))' = AllOf(OfTicker(t, side)) + Part(n, t, side)
      /\ AllOf(Buys)' = AllOf(Buys) + BuyPart(n) /\ Bought' = Bought + BuyShares(n)
      /\ AllOf(Buys) \in Nat /\ Bought \in Nat
      /\ \A t, side : AllOf(OfTicker(t, side)) \in Nat
  BY <1>3, OrderIsNew DEF Traded, Dispatch
<1>5. /\ run \in RebalanceRuns /\ Counts(run.loaded) /\ run # NoRun
      /\ this \in run.todo /\ this \in Tickers /\ Unsent(run) = run.todo
      /\ Rowed /\ Untouched /\ Afforded /\ OnTheWay
      /\ \A p \in Used : orders[p].row \notin {"transmitting", "submission_unknown"}
  BY <1>2, LineFacts DEF Dispatch
<1>6. /\ q \in Nat /\ Side(this) \in {"buy", "sell"} /\ n.side = Side(this)
      /\ Side(this) = "buy" => TargetShares[this] = run.shares[this] + q
      /\ Side(this) = "sell" => run.shares[this] = TargetShares[this] + q
      /\ run.shares[this] \in Nat /\ TargetShares[this] \in Nat
  BY <1>2, <1>3, <1>5, QuantitiesAreNumbers
<1>7. /\ shown.shares[this] = run.shares[this]
      /\ \A side : AllOf(OfTicker(this, side)) = 0
  <2>1. shown.shares[this] = run.shares[this] /\ \A p \in Used : orders[p].ticker # this
    BY <1>5 DEF Untouched
  <2>2. \A side : OfTicker(this, side) = {}
    BY <2>1 DEF OfTicker
  <2> QED
    BY <2>1, <2>2, NothingOfNone
<1>8. /\ n # NoOrder
      /\ \A t, side : Part(n, t, side) = IF t = this /\ side = Side(this) THEN q ELSE 0
      /\ BuyPart(n) = IF Side(this) = "buy" THEN q ELSE 0
      /\ BuyShares(n) = IF Side(this) = "buy" THEN q ELSE 0
  <2>1. n # NoOrder
    BY <1>3, LeftIsNatural
  <2> QED
    BY <1>3, <1>6, <2>1 DEF Part, BuyPart, BuyShares
<1>9. shown' = shown /\ shown.cash \in Nat /\ \A t \in Tickers : shown.shares[t] \in Nat
  BY DEF Dispatch, Traded, Types
<1>10. NeverOvershoots'
  <2> SUFFICES ASSUME NEW t \in Tickers
      PROVE  /\ shown.shares[t] + AllOf(OfTicker(t, "buy"))'
                  <= Max({InitialShares[t], TargetShares[t]})
             /\ shown.shares[t] - AllOf(OfTicker(t, "sell"))'
                  >= Min({InitialShares[t], TargetShares[t]})
    BY <1>9 DEF NeverOvershoots
  <2>1. CASE t # this
    <3>1. /\ AllOf(OfTicker(t, "buy"))' = AllOf(OfTicker(t, "buy"))
          /\ AllOf(OfTicker(t, "sell"))' = AllOf(OfTicker(t, "sell"))
      BY <1>4, <1>8, <2>1
    <3> QED
      BY <3>1 DEF Traded, NeverOvershoots
  <2>2. CASE t = this
    <3>1. PICK high, low : /\ high = Max({InitialShares[this], TargetShares[this]})
                           /\ low = Min({InitialShares[this], TargetShares[this]})
      OBVIOUS
    <3>2. high \in Nat /\ low \in Nat /\ TargetShares[this] <= high /\ low <= TargetShares[this]
      BY <1>5, <3>1, EndsOfRange
    <3>3. shown.shares[this] <= high /\ shown.shares[this] >= low
      <4>1. /\ shown.shares[this] + 0 <= high
            /\ shown.shares[this] - 0 >= low
        BY <1>5, <1>7, <3>1 DEF Traded, NeverOvershoots
      <4> QED
        BY <1>5, <1>9, <4>1
    <3>4. /\ AllOf(OfTicker(this, "buy"))' = IF Side(this) = "buy" THEN q ELSE 0
          /\ AllOf(OfTicker(this, "sell"))' = IF Side(this) = "sell" THEN q ELSE 0
      BY <1>4, <1>6, <1>7, <1>8
    <3>5. CASE Side(this) = "buy"
      BY <1>6, <1>7, <2>2, <3>1, <3>2, <3>3, <3>4, <3>5
    <3>6. CASE Side(this) = "sell"
      BY <1>6, <1>7, <2>2, <3>1, <3>2, <3>3, <3>4, <3>6
    <3> QED
      BY <1>6, <3>5, <3>6
  <2> QED
    BY <2>1, <2>2
<1>11. BuysAreCovered'
  <2>1. BuysAreCovered <=> AllOf(Buys) <= shown.cash
    BY DEF BuysAreCovered, Buys
  <2>2. BuysAreCovered' <=> AllOf(Buys)' <= shown'.cash
    BY DEF BuysAreCovered, Buys
  <2>3. CASE Side(this) # "buy"
    BY <1>4, <1>8, <1>9, <2>1, <2>2, <2>3 DEF Traded
  <2>4. CASE Side(this) = "buy"
    <3>1. PICK claims \in Claims : q + Promised + claims <= run.cash
      BY <1>2, <2>4 DEF Dispatch, Admitted
    <3>2. claims \in Nat /\ run.cash \in Nat
      BY <1>5, SharesAndCash DEF RebalanceRuns
    <3>3. Promised = Bought
      BY UnseenIsAll DEF Dispatch
    <3>4. AllOf(Buys) + run.cash <= shown.cash + Bought
      BY <1>5 DEF Afforded
    <3>5. PICK a, b : a = AllOf(Buys) /\ b = Bought
      OBVIOUS
    <3>6. a + q <= shown.cash
      BY <1>4, <1>6, <1>9, <3>1, <3>2, <3>3, <3>4, <3>5
    <3> QED
      BY <1>4, <1>8, <1>9, <2>2, <2>4, <3>5, <3>6
  <2> QED
    BY <2>3, <2>4
<1>12. run' = [run EXCEPT !.phase = "sending", !.locked = FALSE]
  BY DEF Dispatch
<1>13. /\ run' \in RebalanceRuns /\ run' # NoRun /\ run'.phase = "sending"
       /\ run'.elapsed = run.elapsed /\ run'.shares = run.shares /\ run'.cash = run.cash
       /\ run'.on = run.on /\ run'.loaded = run.loaded /\ run'.fresh = run.fresh
       /\ run'.todo = run.todo /\ run'.excused = run.excused
       /\ run'.cash_blocks = run.cash_blocks /\ run'.halt_blocks = run.halt_blocks
  BY <1>5, <1>12 DEF RebalanceRuns, NoRun
<1>14. UNCHANGED <<settings, day, strategy, dry, shown>>
  BY DEF Dispatch
<1>15. Types'
  BY <1>5, <1>13, <1>14 DEF Traded, Types
<1>16. MarksKept'
  <2>1. Current(run)'
    BY <1>5, <1>13, <1>14 DEF Traded, MarksKept, Current
  <2>2. dry # NoRun => Current(dry)'
    BY <1>14 DEF Traded, MarksKept, Current
  <2> QED
    BY <1>14, <2>1, <2>2 DEF Traded, MarksKept
<1>17. ReadKept'
  BY <1>13 DEF ReadKept
<1>18. LinesKept'
  <2>1. Unsent(run') = run.todo \ {this}
    BY <1>2, <1>13, LineIsOfTheRun DEF Unsent
  <2>2. orders'[o] = n /\ \A p \in Slots \ {o} : orders'[p] = orders[p]
    BY <1>3 DEF Becomes
  <2>3. Rowed'
    <3> SUFFICES ASSUME NEW p \in Used'
        PROVE  /\ orders'[p].row \in Active \/ orders'[p].age <= run'.elapsed
               /\ orders'[p].row = "transmitting"
                    => run'.phase = "sending" /\ orders'[p].ticker \in run'.todo
               /\ orders'[p].row = "submission_unknown"
                    => run'.todo = {} /\ orders'[p].ticker \in run'.excused
               /\ orders'[p].row = "transmitting" => p = o
      BY DEF Rowed
    <3>1. CASE p = o
      BY <1>3, <1>5, <1>13, <2>2, <3>1 DEF Active
    <3>2. CASE p # o
      <4>1. p \in Used /\ orders'[p] = orders[p]
        BY <1>4, <2>2, <3>2 DEF Used
      <4> QED
        BY <1>5, <1>13, <4>1 DEF Rowed
    <3> QED
      BY <3>1, <3>2
  <2>4. Untouched'
    <3>1. \A t \in run'.todo : run'.shares[t] # TargetShares[t]
      BY <1>5, <1>13 DEF Untouched
    <3>2. \A t \in run.todo \ {this} : /\ shown.shares[t] = run.shares[t]
                                       /\ \A p \in Used : orders[p].ticker # t
      BY <1>5 DEF Untouched
    <3>3. \A t \in run.todo \ {this} : \A p \in Used' : orders'[p].ticker # t
      BY <1>3, <1>4, <2>2, <3>2 DEF Used
    <3> QED
      BY <1>9, <1>13, <2>1, <3>1, <3>2, <3>3 DEF Untouched
  <2>5. Afforded'
    <3>1. PICK a, b, x : a = AllOf(Buys) /\ b = Bought /\ x = BuyPart(n)
      OBVIOUS
    <3>2. AllOf(Buys)' = a + x /\ Bought' = b + x /\ x \in Nat /\ a \in Nat /\ b \in Nat
      BY <1>4, <1>6, <1>8, <3>1
    <3>3. a + run.cash <= shown.cash + b /\ run.cash \in Nat
      BY <1>5, <3>1 DEF Afforded, RebalanceRuns
    <3>4. (a + x) + run.cash <= shown.cash + (b + x)
      BY <1>9, <3>2, <3>3
    <3> QED
      BY <1>9, <1>13, <3>2, <3>4 DEF Afforded
  <2>6. OnTheWay'
    <3> SUFFICES ASSUME NEW t \in Tickers, t \notin run.todo \ {this}, t \notin run.excused,
                        ~run.cash_blocks, ~run.halt_blocks
                 PROVE  Coming(t)' = TargetShares[t]
      BY <1>13, <2>1 DEF OnTheWay
    <3>1. CASE t # this
      <4>1. /\ AllOf(OfTicker(t, "buy"))' = AllOf(OfTicker(t, "buy"))
            /\ AllOf(OfTicker(t, "sell"))' = AllOf(OfTicker(t, "sell"))
        BY <1>4, <1>8, <3>1
      <4>2. Coming(t)' = Coming(t)
        BY <1>9, <4>1 DEF Coming
      <4> QED
        BY <1>5, <3>1, <4>2 DEF OnTheWay
    <3>2. CASE t = this
      <4>1. /\ AllOf(OfTicker(this, "buy"))' = IF Side(this) = "buy" THEN q ELSE 0
            /\ AllOf(OfTicker(this, "sell"))' = IF Side(this) = "sell" THEN q ELSE 0
        BY <1>4, <1>6, <1>7, <1>8
      <4>2. Coming(t)' = shown.shares[this] + (IF Side(this) = "buy" THEN q ELSE 0)
                                            - (IF Side(this) = "sell" THEN q ELSE 0)
        BY <1>9, <3>2, <4>1 DEF Coming
      <4> QED
        BY <1>6, <1>7, <3>2, <4>2
    <3> QED
      BY <3>1, <3>2
  <2> QED
    BY <2>3, <2>4, <2>5, <2>6 DEF LinesKept
<1> QED
  BY <1>4, <1>10, <1>11, <1>15, <1>16, <1>17, <1>18 DEF Traded

\* At most more lines are excused.
RunAtItsLine ==
  IF run = NoRun THEN run' = NoRun
  ELSE /\ run' \in RebalanceRuns /\ run'.phase = run.phase /\ run'.elapsed = run.elapsed
       /\ run'.shares = run.shares /\ run'.cash = run.cash /\ run'.on = run.on
       /\ run'.loaded = run.loaded /\ run'.fresh = run.fresh /\ run'.todo = run.todo
       /\ run.excused \subseteq run'.excused
       /\ run'.cash_blocks = run.cash_blocks /\ run'.halt_blocks = run.halt_blocks

\* What the broker does to an order, and what a reading of it does to its row.
LEMMA BrokerKeeps ==
  ASSUME Traded, NEW o \in Slots, orders[o] # NoOrder, NEW n, OrderKept(n), Becomes(o, n),
         orders' = [p \in Slots |-> orders'[p]],
         n.ticker = orders[o].ticker, n.side = orders[o].side,
         n.quantity = orders[o].quantity, Left(n) <= Left(orders[o]),
         UNCHANGED <<settings, day, strategy, dry, shown>>,
         RunAtItsLine,
         \/ n.row = orders[o].row /\ n.age = orders[o].age
         \/ n.row = "ended" /\ n.age = 0,
         n.row # "ended" \/ n.age = 0,
         run.phase \in {"lines", "sending"}
           => Left(n) = Left(orders[o]) \/ orders[o].ticker \in run'.excused
  PROVE  Traded'
<1>1. orders'[o] = n /\ \A p \in Slots \ {o} : orders'[p] = orders[p]
  BY DEF Becomes
<1>2. /\ \A t \in Tickers : shown.shares[t] \in Nat
      /\ shown.cash \in Nat /\ shown' = shown
  BY DEF Traded, Types
<1>3. /\ OrdersKept' /\ Used' = Used /\ NeverOvershoots' /\ BuysAreCovered'
      /\ AllOf(Buys)' <= AllOf(Buys) /\ Bought' = Bought
      /\ \A p \in Used : orders'[p].ticker = orders[p].ticker
      /\ \A t \in Tickers : t # orders[o].ticker \/ Left(n) = Left(orders[o])
                              => Coming(t)' = Coming(t)
  BY <1>2, OrderGoesOn DEF Traded
<1>4. n # NoOrder /\ n.age \in Nat /\ orders[o].ticker \in Tickers
  BY LeftIsNatural
<1>5. run # NoRun =>
        /\ run \in RebalanceRuns /\ Counts(run.loaded)
        /\ run' \in RebalanceRuns /\ run' # NoRun /\ run'.phase = run.phase
        /\ run'.elapsed = run.elapsed /\ run'.shares = run.shares /\ run'.cash = run.cash
        /\ run'.on = run.on /\ run'.loaded = run.loaded /\ run'.fresh = run.fresh
        /\ run'.todo = run.todo /\ run.excused \subseteq run'.excused
        /\ run'.cash_blocks = run.cash_blocks /\ run'.halt_blocks = run.halt_blocks
  BY RunIsARecord DEF Traded, RunAtItsLine, RebalanceRuns, NoRun
<1>51. run = NoRun => run' = NoRun
  BY DEF RunAtItsLine
<1>6. Types'
  BY <1>5, <1>51 DEF Traded, Types
<1>7. MarksKept'
  <2>1. run' # NoRun => Current(run)'
    BY <1>5, <1>51 DEF Traded, MarksKept, Current
  <2>2. dry # NoRun => Current(dry)'
    BY DEF Traded, MarksKept, Current
  <2> QED
    BY <2>1, <2>2 DEF Traded, MarksKept
<1>8. ReadKept'
  <2> SUFFICES ASSUME run'.phase = "read",
                      \A p \in Used' : orders'[p].row = "ended" /\ orders'[p].age > run'.elapsed + Lag
               PROVE  FALSE
    BY DEF ReadKept
  <2>1. run # NoRun /\ run'.elapsed \in Nat
    BY <1>5, <1>51, SettledOrdersAreShown DEF NoRun, RebalanceRuns
  <2>2. o \in Used' /\ orders'[o] = n
    BY <1>1, <1>3 DEF Used
  <2>3. n.row = "ended" /\ n.age > run'.elapsed + Lag
    BY <2>2
  <2> QED
    BY <2>1, <2>3, SettledOrdersAreShown
<1>9. LinesKept'
  <2> SUFFICES ASSUME run'.phase \in {"lines", "sending"} PROVE LinesKept'
    BY DEF LinesKept
  <2>1. run # NoRun
    BY <1>51 DEF NoRun
  <2>2. /\ run \in RebalanceRuns /\ run.phase \in {"lines", "sending"}
        /\ run'.phase = run.phase
        /\ run'.elapsed = run.elapsed /\ run'.shares = run.shares /\ run'.cash = run.cash
        /\ run'.todo = run.todo /\ run.excused \subseteq run'.excused
        /\ run'.cash_blocks = run.cash_blocks /\ run'.halt_blocks = run.halt_blocks
    BY <1>5, <2>1
  <2>3. Unsent(run') = Unsent(run)
    BY <2>2 DEF Unsent
  <2>4. Rowed
    BY <2>2 DEF Traded, LinesKept
  <2>5. Rowed'
    <3> SUFFICES ASSUME NEW p \in Used
        PROVE  /\ orders'[p].row \in Active \/ orders'[p].age <= run.elapsed
               /\ orders'[p].row = "transmitting"
                    => run.phase = "sending" /\ orders'[p].ticker \in run.todo
               /\ orders'[p].row = "submission_unknown"
                    => run.todo = {} /\ orders'[p].ticker \in run'.excused
               /\ orders'[p].row = "transmitting" => orders[p].row = "transmitting"
      BY <1>3, <2>2, <2>4 DEF Rowed
    <3>1. CASE p # o
      <4>1. orders'[p] = orders[p]
        BY <1>1, <3>1 DEF Used
      <4> QED
        BY <2>2, <2>4, <4>1 DEF Rowed
    <3>2. CASE p = o /\ n.row = orders[o].row /\ n.age = orders[o].age
      BY <1>1, <2>2, <2>4, <3>2 DEF Rowed
    <3>3. CASE p = o /\ n.row = "ended" /\ n.age = 0
      BY <1>1, <2>2, <3>3, SettledOrdersAreShown DEF RebalanceRuns
    <3> QED
      BY <3>1, <3>2, <3>3
  <2>6. run.cash \in Nat
    BY <2>2 DEF RebalanceRuns
  <2>7. AllOf(Buys)' \in Nat /\ Bought' \in Nat
    <3>1. Buys \in SUBSET Used /\ (Buys \in SUBSET Used)'
      BY DEF Buys
    <3>2. AllOf(Buys) \in Nat /\ Bought \in Nat
      BY <3>1, AllIsNatural, BoughtIsNatural DEF Traded
    <3>3. AllOf(Buys)' = AllOf(Buys) - BuyPart(orders[o]) + BuyPart(n)
      BY <1>3, BuysChange DEF Traded
    <3>4. BuyPart(orders[o]) <= AllOf(Buys) /\ BuyPart(orders[o]) \in Nat /\ BuyPart(n) \in Nat
      <4>1. PICK os : os = Buys
        OBVIOUS
      <4>2. AllOf(os) \in Nat /\ \A p \in os : Left(orders[p]) <= AllOf(os)
        BY <3>1, <4>1, AllIsNatural DEF Traded
      <4>3. BuyPart(orders[o]) = IF o \in os THEN Left(orders[o]) ELSE 0
        BY <4>1 DEF BuyPart, Buys, Used
      <4>4. Left(orders[o]) \in Nat /\ Left(n) \in Nat
        BY LeftIsNatural DEF Traded, OrdersKept
      <4> QED
        BY <4>1, <4>2, <4>3, <4>4 DEF BuyPart
    <3> QED
      BY <1>3, <3>2, <3>3, <3>4
  <2>8. AllOf(Buys)' + shown.cash + Bought <= AllOf(Buys) + shown'.cash + Bought'
    <3>1. Buys \in SUBSET Used
      BY DEF Buys
    <3>2. AllOf(Buys) \in Nat /\ Bought \in Nat
      BY <3>1, AllIsNatural, BoughtIsNatural DEF Traded
    <3> QED
      BY <1>2, <1>3, <2>7, <3>2
  <2>9. \A t \in Tickers \ run'.excused : Coming(t)' = Coming(t)
    BY <1>3, <2>2
  <2>10. OrdersKept /\ LinesKept
    BY DEF Traded
  <2> QED
    BY <1>2, <1>3, <2>2, <2>3, <2>5, <2>6, <2>7, <2>8, <2>9, <2>10, LinesGoOn
<1> QED
  BY <1>3, <1>6, <1>7, <1>8, <1>9 DEF Traded

LEMMA RunAsItIs ==
  ASSUME Traded, run' = run
  PROVE  RunAtItsLine
  BY RunIsARecord DEF Traded, RunAtItsLine

LEMMA RunExcuses ==
  ASSUME Traded, NEW t \in Tickers,
         run' = IF run = NoRun THEN NoRun ELSE [run EXCEPT !.excused = @ \union {t}]
  PROVE  RunAtItsLine /\ (run # NoRun => t \in run'.excused)
<1>1. CASE run = NoRun
  BY <1>1 DEF RunAtItsLine
<1>2. CASE run # NoRun
  <2>1. run \in RebalanceRuns
    BY <1>2, RunIsARecord DEF Traded
  <2>2. run' = [run EXCEPT !.excused = @ \union {t}]
    BY <1>2
  <2> QED
    BY <1>2, <2>1, <2>2 DEF RunAtItsLine, RebalanceRuns
<1> QED
  BY <1>1, <1>2

\* An order is changed by replacing its record.
LEMMA RecordBecomes ==
  ASSUME OrdersKept, NEW o \in Used, NEW n, orders' = [orders EXCEPT ![o] = n]
  PROVE  /\ Becomes(o, n) /\ orders' = [p \in Slots |-> orders'[p]]
         /\ o \in Slots /\ orders[o] # NoOrder /\ OrderKept(orders[o])
<1>1. orders = [p \in Slots |-> orders[p]]
  BY DEF OrdersKept
<1> QED
  BY <1>1 DEF Becomes, OrdersKept, Used

LEMMA ArrivesKeeps ==
  ASSUME Traded, NEW o \in Slots, Arrives(o)
  PROVE  Traded'
<1>1. PICK x, n : x = orders[o] /\ n = [x EXCEPT !.at = "open"]
  OBVIOUS
<1>2. orders' = [orders EXCEPT ![o] = n]
  BY <1>1 DEF Arrives
<1>3. /\ Becomes(o, n) /\ orders' = [p \in Slots |-> orders'[p]]
      /\ x # NoOrder /\ OrderKept(x) /\ x.at = "sent"
  BY <1>1, <1>2, RecordBecomes DEF Arrives, Traded
<1>4. /\ OrderKept(n) /\ n.row = x.row /\ n.ticker = x.ticker /\ n.side = x.side
      /\ n.quantity = x.quantity /\ n.age = x.age /\ n.row # "ended"
      /\ n.unshown = x.unshown /\ n.filled = x.filled /\ n.at = "open"
  BY <1>1, <1>3 DEF OrderKept, OrderRecords
<1>5. Left(n) = Left(x) /\ Left(x) \in Nat
  BY <1>3, <1>4, LeftIsNatural DEF Left
<1>7. RunAtItsLine
  BY RunAsItIs DEF Arrives
<1>8. UNCHANGED <<settings, day, strategy, dry, shown>>
  BY DEF Arrives
<1>9. Left(n) <= Left(orders[o])
  BY <1>1, <1>5
<1> QED
  BY <1>1, <1>3, <1>4, <1>5, <1>7, <1>8, <1>9, BrokerKeeps

LEMMA IsLostKeeps ==
  ASSUME Traded, NEW o \in Slots, IsLost(o)
  PROVE  Traded'
<1>1. PICK x, n : x = orders[o] /\ n = [x EXCEPT !.at = "gone"]
  OBVIOUS
<1>2. orders' = [orders EXCEPT ![o] = n]
  BY <1>1 DEF IsLost
<1>3. /\ Becomes(o, n) /\ orders' = [p \in Slots |-> orders'[p]]
      /\ x # NoOrder /\ OrderKept(x) /\ x.at = "sent"
  BY <1>1, <1>2, RecordBecomes DEF IsLost, Traded
<1>4. /\ OrderKept(n) /\ n.row = x.row /\ n.ticker = x.ticker /\ n.side = x.side
      /\ n.quantity = x.quantity /\ n.age = x.age /\ n.row # "ended"
      /\ n.unshown = x.unshown /\ n.filled = x.filled /\ n.at = "gone"
  BY <1>1, <1>3 DEF OrderKept, OrderRecords
<1>5. Left(n) <= Left(x)
  BY <1>3, <1>4 DEF Left, OrderKept, OrderRecords
<1>7. RunAtItsLine
  BY RunAsItIs DEF IsLost
<1>8. UNCHANGED <<settings, day, strategy, run, dry, shown>>
  BY DEF IsLost
<1>9. Left(n) <= Left(orders[o])
  BY <1>1, <1>5
<1>10. run.phase \in {"lines", "sending"} => x.ticker \in run'.excused
  <2> SUFFICES ASSUME run.phase \in {"lines", "sending"} PROVE x.ticker \in run.excused
    BY <1>8
  <2>1. Rowed
    BY DEF Traded, LinesKept
  <2>2. x.row \in {"transmitting", "submission_unknown"}
    BY <1>3 DEF OrderKept, OrderRecords, Active
  <2>3. x.row = "submission_unknown"
    BY <1>1, <2>1, <2>2 DEF Rowed, IsLost
  <2> QED
    BY <1>1, <2>1, <2>3 DEF Rowed, IsLost
<1> QED
  BY <1>1, <1>3, <1>4, <1>7, <1>8, <1>9, <1>10, BrokerKeeps

LEMMA FillKeeps ==
  ASSUME Traded, NEW o \in Slots, Fill(o)
  PROVE  Traded'
<1>1. PICK x, at : x = orders[o] /\ at = IF x.filled + 1 = x.quantity THEN "gone" ELSE "open"
  OBVIOUS
<1>2. PICK n : n = [x EXCEPT !.filled = @ + 1, !.unshown = @ + 1, !.at = at]
  OBVIOUS
<1>3. orders' = [orders EXCEPT ![o] = n]
  <2>1. orders' = [orders EXCEPT ![o].filled = @ + 1, ![o].unshown = @ + 1, ![o].at = at]
    BY <1>1 DEF Fill
  <2>2. orders = [p \in Slots |-> orders[p]]
    BY DEF Traded, OrdersKept
  <2> QED
    BY <1>1, <1>2, <2>1, <2>2
<1>4. /\ Becomes(o, n) /\ orders' = [p \in Slots |-> orders'[p]]
      /\ x # NoOrder /\ OrderKept(x) /\ x.at = "open"
  BY <1>1, <1>3, RecordBecomes DEF Fill, Traded
<1>5. /\ n.row = x.row /\ n.ticker = x.ticker /\ n.side = x.side
      /\ n.quantity = x.quantity /\ n.age = x.age
      /\ n.unshown = x.unshown + 1 /\ n.filled = x.filled + 1 /\ n.at = at
      /\ n \in OrderRecords
  <2>1. x \in OrderRecords /\ at \in {"sent", "open", "gone"}
    BY <1>1, <1>4 DEF OrderKept
  <2>2. PICK f, u : f = x.filled + 1 /\ u = x.unshown + 1
    OBVIOUS
  <2>3. f \in Nat /\ u \in Nat
    BY <2>1, <2>2 DEF OrderRecords
  <2>4. n = [x EXCEPT !.filled = f, !.unshown = u, !.at = at]
    BY <1>2, <2>1, <2>2 DEF OrderRecords
  <2> QED
    BY <2>1, <2>2, <2>3, <2>4 DEF OrderRecords
<1>6. /\ {x.filled, x.unshown, x.quantity} \subseteq Nat
      /\ x.unshown <= x.filled /\ x.filled < x.quantity /\ x.row # "ended"
  BY <1>4 DEF OrderKept, OrderRecords
<1>7. OrderKept(n)
  BY <1>1, <1>4, <1>5, <1>6 DEF OrderKept
<1>8. Left(n) = Left(x)
  BY <1>1, <1>4, <1>5, <1>6 DEF Left
<1>9. Left(x) \in Nat
  BY <1>4, LeftIsNatural
<1>11. RunAtItsLine
  BY RunAsItIs DEF Fill
<1>12. UNCHANGED <<settings, day, strategy, dry, shown>>
  BY DEF Fill
<1>13. Left(n) <= Left(orders[o])
  BY <1>1, <1>8, <1>9
<1> QED
  BY <1>1, <1>4, <1>5, <1>6, <1>7, <1>8, <1>11, <1>12, <1>13, BrokerKeeps

LEMMA EndShortKeeps ==
  ASSUME Traded, NEW o \in Slots, EndShort(o)
  PROVE  Traded'
<1>1. PICK x, n : x = orders[o] /\ n = [x EXCEPT !.at = "gone"]
  OBVIOUS
<1>2. orders' = [orders EXCEPT ![o] = n]
  BY <1>1 DEF EndShort
<1>3. /\ Becomes(o, n) /\ orders' = [p \in Slots |-> orders'[p]]
      /\ x # NoOrder /\ OrderKept(x) /\ x.at = "open"
  BY <1>1, <1>2, RecordBecomes DEF EndShort, Traded
<1>4. /\ OrderKept(n) /\ n.row = x.row /\ n.ticker = x.ticker /\ n.side = x.side
      /\ n.quantity = x.quantity /\ n.age = x.age /\ n.row # "ended"
      /\ n.unshown = x.unshown /\ n.filled = x.filled /\ n.at = "gone"
  BY <1>1, <1>3 DEF OrderKept, OrderRecords
<1>5. Left(n) <= Left(x)
  BY <1>3, <1>4 DEF Left, OrderKept, OrderRecords
<1>6. PICK t : t = x.ticker
  OBVIOUS
<1>7. RunAtItsLine /\ (run # NoRun => x.ticker \in run'.excused)
  <2>1. t \in Tickers
    BY <1>3, <1>6, LeftIsNatural
  <2>2. run' = IF run = NoRun THEN NoRun ELSE [run EXCEPT !.excused = @ \union {t}]
    BY <1>1, <1>6 DEF EndShort
  <2> QED
    BY <1>6, <2>1, <2>2, RunExcuses
<1>8. UNCHANGED <<settings, day, strategy, dry, shown>>
  BY DEF EndShort
<1>9. Left(n) <= Left(orders[o])
  BY <1>1, <1>5
<1>10. run.phase \in {"lines", "sending"} => x.ticker \in run'.excused
  BY <1>7 DEF NoRun
<1> QED
  BY <1>1, <1>3, <1>4, <1>7, <1>8, <1>9, <1>10, BrokerKeeps

LEMMA SettleKeeps ==
  ASSUME Traded, NEW o \in Slots, Settle(o)
  PROVE  Traded'
<1>1. PICK x, n : x = orders[o] /\ n = [x EXCEPT !.row = "ended", !.age = 0]
  OBVIOUS
<1>2. orders' = [orders EXCEPT ![o] = n]
  <2>1. orders' = [orders EXCEPT ![o].row = "ended", ![o].age = 0]
    BY DEF Settle
  <2>2. orders = [p \in Slots |-> orders[p]]
    BY DEF Traded, OrdersKept
  <2> QED
    BY <1>1, <2>1, <2>2
<1>3. /\ Becomes(o, n) /\ orders' = [p \in Slots |-> orders'[p]]
      /\ x # NoOrder /\ OrderKept(x) /\ x.at = "gone"
  BY <1>1, <1>2, RecordBecomes DEF Settle, Traded
<1>4. 0 \in 0 .. Old /\ ~(0 > Lag) /\ 0 <= ORDER_SETTLE_TIME
  BY SettledOrdersAreShown DEF Old
<1>5. /\ n.row = "ended" /\ n.ticker = x.ticker /\ n.side = x.side
      /\ n.quantity = x.quantity /\ n.age = 0
      /\ n.unshown = x.unshown /\ n.filled = x.filled /\ n.at = x.at
      /\ n \in OrderRecords
  BY <1>1, <1>3, <1>4 DEF OrderKept, OrderRecords
<1>6. OrderKept(n)
  BY <1>3, <1>4, <1>5 DEF OrderKept
<1>7. Left(n) = Left(x) /\ Left(x) \in Nat
  BY <1>3, <1>5, LeftIsNatural DEF Left
<1>9. RunAtItsLine
  BY RunAsItIs DEF Settle
<1>10. UNCHANGED <<settings, day, strategy, dry, shown>>
  BY DEF Settle
<1>11. Left(n) <= Left(orders[o])
  BY <1>1, <1>7
<1> QED
  BY <1>1, <1>3, <1>5, <1>6, <1>7, <1>9, <1>10, <1>11, BrokerKeeps

\* The line of which an order was sent is left, or the whole plan is.
LEMMA AnswerKeeps ==
  ASSUME Traded, run.phase = "sending", NEW o \in Slots, orders[o].row = "transmitting",
         NEW n, OrderKept(n), Becomes(o, n), orders' = [p \in Slots |-> orders'[p]],
         n.ticker = orders[o].ticker, n.side = orders[o].side,
         n.quantity = orders[o].quantity, Left(n) <= Left(orders[o]),
         UNCHANGED <<settings, day, strategy, dry, shown>>,
         run' \in RebalanceRuns, run'.phase = "lines", run'.elapsed = run.elapsed,
         run'.shares = run.shares, run'.cash = run.cash, run'.on = run.on,
         run'.loaded = run.loaded, run'.fresh = run.fresh,
         run'.cash_blocks = run.cash_blocks, run'.halt_blocks = run.halt_blocks,
         run.excused \subseteq run'.excused,
         run'.todo = run.todo \ {Line} \/ (run'.todo = {} /\ run.todo \subseteq run'.excused),
         \/ n.row = "working"
         \/ n.row = "ended" /\ n.age = 0
         \/ n.row = "submission_unknown" /\ run'.todo = {} /\ run.todo \subseteq run'.excused,
         Left(n) = Left(orders[o]) \/ orders[o].ticker \in run'.excused
  PROVE  Traded'
<1>0. orders[o] # NoOrder
  BY DEF NoOrder
<1>1. orders'[o] = n /\ \A p \in Slots \ {o} : orders'[p] = orders[p]
  BY DEF Becomes
<1>2. /\ \A t \in Tickers : shown.shares[t] \in Nat
      /\ shown.cash \in Nat /\ shown' = shown
  BY DEF Traded, Types
<1>3. /\ OrdersKept' /\ Used' = Used /\ NeverOvershoots' /\ BuysAreCovered'
      /\ AllOf(Buys)' <= AllOf(Buys) /\ Bought' = Bought
      /\ \A p \in Used : orders'[p].ticker = orders[p].ticker
      /\ \A t \in Tickers : t # orders[o].ticker \/ Left(n) = Left(orders[o])
                              => Coming(t)' = Coming(t)
  BY <1>0, <1>2, OrderGoesOn DEF Traded
<1>4. run # NoRun /\ run \in RebalanceRuns /\ Counts(run.loaded) /\ run' # NoRun
  BY RunIsARecord DEF Traded, NoRun
<1>5. Types'
  BY <1>4 DEF Traded, Types
<1>6. MarksKept'
  <2>1. Current(run)'
    BY <1>4 DEF Traded, MarksKept, Current
  <2>2. dry # NoRun => Current(dry)'
    BY DEF Traded, MarksKept, Current
  <2> QED
    BY <2>1, <2>2 DEF Traded, MarksKept
<1>7. ReadKept'
  BY DEF ReadKept
<1>8. LinesKept'
  <2>1. OrdersKept /\ LinesKept /\ Rowed
    BY DEF Traded, LinesKept
  <2>2. Unsent(run) = run.todo \ {Line} /\ Unsent(run') = run'.todo
    BY LineIsOfTheRun DEF Unsent
  <2>3. o \in Used /\ orders[o].ticker \in run.todo
    BY <1>0, <2>1 DEF Used, Rowed
  <2>4. Rowed'
    <3> SUFFICES ASSUME NEW p \in Used
        PROVE  /\ orders'[p].row \in Active \/ orders'[p].age <= run.elapsed
               /\ orders'[p].row # "transmitting"
               /\ orders'[p].row = "submission_unknown"
                    => run'.todo = {} /\ orders'[p].ticker \in run'.excused
      BY <1>3 DEF Rowed
    <3>1. CASE p # o
      <4>1. orders'[p] = orders[p]
        BY <1>1, <3>1 DEF Used
      <4>2. orders[p].row # "transmitting"
        BY <2>1, <2>3, <3>1 DEF Rowed
      <4>3. orders[p].row = "submission_unknown" => run.todo = {} /\ orders[p].ticker \in run.excused
        BY <2>1 DEF Rowed
      <4>4. orders[p].row \in Active \/ orders[p].age <= run.elapsed
        BY <2>1 DEF Rowed
      <4> QED
        BY <4>1, <4>2, <4>3, <4>4
    <3>2. CASE p = o
      <4>1. run.elapsed \in Nat
        BY <1>4, SettledOrdersAreShown DEF RebalanceRuns
      <4> QED
        BY <1>1, <2>3, <3>2, <4>1 DEF Active
    <3> QED
      BY <3>1, <3>2
  <2>5. run.cash \in Nat
    BY <1>4 DEF RebalanceRuns
  <2>6. AllOf(Buys)' \in Nat /\ Bought' \in Nat /\ AllOf(Buys) \in Nat
    <3>1. Buys \in SUBSET Used
      BY DEF Buys
    <3>2. AllOf(Buys) \in Nat /\ Bought \in Nat
      BY <2>1, <3>1, AllIsNatural, BoughtIsNatural
    <3>3. AllOf(Buys)' = AllOf(Buys) - BuyPart(orders[o]) + BuyPart(n)
      BY <1>3, <2>1, BuysChange
    <3>4. BuyPart(orders[o]) <= AllOf(Buys) /\ BuyPart(orders[o]) \in Nat /\ BuyPart(n) \in Nat
      <4>1. PICK os : os = Buys
        OBVIOUS
      <4>2. AllOf(os) \in Nat /\ \A p \in os : Left(orders[p]) <= AllOf(os)
        BY <2>1, <3>1, <4>1, AllIsNatural
      <4>3. BuyPart(orders[o]) = IF o \in os THEN Left(orders[o]) ELSE 0
        BY <4>1 DEF BuyPart, Buys, Used
      <4>4. Left(orders[o]) \in Nat /\ Left(n) \in Nat
        BY <1>0, <2>1, LeftIsNatural DEF OrdersKept
      <4> QED
        BY <4>1, <4>2, <4>3, <4>4 DEF BuyPart
    <3> QED
      BY <1>3, <3>2, <3>3, <3>4
  <2>7. AllOf(Buys)' + shown.cash + Bought <= AllOf(Buys) + shown'.cash + Bought'
    BY <1>2, <1>3, <2>6
  <2>8. \A t \in Tickers \ run'.excused : Coming(t)' = Coming(t)
    BY <1>3
  <2>9. Unsent(run') \subseteq Unsent(run) /\ Unsent(run) \subseteq Unsent(run') \cup run'.excused
    BY <2>2
  <2>10. run'.todo \subseteq run.todo
    OBVIOUS
  <2>11. \A p \in Used' : p \in Used /\ orders'[p].ticker = orders[p].ticker
    BY <1>3
  <2> QED
    BY <1>2, <2>1, <2>4, <2>5, <2>6, <2>7, <2>8, <2>9, <2>10, <2>11, LinesGoOn
<1> QED
  BY <1>3, <1>5, <1>6, <1>7, <1>8 DEF Traded

LEMMA AcceptedKeeps ==
  ASSUME Traded, NEW o \in Slots, Accepted(o)
  PROVE  Traded'
<1>1. PICK x, at : x = orders[o] /\ at = IF x.at = "sent" THEN "open" ELSE x.at
  OBVIOUS
<1>2. PICK n : n = [x EXCEPT !.row = "working", !.at = at, !.age = 0]
  OBVIOUS
<1>3. orders' = [orders EXCEPT ![o] = n]
  <2>1. orders' = [orders EXCEPT ![o].row = "working", ![o].at = at, ![o].age = 0]
    BY <1>1 DEF Accepted
  <2>2. orders = [p \in Slots |-> orders[p]]
    BY DEF Traded, OrdersKept
  <2> QED
    BY <1>1, <1>2, <2>1, <2>2
<1>4. x.row = "transmitting" /\ x.at # "gone" /\ run.phase = "sending"
  BY <1>1 DEF Accepted, Transmitting
<1>5. o \in Used
  BY <1>1, <1>4 DEF Used, NoOrder
<1>6. Becomes(o, n) /\ orders' = [p \in Slots |-> orders'[p]] /\ OrderKept(x)
  BY <1>1, <1>3, <1>5, RecordBecomes DEF Traded
<1>7. at = "open"
  BY <1>1, <1>4, <1>6 DEF OrderKept, OrderRecords
<1>8. 0 \in 0 .. Old /\ 0 <= ORDER_SETTLE_TIME
  BY SettledOrdersAreShown DEF Old
<1>9. /\ n.row = "working" /\ n.ticker = x.ticker /\ n.side = x.side
      /\ n.quantity = x.quantity /\ n.age = 0
      /\ n.unshown = x.unshown /\ n.filled = x.filled /\ n.at = "open"
      /\ n \in OrderRecords
  BY <1>2, <1>6, <1>7, <1>8 DEF OrderKept, OrderRecords, Active
<1>10. OrderKept(n)
  BY <1>4, <1>6, <1>8, <1>9 DEF OrderKept
<1>11. Left(n) = Left(x) /\ Left(x) \in Nat
  BY <1>4, <1>6, <1>9, LeftIsNatural DEF Left
<1>12. Left(n) <= Left(orders[o])
  BY <1>1, <1>11
<1>13. run # NoRun /\ run \in RebalanceRuns
  BY <1>4, RunIsARecord DEF Traded
<1>14. PICK this : this = Line
  OBVIOUS
<1>15. run' = [run EXCEPT !.phase = "lines", !.todo = @ \ {this}]
  BY <1>14 DEF Accepted
<1>16. /\ run' \in RebalanceRuns /\ run'.phase = "lines" /\ run'.elapsed = run.elapsed
       /\ run'.shares = run.shares /\ run'.cash = run.cash /\ run'.on = run.on
       /\ run'.loaded = run.loaded /\ run'.fresh = run.fresh
       /\ run'.cash_blocks = run.cash_blocks /\ run'.halt_blocks = run.halt_blocks
       /\ run.excused \subseteq run'.excused /\ run'.todo = run.todo \ {this}
  BY <1>13, <1>15 DEF RebalanceRuns
<1>17. UNCHANGED <<settings, day, strategy, dry, shown>>
  BY DEF Accepted
<1> QED
  BY <1>1, <1>4, <1>6, <1>9, <1>10, <1>11, <1>12, <1>14, <1>16, <1>17, AnswerKeeps

LEMMA RefusedKeeps ==
  ASSUME Traded, NEW o \in Slots, Refused(o)
  PROVE  Traded'
<1>1. PICK x : x = orders[o]
  OBVIOUS
<1>2. PICK n : n = [x EXCEPT !.row = "ended", !.at = "gone", !.age = 0]
  OBVIOUS
<1>3. orders' = [orders EXCEPT ![o] = n]
  <2>1. orders' = [orders EXCEPT ![o].row = "ended", ![o].at = "gone", ![o].age = 0]
    BY DEF Refused
  <2>2. orders = [p \in Slots |-> orders[p]]
    BY DEF Traded, OrdersKept
  <2> QED
    BY <1>1, <1>2, <2>1, <2>2
<1>4. x.row = "transmitting" /\ run.phase = "sending"
  BY <1>1 DEF Refused, Transmitting
<1>5. o \in Used
  BY <1>1, <1>4 DEF Used, NoOrder
<1>6. Becomes(o, n) /\ orders' = [p \in Slots |-> orders'[p]] /\ OrderKept(x)
  BY <1>1, <1>3, <1>5, RecordBecomes DEF Traded
<1>8. 0 \in 0 .. Old /\ 0 <= ORDER_SETTLE_TIME /\ ~(0 > Lag)
  BY SettledOrdersAreShown DEF Old
<1>9. /\ n.row = "ended" /\ n.ticker = x.ticker /\ n.side = x.side
      /\ n.quantity = x.quantity /\ n.age = 0
      /\ n.unshown = x.unshown /\ n.filled = x.filled /\ n.at = "gone"
      /\ n \in OrderRecords
  BY <1>2, <1>6, <1>8 DEF OrderKept, OrderRecords
<1>10. OrderKept(n)
  BY <1>6, <1>8, <1>9 DEF OrderKept
<1>11. Left(n) <= Left(x)
  BY <1>6, <1>9 DEF Left, OrderKept, OrderRecords
<1>12. Left(n) <= Left(orders[o])
  BY <1>1, <1>11
<1>13. run # NoRun /\ run \in RebalanceRuns
  BY <1>4, RunIsARecord DEF Traded
<1>14. PICK this, ticker : this = Line /\ ticker = x.ticker
  OBVIOUS
<1>15. run' = [run EXCEPT !.phase = "lines", !.todo = @ \ {this}, !.excused = @ \union {ticker}]
  BY <1>1, <1>14 DEF Refused
<1>16. ticker \in Tickers
  BY <1>6, <1>14, LeftIsNatural
<1>17. /\ run' \in RebalanceRuns /\ run'.phase = "lines" /\ run'.elapsed = run.elapsed
       /\ run'.shares = run.shares /\ run'.cash = run.cash /\ run'.on = run.on
       /\ run'.loaded = run.loaded /\ run'.fresh = run.fresh
       /\ run'.cash_blocks = run.cash_blocks /\ run'.halt_blocks = run.halt_blocks
       /\ run.excused \subseteq run'.excused /\ run'.todo = run.todo \ {this}
       /\ ticker \in run'.excused
  BY <1>13, <1>15, <1>16 DEF RebalanceRuns
<1>18. UNCHANGED <<settings, day, strategy, dry, shown>>
  BY DEF Refused
<1> QED
  BY <1>1, <1>4, <1>6, <1>9, <1>10, <1>12, <1>14, <1>17, <1>18, AnswerKeeps

LEMMA NoAnswerKeeps ==
  ASSUME Traded, NEW o \in Slots, NoAnswer(o)
  PROVE  Traded'
<1>1. PICK x : x = orders[o]
  OBVIOUS
<1>2. PICK n : n = [x EXCEPT !.row = "submission_unknown", !.age = 0]
  OBVIOUS
<1>3. orders' = [orders EXCEPT ![o] = n]
  <2>1. orders' = [orders EXCEPT ![o].row = "submission_unknown", ![o].age = 0]
    BY DEF NoAnswer
  <2>2. orders = [p \in Slots |-> orders[p]]
    BY DEF Traded, OrdersKept
  <2> QED
    BY <1>1, <1>2, <2>1, <2>2
<1>4. x.row = "transmitting" /\ run.phase = "sending"
  BY <1>1 DEF NoAnswer, Transmitting
<1>5. o \in Used
  BY <1>1, <1>4 DEF Used, NoOrder
<1>6. Becomes(o, n) /\ orders' = [p \in Slots |-> orders'[p]] /\ OrderKept(x)
  BY <1>1, <1>3, <1>5, RecordBecomes DEF Traded
<1>8. 0 \in 0 .. Old /\ 0 <= ORDER_SETTLE_TIME
  BY SettledOrdersAreShown DEF Old
<1>9. /\ n.row = "submission_unknown" /\ n.ticker = x.ticker /\ n.side = x.side
      /\ n.quantity = x.quantity /\ n.age = 0
      /\ n.unshown = x.unshown /\ n.filled = x.filled /\ n.at = x.at
      /\ n \in OrderRecords
  BY <1>2, <1>6, <1>8 DEF OrderKept, OrderRecords, Active
<1>10. OrderKept(n)
  BY <1>6, <1>8, <1>9 DEF OrderKept
<1>11. Left(n) = Left(x) /\ Left(x) \in Nat
  BY <1>6, <1>9, LeftIsNatural DEF Left
<1>12. Left(n) <= Left(orders[o])
  BY <1>1, <1>11
<1>13. run # NoRun /\ run \in RebalanceRuns
  BY <1>4, RunIsARecord DEF Traded
<1>14. run' = [run EXCEPT !.phase = "lines", !.todo = {}, !.unconfirmed = TRUE,
                          !.excused = @ \union run.todo]
  BY DEF NoAnswer
<1>15. /\ run' \in RebalanceRuns /\ run'.phase = "lines" /\ run'.elapsed = run.elapsed
       /\ run'.shares = run.shares /\ run'.cash = run.cash /\ run'.on = run.on
       /\ run'.loaded = run.loaded /\ run'.fresh = run.fresh
       /\ run'.cash_blocks = run.cash_blocks /\ run'.halt_blocks = run.halt_blocks
       /\ run.excused \subseteq run'.excused /\ run'.todo = {}
       /\ run.todo \subseteq run'.excused
  BY <1>13, <1>14 DEF RebalanceRuns
<1>16. UNCHANGED <<settings, day, strategy, dry, shown>>
  BY DEF NoAnswer
<1> QED
  BY <1>1, <1>4, <1>6, <1>9, <1>10, <1>11, <1>12, <1>15, <1>16, AnswerKeeps

LEMMA ShowKeeps ==
  ASSUME Traded, NEW o \in Slots, Show(o)
  PROVE  Traded'
<1>1. PICK x, n : x = orders[o] /\ n = [x EXCEPT !.unshown = 0]
  OBVIOUS
<1>2. orders' = [orders EXCEPT ![o] = n]
  BY <1>1 DEF Show
<1>3. o \in Used
  BY DEF Show
<1>4. /\ Becomes(o, n) /\ orders' = [p \in Slots |-> orders'[p]]
      /\ x # NoOrder /\ OrderKept(x)
  BY <1>1, <1>2, <1>3, RecordBecomes DEF Traded
<1>5. PICK u, t, s, c : u = x.unshown /\ t = x.ticker /\ s = shown.shares[x.ticker] /\ c = shown.cash
  OBVIOUS
<1>6. /\ u \in Nat /\ u > 0 /\ t \in Tickers /\ x.side \in {"buy", "sell"}
      /\ s \in Nat /\ c \in Nat /\ shown.shares \in [Tickers -> Nat]
  BY <1>1, <1>4, <1>5, LeftIsNatural DEF Show, Traded, Types
<1>7. /\ n.row = x.row /\ n.ticker = t /\ n.side = x.side
      /\ n.quantity = x.quantity /\ n.age = x.age
      /\ n.unshown = 0 /\ n.filled = x.filled /\ n.at = x.at
      /\ OrderKept(n)
  BY <1>1, <1>4, <1>5 DEF OrderKept, OrderRecords
<1>8. /\ Left(n) = Left(x) - u /\ Left(x) \in Nat /\ u <= Left(x) /\ Left(n) \in Nat
      /\ n # NoOrder
  BY <1>4, <1>5, <1>7, LeftIsNatural DEF Left
<1>9. orders'[o] = n /\ \A p \in Slots \ {o} : orders'[p] = orders[p]
  BY <1>4 DEF Becomes
<1>10. OrdersKept' /\ Used' = Used
  BY <1>4, <1>7, <1>8, <1>9 DEF OrdersKept, Used, Show, Traded
<1>11. /\ shown' = [shares |-> [shown.shares EXCEPT ![t] =
                       IF x.side = "buy" THEN s + u ELSE s - u],
                    cash |-> IF x.side = "buy" THEN c - u ELSE c + u]
       /\ UNCHANGED <<settings, day, strategy, run, dry>>
  <2>1. PICK sign : sign = IF x.side = "buy" THEN 1 ELSE -1
    OBVIOUS
  <2>2. /\ shown' = [shares |-> [shown.shares EXCEPT ![t] = @ + sign * u],
                     cash |-> shown.cash - sign * u]
        /\ UNCHANGED <<settings, day, strategy, run, dry>>
    BY <1>1, <1>5, <2>1 DEF Show
  <2>3. /\ s + sign * u = IF x.side = "buy" THEN s + u ELSE s - u
        /\ c - sign * u = IF x.side = "buy" THEN c - u ELSE c + u
    BY <1>6, <2>1
  <2> QED
    BY <1>5, <1>6, <2>2, <2>3
<1>12. /\ shown'.shares[t] = IF x.side = "buy" THEN s + u ELSE s - u
       /\ shown'.cash = IF x.side = "buy" THEN c - u ELSE c + u
       /\ \A v \in Tickers \ {t} : shown'.shares[v] = shown.shares[v]
  BY <1>6, <1>11
<1>13. ASSUME NEW v, NEW side
       PROVE  /\ AllOf(OfTicker(v, side)) \in Nat
              /\ AllOf(OfTicker(v, side))' = AllOf(OfTicker(v, side))
                   - (IF v = t /\ side = x.side THEN u ELSE 0)
              /\ v = t /\ side = x.side => u <= AllOf(OfTicker(v, side))
  <2>1. AllOf(OfTicker(v, side))' = AllOf(OfTicker(v, side))
            - Part(orders[o], v, side) + Part(n, v, side)
    BY <1>4, <1>10, TickerChanges DEF Traded
  <2>2. PICK os : os = OfTicker(v, side)
    OBVIOUS
  <2>3. os \in SUBSET Used
    BY <2>2 DEF OfTicker
  <2>4. AllOf(os) \in Nat /\ \A p \in os : Left(orders[p]) <= AllOf(os)
    BY <2>3, AllIsNatural DEF Traded
  <2>5. CASE v = t /\ side = x.side
    <3>1. o \in os
      BY <1>1, <1>3, <1>5, <2>2, <2>5 DEF OfTicker
    <3>2. Part(orders[o], v, side) = Left(x) /\ Part(n, v, side) = Left(n)
      BY <1>1, <1>4, <1>5, <1>7, <1>8, <2>5 DEF Part
    <3>3. Left(x) <= AllOf(os)
      BY <1>1, <2>4, <3>1
    <3> QED
      BY <1>6, <1>8, <2>1, <2>2, <2>4, <2>5, <3>2, <3>3
  <2>6. CASE ~(v = t /\ side = x.side)
    <3>1. Part(orders[o], v, side) = 0 /\ Part(n, v, side) = 0
      BY <1>1, <1>5, <1>7, <2>6 DEF Part
    <3> QED
      BY <2>1, <2>2, <2>4, <2>6, <3>1
  <2> QED
    BY <2>5, <2>6
<1>14. /\ AllOf(Buys) \in Nat /\ Bought \in Nat /\ Bought' = Bought
       /\ AllOf(Buys)' = AllOf(Buys) - (IF x.side = "buy" THEN u ELSE 0)
       /\ x.side = "buy" => u <= AllOf(Buys)
  <2>1. /\ AllOf(Buys)' = AllOf(Buys) - BuyPart(orders[o]) + BuyPart(n)
        /\ Bought' = Bought - BuyShares(orders[o]) + BuyShares(n)
    BY <1>4, <1>10, BuysChange DEF Traded
  <2>2. PICK os : os = Buys
    OBVIOUS
  <2>3. os \in SUBSET Used
    BY <2>2 DEF Buys
  <2>4. AllOf(os) \in Nat /\ \A p \in os : Left(orders[p]) <= AllOf(os)
    BY <2>3, AllIsNatural DEF Traded
  <2>5. Bought \in Nat
    BY BoughtIsNatural DEF Traded
  <2>6. x.quantity \in Nat
    BY <1>4, LeftIsNatural
  <2>7. Bought' = Bought
    BY <1>1, <1>4, <1>7, <1>8, <2>1, <2>5, <2>6 DEF BuyShares
  <2>8. CASE x.side = "buy"
    <3>1. o \in os
      BY <1>1, <1>3, <2>2, <2>8 DEF Buys
    <3>2. BuyPart(orders[o]) = Left(x) /\ BuyPart(n) = Left(n)
      BY <1>1, <1>4, <1>7, <1>8, <2>8 DEF BuyPart
    <3>3. Left(x) <= AllOf(os)
      BY <1>1, <2>4, <3>1
    <3> QED
      BY <1>6, <1>8, <2>1, <2>2, <2>4, <2>5, <2>7, <2>8, <3>2, <3>3
  <2>9. CASE x.side # "buy"
    <3>1. BuyPart(orders[o]) = 0 /\ BuyPart(n) = 0
      BY <1>1, <1>7, <2>9 DEF BuyPart
    <3> QED
      BY <2>1, <2>2, <2>4, <2>5, <2>7, <2>9, <3>1
  <2> QED
    BY <2>8, <2>9
<1>15. NeverOvershoots' /\ (x.side = "sell" => u <= s)
  <2>1. PICK high, low : /\ high = Max({InitialShares[t], TargetShares[t]})
                         /\ low = Min({InitialShares[t], TargetShares[t]})
    OBVIOUS
  <2>2. PICK b, e : b = AllOf(OfTicker(t, "buy")) /\ e = AllOf(OfTicker(t, "sell"))
    OBVIOUS
  <2>3. high \in Nat /\ low \in Nat /\ b \in Nat /\ e \in Nat
    BY <1>6, <1>13, <2>1, <2>2, EndsOfRange
  <2>4. s + b <= high /\ s - e >= low
    BY <1>5, <1>6, <2>1, <2>2 DEF Traded, NeverOvershoots
  <2>5. /\ AllOf(OfTicker(t, "buy"))' = b - (IF x.side = "buy" THEN u ELSE 0)
        /\ AllOf(OfTicker(t, "sell"))' = e - (IF x.side = "sell" THEN u ELSE 0)
        /\ x.side = "sell" => u <= e
    BY <1>13, <2>2
  <2>6. x.side = "sell" => u <= s
    BY <1>6, <2>3, <2>4, <2>5
  <2>7. /\ shown'.shares[t] + AllOf(OfTicker(t, "buy"))' <= high
        /\ shown'.shares[t] - AllOf(OfTicker(t, "sell"))' >= low
    <3>1. CASE x.side = "buy"
      BY <1>6, <1>12, <2>3, <2>4, <2>5, <3>1
    <3>2. CASE x.side = "sell"
      BY <1>6, <1>12, <2>3, <2>4, <2>5, <3>2
    <3> QED
      BY <1>6, <3>1, <3>2
  <2>8. \A v \in Tickers \ {t} :
          /\ shown'.shares[v] + AllOf(OfTicker(v, "buy"))'
               <= Max({InitialShares[v], TargetShares[v]})
          /\ shown'.shares[v] - AllOf(OfTicker(v, "sell"))'
               >= Min({InitialShares[v], TargetShares[v]})
    <3> SUFFICES ASSUME NEW v \in Tickers \ {t}
        PROVE /\ shown'.shares[v] + AllOf(OfTicker(v, "buy"))'
                   <= Max({InitialShares[v], TargetShares[v]})
              /\ shown'.shares[v] - AllOf(OfTicker(v, "sell"))'
                   >= Min({InitialShares[v], TargetShares[v]})
      OBVIOUS
    <3>1. /\ AllOf(OfTicker(v, "buy"))' = AllOf(OfTicker(v, "buy"))
          /\ AllOf(OfTicker(v, "sell"))' = AllOf(OfTicker(v, "sell"))
          /\ shown'.shares[v] = shown.shares[v]
      BY <1>12, <1>13
    <3> QED
      BY <3>1 DEF Traded, NeverOvershoots
  <2> QED
    BY <2>1, <2>6, <2>7, <2>8 DEF NeverOvershoots
<1>16. BuysAreCovered' /\ (x.side = "buy" => u <= c)
  <2>1. AllOf(Buys) <= c
    BY <1>5 DEF Traded, BuysAreCovered, Buys
  <2>2. BuysAreCovered' <=> AllOf(Buys)' <= shown'.cash
    BY DEF BuysAreCovered, Buys
  <2> QED
    BY <1>6, <1>12, <1>14, <2>1, <2>2
<1>17. shown' \in [shares : [Tickers -> Nat], cash : Nat]
  <2>1. PICK k, m : /\ k = (IF x.side = "buy" THEN s + u ELSE s - u)
                    /\ m = (IF x.side = "buy" THEN c - u ELSE c + u)
    OBVIOUS
  <2>2. k \in Nat /\ m \in Nat
    BY <1>6, <1>15, <1>16, <2>1
  <2>3. shown' = [shares |-> [shown.shares EXCEPT ![t] = k], cash |-> m]
    BY <1>11, <2>1
  <2> QED
    BY <1>6, <2>2, <2>3
<1>18. Types'
  BY <1>11, <1>17 DEF Traded, Types
<1>19. MarksKept'
  BY <1>11 DEF Traded, MarksKept, Current
<1>20. ReadKept'
  <2> SUFFICES ASSUME run'.phase = "read",
                      \A p \in Used' : orders'[p].row = "ended" /\ orders'[p].age > run'.elapsed + Lag
               PROVE  FALSE
    BY DEF ReadKept
  <2>1. run.elapsed \in Nat
    BY <1>11, RunIsARecord, SettledOrdersAreShown DEF Traded, RebalanceRuns
  <2>2. x.row = "ended" /\ x.age > run.elapsed + Lag
    BY <1>3, <1>7, <1>9, <1>10, <1>11
  <2>3. x.age > Lag /\ x.age \in Nat
    BY <1>4, <2>1, <2>2, LeftIsNatural, SettledOrdersAreShown
  <2> QED
    BY <1>4, <1>5, <1>6, <2>2, <2>3 DEF OrderKept
<1>21. LinesKept'
  <2> SUFFICES ASSUME run'.phase \in {"lines", "sending"} PROVE LinesKept'
    BY DEF LinesKept
  <2>1. run \in RebalanceRuns /\ run' = run /\ run.phase \in {"lines", "sending"}
    BY <1>11, RunIsARecord DEF Traded
  <2>2. OrdersKept /\ LinesKept /\ Rowed /\ Untouched
    BY <2>1 DEF Traded, LinesKept
  <2>3. Rowed'
    <3>1. \A p \in Used : orders'[p].row = orders[p].row /\ orders'[p].age = orders[p].age
                          /\ orders'[p].ticker = orders[p].ticker
      BY <1>1, <1>5, <1>7, <1>9 DEF Used
    <3> QED
      BY <1>10, <2>1, <2>2, <3>1 DEF Rowed
  <2>4. t \notin Unsent(run) /\ Unsent(run) \subseteq Tickers
    BY <1>1, <1>3, <1>5, <2>1, <2>2 DEF Untouched, Unsent, RebalanceRuns
  <2>5. \A v \in Unsent(run') : shown'.shares[v] = shown.shares[v]
    BY <1>12, <2>1, <2>4
  <2>6. \A p \in Used' : p \in Used /\ orders'[p].ticker = orders[p].ticker
    BY <1>1, <1>5, <1>7, <1>9, <1>10 DEF Used
  <2>7. run.cash \in Nat /\ shown.cash \in Nat /\ shown'.cash \in Nat
    BY <1>5, <1>6, <1>17, <2>1 DEF RebalanceRuns
  <2>8. AllOf(Buys)' \in Nat /\ Bought' \in Nat
    BY <1>6, <1>14
  <2>9. AllOf(Buys)' + shown.cash + Bought <= AllOf(Buys) + shown'.cash + Bought'
    BY <1>5, <1>6, <1>12, <1>14
  <2>10. \A v \in Tickers : Coming(v)' = Coming(v)
    <3> SUFFICES ASSUME NEW v \in Tickers PROVE Coming(v)' = Coming(v)
      OBVIOUS
    <3>1. PICK b, e : b = AllOf(OfTicker(v, "buy")) /\ e = AllOf(OfTicker(v, "sell"))
      OBVIOUS
    <3>2. b \in Nat /\ e \in Nat
      BY <1>13, <3>1
    <3>3. /\ AllOf(OfTicker(v, "buy"))' = b - (IF v = t /\ x.side = "buy" THEN u ELSE 0)
          /\ AllOf(OfTicker(v, "sell"))' = e - (IF v = t /\ x.side = "sell" THEN u ELSE 0)
      BY <1>13, <3>1
    <3>4. CASE v # t
      BY <1>12, <3>1, <3>2, <3>3, <3>4 DEF Coming
    <3>5. CASE v = t /\ x.side = "buy"
      <4>1. shown'.shares[v] = s + u /\ shown.shares[v] = s
        BY <1>5, <1>12, <3>5
      <4>2. (s + u) + (b - u) - (e - 0) = s + b - e
        BY <1>6, <3>2
      <4> QED
        BY <3>1, <3>3, <3>5, <4>1, <4>2 DEF Coming
    <3>6. CASE v = t /\ x.side = "sell"
      <4>1. shown'.shares[v] = s - u /\ shown.shares[v] = s
        BY <1>5, <1>12, <3>6
      <4>2. (s - u) + (b - 0) - (e - u) = s + b - e
        BY <1>6, <3>2
      <4> QED
        BY <3>1, <3>3, <3>6, <4>1, <4>2 DEF Coming
    <3> QED
      BY <1>6, <3>4, <3>5, <3>6
  <2> QED
    BY <2>1, <2>2, <2>3, <2>5, <2>6, <2>7, <2>8, <2>9, <2>10, LinesGoOn
<1> QED
  BY <1>10, <1>15, <1>16, <1>18, <1>19, <1>20, <1>21 DEF Traded

\* What an order is a tick later.
LEMMA OlderIsKept ==
  ASSUME NEW x, OrderKept(x), x.row = "ended" /\ x.age >= Lag => x.unshown = 0,
         NEW n, n = Older(x)
  PROVE  \/ n = NoOrder /\ x.row = "ended" /\ x.age = ORDER_SETTLE_TIME /\ Left(x) = 0
         \/ /\ OrderKept(n) /\ Left(n) = Left(x) /\ n.row = x.row /\ n.ticker = x.ticker
            /\ n.side = x.side /\ n.quantity = x.quantity
            /\ n.age = IF x.row = "ended" THEN x.age + 1 ELSE x.age
<1>1. /\ x # NoOrder /\ x \in OrderRecords /\ x.age \in Nat /\ x.age <= ORDER_SETTLE_TIME
      /\ x.age # Old
  BY LeftIsNatural, SettledOrdersAreShown DEF OrderKept, Old
<1>2. CASE x.row = "ended" /\ x.age = ORDER_SETTLE_TIME /\ x.unshown = 0
  BY <1>1, <1>2 DEF Older, Left, OrderKept
<1>3. CASE ~(x.row = "ended" /\ x.age = ORDER_SETTLE_TIME /\ x.unshown = 0)
  <2>1. PICK age : age = IF x.row = "ended" THEN x.age + 1 ELSE x.age
    OBVIOUS
  <2>2. n = [x EXCEPT !.age = age]
    BY <1>1, <1>3, <2>1 DEF Older
  <2>3. age \in 0 .. Old /\ age <= ORDER_SETTLE_TIME
    BY <1>1, <1>3, <2>1, SettledOrdersAreShown DEF Old
  <2>4. /\ n \in OrderRecords /\ n.row = x.row /\ n.ticker = x.ticker
        /\ n.side = x.side /\ n.quantity = x.quantity /\ n.age = age
        /\ n.filled = x.filled /\ n.unshown = x.unshown /\ n.at = x.at
    BY <1>1, <2>2, <2>3 DEF OrderRecords
  <2>5. x.row = "ended" /\ age > Lag => x.unshown = 0
    BY <1>1, <2>1, SettledOrdersAreShown
  <2>6. OrderKept(n)
    BY <2>3, <2>4, <2>5 DEF OrderKept
  <2> QED
    BY <2>1, <2>4, <2>6 DEF Left
<1> QED
  BY <1>2, <1>3

LEMMA RebalanceTickKeeps ==
  ASSUME Traded, RebalanceTick
  PROVE  Traded'
<1>1. /\ \A o \in Used : orders[o].row = "ended" /\ orders[o].age >= Lag => orders[o].unshown = 0
      /\ run # NoRun => run.elapsed < RunLimit
      /\ orders' = [o \in Slots |-> Older(orders[o])]
      /\ run' = IF run = NoRun THEN NoRun ELSE [run EXCEPT !.elapsed = @ + 1]
      /\ UNCHANGED <<settings, day, strategy, dry, shown>>
  BY DEF RebalanceTick
<1>2. ASSUME NEW o \in Slots
      PROVE  orders'[o] = IF orders[o] = NoOrder THEN NoOrder ELSE Older(orders[o])
  BY <1>1 DEF Older
<1>3. ASSUME NEW o \in Used
      PROVE  \/ /\ orders'[o] = NoOrder /\ orders[o].row = "ended"
                /\ orders[o].age = ORDER_SETTLE_TIME /\ Left(orders[o]) = 0
             \/ /\ OrderKept(orders'[o]) /\ Left(orders'[o]) = Left(orders[o])
                /\ orders'[o].row = orders[o].row /\ orders'[o].ticker = orders[o].ticker
                /\ orders'[o].side = orders[o].side
                /\ orders'[o].quantity = orders[o].quantity
                /\ orders'[o].age
                     = IF orders[o].row = "ended" THEN orders[o].age + 1 ELSE orders[o].age
  <2>1. PICK x, n : x = orders[o] /\ n = Older(orders[o])
    OBVIOUS
  <2>2. OrderKept(x) /\ orders'[o] = n
    BY <1>1, <1>2, <2>1 DEF Traded, OrdersKept, Used
  <2>3. x.row = "ended" /\ x.age >= Lag => x.unshown = 0
    BY <1>1, <2>1
  <2> QED
    BY <2>1, <2>2, <2>3, OlderIsKept
<1>4. OrdersKept'
  <2>1. orders' = [o \in Slots |-> orders'[o]]
    BY <1>1
  <2>2. ASSUME NEW o \in Slots, orders'[o] # NoOrder PROVE OrderKept(orders'[o])
    BY <1>2, <1>3, <2>2 DEF Used
  <2> QED
    BY <2>1, <2>2 DEF OrdersKept
<1>5. Used' \subseteq Used
  BY <1>2 DEF Used
<1>6. Stays
  <2>1. \A p \in Used' : orders'[p] # NoOrder /\ p \in Used
    BY <1>5 DEF Used
  <2>2. \A p \in Used \ Used' : orders'[p] = NoOrder
    BY DEF Used
  <2>3. \A x : OrderKept(x) => x # NoOrder
    BY LeftIsNatural
  <2> QED
    BY <1>3, <1>5, <2>1, <2>2, <2>3 DEF Stays
<1>7. NeverOvershoots' /\ BuysAreCovered' /\ \A t : Coming(t)' = Coming(t)
  BY <1>1, <1>4, <1>6, AllStays DEF Traded
<1>8. run # NoRun =>
        /\ run \in RebalanceRuns /\ Counts(run.loaded) /\ run' \in RebalanceRuns
        /\ run' # NoRun /\ run'.phase = run.phase /\ run'.elapsed = run.elapsed + 1
        /\ run'.shares = run.shares /\ run'.cash = run.cash /\ run'.on = run.on
        /\ run'.loaded = run.loaded /\ run'.fresh = run.fresh /\ run'.todo = run.todo
        /\ run'.excused = run.excused
        /\ run'.cash_blocks = run.cash_blocks /\ run'.halt_blocks = run.halt_blocks
        /\ run.elapsed \in Nat /\ run.elapsed + 1 <= RunLimit
  <2> SUFFICES ASSUME run # NoRun PROVE
        /\ run \in RebalanceRuns /\ Counts(run.loaded) /\ run' \in RebalanceRuns
        /\ run' # NoRun /\ run'.phase = run.phase /\ run'.elapsed = run.elapsed + 1
        /\ run'.shares = run.shares /\ run'.cash = run.cash /\ run'.on = run.on
        /\ run'.loaded = run.loaded /\ run'.fresh = run.fresh /\ run'.todo = run.todo
        /\ run'.excused = run.excused
        /\ run'.cash_blocks = run.cash_blocks /\ run'.halt_blocks = run.halt_blocks
        /\ run.elapsed \in Nat /\ run.elapsed + 1 <= RunLimit
    OBVIOUS
  <2>1. run \in RebalanceRuns /\ Counts(run.loaded)
    BY RunIsARecord DEF Traded
  <2>2. PICK e : e = run.elapsed + 1
    OBVIOUS
  <2>3. e \in 0 .. RunLimit /\ run.elapsed \in Nat /\ e <= RunLimit
    BY <1>1, <2>1, <2>2, SettledOrdersAreShown DEF RebalanceRuns
  <2>4. run' = [run EXCEPT !.elapsed = e]
    BY <1>1, <2>2
  <2> QED
    BY <2>1, <2>2, <2>3, <2>4 DEF RebalanceRuns, NoRun
<1>9. run = NoRun => run' = NoRun
  BY <1>1
<1>10. Types'
  BY <1>1, <1>8, <1>9 DEF Traded, Types
<1>11. MarksKept'
  <2>1. run' # NoRun => Current(run)'
    BY <1>1, <1>8, <1>9 DEF Traded, MarksKept, Current
  <2>2. dry # NoRun => Current(dry)'
    BY <1>1 DEF Traded, MarksKept, Current
  <2> QED
    BY <1>1, <2>1, <2>2 DEF Traded, MarksKept
<1>12. ReadKept'
  <2> SUFFICES ASSUME run'.phase = "read",
                      \A p \in Used' : orders'[p].row = "ended" /\ orders'[p].age > run'.elapsed + Lag
               PROVE  shown.shares = run.shares /\ shown.cash = run.cash
    BY <1>1, <1>8, <1>9 DEF ReadKept, NoRun
  <2>1. run # NoRun /\ run.phase = "read" /\ run.elapsed \in Nat /\ run'.elapsed = run.elapsed + 1
        /\ run.elapsed + 1 <= RunLimit
    BY <1>8, <1>9 DEF NoRun
  <2>2. ASSUME NEW p \in Used PROVE orders[p].row = "ended" /\ orders[p].age > run.elapsed + Lag
    <3>1. orders[p].age \in Nat
      BY LeftIsNatural DEF Traded, OrdersKept, Used
    <3>2. CASE /\ orders'[p] = NoOrder /\ orders[p].row = "ended"
               /\ orders[p].age = ORDER_SETTLE_TIME
      BY <2>1, <3>2, SettledOrdersAreShown
    <3>3. CASE /\ OrderKept(orders'[p]) /\ orders'[p].row = orders[p].row
               /\ orders'[p].age
                    = IF orders[p].row = "ended" THEN orders[p].age + 1 ELSE orders[p].age
      <4>1. p \in Used'
        BY <3>3, LeftIsNatural DEF Used
      <4>2. orders'[p].row = "ended" /\ orders'[p].age > run'.elapsed + Lag
        BY <4>1
      <4> QED
        BY <2>1, <3>1, <3>3, <4>2, SettledOrdersAreShown
    <3> QED
      BY <1>3, <3>2, <3>3
  <2> QED
    BY <2>1, <2>2 DEF Traded, ReadKept
<1>13. LinesKept'
  <2> SUFFICES ASSUME run'.phase \in {"lines", "sending"} PROVE LinesKept'
    BY DEF LinesKept
  <2>1. /\ run # NoRun /\ run \in RebalanceRuns /\ run.phase \in {"lines", "sending"}
        /\ run'.phase = run.phase
        /\ run.elapsed \in Nat /\ run'.elapsed = run.elapsed + 1
        /\ run.elapsed + 1 <= RunLimit
    BY <1>8, <1>9 DEF NoRun
  <2>2. OrdersKept /\ LinesKept /\ Rowed
    BY <2>1 DEF Traded, LinesKept
  <2>3. ASSUME NEW p \in Used
        PROVE  /\ OrderKept(orders'[p]) /\ orders'[p].row = orders[p].row
               /\ orders'[p].ticker = orders[p].ticker
               /\ orders'[p].age
                    = IF orders[p].row = "ended" THEN orders[p].age + 1 ELSE orders[p].age
               /\ orders[p].age \in Nat
    <3>1. orders[p].age \in Nat
      BY LeftIsNatural DEF Traded, OrdersKept, Used
    <3>2. orders[p].row = "ended" => orders[p].age # ORDER_SETTLE_TIME
      BY <2>1, <2>2, <3>1, SettledOrdersAreShown DEF Rowed, Active
    <3> QED
      BY <1>3, <3>1, <3>2
  <2>4. Used' = Used
    BY <1>5, <2>3, LeftIsNatural DEF Used
  <2>5. Rowed'
    <3> SUFFICES ASSUME NEW p \in Used
        PROVE  /\ orders'[p].row \in Active \/ orders'[p].age <= run'.elapsed
               /\ orders'[p].row = "transmitting"
                    => run'.phase = "sending" /\ orders'[p].ticker \in run'.todo
               /\ orders'[p].row = "submission_unknown"
                    => run'.todo = {} /\ orders'[p].ticker \in run'.excused
               /\ orders'[p].row = "transmitting" => orders[p].row = "transmitting"
      BY <2>2, <2>4 DEF Rowed
    <3>1. /\ orders[p].row \in Active \/ orders[p].age <= run.elapsed
          /\ orders[p].row = "transmitting" => run.phase = "sending" /\ orders[p].ticker \in run.todo
          /\ orders[p].row = "submission_unknown" => run.todo = {} /\ orders[p].ticker \in run.excused
      BY <2>2 DEF Rowed
    <3>2. orders[p].row \in Active \cup {"ended"}
      BY <2>2 DEF OrdersKept, OrderKept, OrderRecords, Used
    <3>3. orders'[p].row \in Active \/ orders'[p].age <= run'.elapsed
      BY <2>1, <2>3, <3>1, <3>2
    <3> QED
      BY <1>8, <2>1, <2>3, <3>1, <3>3
  <2>6. Unsent(run') = Unsent(run)
    BY <1>8, <2>1 DEF Unsent
  <2>7. AllOf(Buys)' = AllOf(Buys) /\ Bought' = Bought
    BY <1>4, <1>6, <2>2, <2>4, BuysStay
  <2>8. AllOf(Buys) \in Nat /\ Bought \in Nat
    <3>1. Buys \in SUBSET Used
      BY DEF Buys
    <3> QED
      BY <2>2, <3>1, AllIsNatural, BoughtIsNatural
  <2>9. run.cash \in Nat /\ shown.cash \in Nat /\ shown' = shown
    BY <1>1, <2>1 DEF RebalanceRuns, Traded, Types
  <2>10. AllOf(Buys)' + shown.cash + Bought <= AllOf(Buys) + shown'.cash + Bought'
    BY <2>7, <2>8, <2>9
  <2>11. \A p \in Used' : p \in Used /\ orders'[p].ticker = orders[p].ticker
    BY <2>3, <2>4
  <2> QED
    BY <1>7, <1>8, <2>1, <2>2, <2>5, <2>6, <2>7, <2>8, <2>9, <2>10, <2>11, LinesGoOn
<1> QED
  BY <1>4, <1>7, <1>10, <1>11, <1>12, <1>13 DEF Traded

LEMMA RebalanceBegins == RebalanceInit => Traded
<1> SUFFICES ASSUME RebalanceInit PROVE Traded
  OBVIOUS
<1>1. /\ settings = [kill |-> FALSE, auto |-> TRUE] /\ day = 1
      /\ strategy = [mark |-> 0, attempts_on |-> 0, attempts |-> 0]
      /\ run = NoRun /\ dry = NoRun
      /\ orders = [o \in Slots |-> NoOrder]
      /\ shown = [shares |-> InitialShares, cash |-> InitialCash]
  BY DEF RebalanceInit
<1>2. Used = {} /\ OrdersKept
  BY <1>1 DEF Used, OrdersKept
<1>3. /\ 1 \in 1 .. Len(PeriodOf) /\ 0 \in 0 .. Len(PeriodOf)
      /\ 0 \in 0 .. MAX_CASH_BLOCKED_ATTEMPTS + 1
  BY PeriodsFollow, SettledOrdersAreShown
<1>4. Counts(strategy)
  BY <1>1, <1>3 DEF Counts, Strategies
<1>5. Types
  BY <1>1, <1>3, <1>4, SharesAndCash DEF Types
<1>6. NeverOvershoots
  <2> SUFFICES ASSUME NEW t \in Tickers
      PROVE  /\ shown.shares[t] + AllOf(OfTicker(t, "buy"))
                  <= Max({InitialShares[t], TargetShares[t]})
             /\ shown.shares[t] - AllOf(OfTicker(t, "sell"))
                  >= Min({InitialShares[t], TargetShares[t]})
    BY DEF NeverOvershoots
  <2>1. OfTicker(t, "buy") = {} /\ OfTicker(t, "sell") = {}
    BY <1>2 DEF OfTicker
  <2>2. AllOf(OfTicker(t, "buy")) = 0 /\ AllOf(OfTicker(t, "sell")) = 0
    BY <2>1, NothingOfNone
  <2>3. PICK high, low : /\ high = Max({InitialShares[t], TargetShares[t]})
                         /\ low = Min({InitialShares[t], TargetShares[t]})
    OBVIOUS
  <2>4. /\ high \in Nat /\ low \in Nat /\ InitialShares[t] <= high /\ low <= InitialShares[t]
        /\ InitialShares[t] \in Nat /\ shown.shares[t] = InitialShares[t]
    BY <1>1, <2>3, EndsOfRange, SharesAndCash
  <2> QED
    BY <2>2, <2>3, <2>4
<1>7. BuysAreCovered
  <2>1. {o \in Used : orders[o].side = "buy"} = {}
    BY <1>2
  <2>2. AllOf({o \in Used : orders[o].side = "buy"}) = 0
    BY <2>1, NothingOfNone
  <2> QED
    BY <1>1, <2>2, SharesAndCash DEF BuysAreCovered
<1>8. MarksKept
  <2>1. PeriodOf[1] \in Nat
    BY <1>3, PeriodsFollow
  <2> QED
    BY <1>1, <2>1 DEF MarksKept
<1>9. ReadKept /\ LinesKept
  BY <1>1 DEF ReadKept, LinesKept, NoRun
<1> QED
  BY <1>2, <1>5, <1>6, <1>7, <1>8, <1>9 DEF Traded

LEMMA NothingHappens ==
  ASSUME Traded, UNCHANGED rebalance_vars
  PROVE  Traded'
<1>1. Types' /\ MarksKept'
  BY DEF rebalance_vars, Traded, Types, MarksKept, Current
<1> QED
  BY <1>1, RunStands DEF rebalance_vars

LEMMA RebalanceStepKeeps ==
  ASSUME Traded, [RebalanceNext]_rebalance_vars
  PROVE  Traded'
<1>1. CASE UNCHANGED rebalance_vars
  BY <1>1, NothingHappens
<1>2. CASE ReadAccount
  BY <1>2, ReadAccountKeeps
<1>3. CASE Skip
  BY <1>3, UnplannedKeeps DEF Skip
<1>4. CASE SkipAndMark
  BY <1>4, UnplannedKeeps DEF SkipAndMark
<1>5. CASE MakePlan
  BY <1>5, MakePlanKeeps
<1>6. CASE AlreadyAligned
  BY <1>6, UnplannedKeeps DEF AlreadyAligned
<1>7. CASE RefuseForGood \/ RefuseForHalt \/ RefuseForCash
  BY <1>7, RefusalsKeep
<1>8. CASE \E o \in Slots : \/ Dispatch(o) \/ SubmitBlocked(o)
                            \/ Accepted(o) \/ Refused(o) \/ NoAnswer(o)
                            \/ Arrives(o) \/ IsLost(o) \/ Fill(o) \/ EndShort(o)
                            \/ Show(o) \/ Settle(o)
  <2>1. PICK o \in Slots : \/ Dispatch(o) \/ SubmitBlocked(o)
                           \/ Accepted(o) \/ Refused(o) \/ NoAnswer(o)
                           \/ Arrives(o) \/ IsLost(o) \/ Fill(o) \/ EndShort(o)
                           \/ Show(o) \/ Settle(o)
    BY <1>8
  <2>2. CASE Dispatch(o) \/ SubmitBlocked(o)
    BY <2>2, DispatchKeeps, SubmitBlockedKeeps
  <2>3. CASE Accepted(o) \/ Refused(o) \/ NoAnswer(o)
    BY <2>3, AcceptedKeeps, RefusedKeeps, NoAnswerKeeps
  <2>4. CASE Arrives(o) \/ IsLost(o) \/ Fill(o) \/ EndShort(o)
    BY <2>4, ArrivesKeeps, IsLostKeeps, FillKeeps, EndShortKeeps
  <2>5. CASE Show(o) \/ Settle(o)
    BY <2>5, ShowKeeps, SettleKeeps
  <2> QED
    BY <2>1, <2>2, <2>3, <2>4, <2>5
<1>9. CASE Record
  BY <1>9, RecordKeeps
<1>10. CASE RunLost \/ EditStrategy \/ DryRunLost
  BY <1>10, EditKeeps
<1>11. CASE BeginDryRun
  BY <1>11, BeginDryRunKeeps
<1>12. CASE DryRunWrites
  BY <1>12, DryRunWritesKeeps
<1>13. CASE \E kill, auto \in BOOLEAN : SetControls(kill, auto)
  BY <1>13, ControlsKeep
<1>14. CASE RebalanceTick
  BY <1>14, RebalanceTickKeeps
<1>15. CASE NextDay
  BY <1>15, NextDayKeeps
<1> QED
  BY <1>1, <1>2, <1>3, <1>4, <1>5, <1>6, <1>7, <1>8, <1>9, <1>10, <1>11, <1>12, <1>13,
     <1>14, <1>15 DEF RebalanceNext

\* Every order fits the account a run planned with, every account a run may plan
\* with shows what was done, and no period is recorded that has not come: the
\* inductive invariant of the rebalance, in all its steps.
THEOREM RebalancesKeepTheirBooks == RebalanceSpec => []Traded
<1>1. RebalanceInit => Traded
  BY RebalanceBegins
<1>2. Traded /\ [RebalanceNext]_rebalance_vars => Traded'
  BY RebalanceStepKeeps
<1> QED
  BY <1>1, <1>2, PTL DEF RebalanceSpec

LEMMA BoundsAreKept ==
  ASSUME Traded
  PROVE  StaysWithinBounds
<1>1. \A o \in Used : /\ orders[o] \in OrderRecords
                      /\ orders[o].unshown <= orders[o].filled
                      /\ orders[o].filled <= orders[o].quantity
  BY DEF Traded, OrdersKept, OrderKept, Used
<1>2. /\ settings \in [kill : BOOLEAN, auto : BOOLEAN] /\ day \in 1 .. Len(PeriodOf)
      /\ shown.shares \in [Tickers -> Nat] /\ shown.cash \in Nat
  BY DEF Traded, Types
<1>3. /\ strategy.mark \in {0} \union Range(PeriodOf)
      /\ strategy.attempts \in 0 .. MAX_CASH_BLOCKED_ATTEMPTS + 1
      /\ strategy.attempts = 0 <=> strategy.attempts_on = 0
  BY DEF Traded, Types, Counts, Strategies
<1>4. RebalanceTypeOK
  BY <1>1, <1>2, <1>3 DEF RebalanceTypeOK
<1> QED
  BY <1>4 DEF Traded, StaysWithinBounds

\* Whatever runs were killed, edited away, cash-blocked or left with an unknown
\* outcome, all orders together never take a position past its target, and the
\* buys the account does not show yet never cost more than its free cash
\* (the reading, the plan and the admission of _build_rebalance_plan and
\* create_order_intent against late fills).
THEOREM OrdersStayWithinBounds == RebalanceSpec => []StaysWithinBounds
<1>1. Traded => StaysWithinBounds
  BY BoundsAreKept
<1> QED
  BY <1>1, RebalancesKeepTheirBooks, PTL

LEMMA OneUnknownHolds ==
  ASSUME Traded, [RebalanceNext]_rebalance_vars
  PROVE  UnknownHoldsTheStrategy
<1> SUFFICES ASSUME NEW o \in Slots, NEW p \in Slots, orders[o].row = "submission_unknown",
                    orders[p] = NoOrder
             PROVE  orders'[p].row # "transmitting"
  BY DEF UnknownHoldsTheStrategy
<1>1. orders[p].row = "none" /\ p \notin Used /\ o \in Used
  BY DEF NoOrder, Used
<1>2. orders = [q \in Slots |-> orders[q]]
  BY DEF Traded, OrdersKept
<1>3. CASE UNCHANGED orders
  BY <1>1, <1>3
<1>4. CASE RebalanceTick
  BY <1>1, <1>4 DEF RebalanceTick, Older, NoOrder
<1>5. ASSUME NEW q \in Slots, Dispatch(q) PROVE FALSE
  BY <1>1, <1>5, LineFacts DEF Dispatch
<1>6. ASSUME NEW q \in Slots, SubmitBlocked(q) PROVE orders'[p].row # "transmitting"
  <2>1. CASE q = p
    BY <1>2, <1>6, <2>1 DEF SubmitBlocked, NewOrder
  <2>2. CASE q # p
    BY <1>1, <1>2, <1>6, <2>2 DEF SubmitBlocked, NewOrder
  <2> QED
    BY <2>1, <2>2
<1>7. ASSUME NEW q \in Slots, Accepted(q) \/ Refused(q) \/ NoAnswer(q)
      PROVE  orders'[p].row # "transmitting"
  <2>1. q # p
    BY <1>1, <1>7 DEF Accepted, Refused, NoAnswer, Transmitting
  <2> QED
    BY <1>1, <1>2, <1>7, <2>1 DEF Accepted, Refused, NoAnswer
<1>8. ASSUME NEW q \in Slots,
             \/ Arrives(q) \/ IsLost(q) \/ Fill(q) \/ EndShort(q) \/ Show(q) \/ Settle(q)
      PROVE  orders'[p].row # "transmitting"
  <2>1. q # p
    BY <1>1, <1>8 DEF Arrives, IsLost, Fill, EndShort, Show, Settle
  <2>2. orders'[p] = orders[p]
    BY <1>2, <1>8, <2>1 DEF Arrives, IsLost, Fill, EndShort, Show, Settle
  <2> QED
    BY <1>1, <2>2
<1>9. CASE RebalanceNext
  <2>1. CASE \E q \in Slots : \/ Dispatch(q) \/ SubmitBlocked(q)
                              \/ Accepted(q) \/ Refused(q) \/ NoAnswer(q)
                              \/ Arrives(q) \/ IsLost(q) \/ Fill(q) \/ EndShort(q)
                              \/ Show(q) \/ Settle(q)
    BY <1>5, <1>6, <1>7, <1>8, <2>1
  <2>2. CASE \E kill, auto \in BOOLEAN : SetControls(kill, auto)
    BY <1>3, <2>2 DEF SetControls
  <2>3. CASE \/ ReadAccount \/ Skip \/ SkipAndMark \/ MakePlan \/ AlreadyAligned
             \/ RefuseForGood \/ RefuseForHalt \/ RefuseForCash
             \/ Record \/ RunLost \/ EditStrategy \/ BeginDryRun \/ DryRunWrites
             \/ DryRunLost \/ NextDay
    <3>1. UNCHANGED orders
      BY <2>3 DEF ReadAccount, Skip, SkipAndMark, MakePlan, AlreadyAligned, RecordUnplanned,
         RefuseForGood, RefuseForHalt, RefuseForCash, Record, RunLost, EditStrategy,
         BeginDryRun, DryRunWrites, DryRunLost, NextDay
    <3> QED
      BY <1>3, <3>1
  <2> QED
    BY <1>4, <1>9, <2>1, <2>2, <2>3 DEF RebalanceNext
<1> QED
  BY <1>3, <1>9 DEF rebalance_vars

LEMMA AClosedPeriodIsTraded ==
  ASSUME Traded
  PROVE  ClosedMeansDone
<1> SUFFICES ASSUME Record \/ AlreadyAligned, strategy'.mark # run.loaded.mark,
                    NEW t \in Tickers \ run.excused
             PROVE  \/ Coming(t) = TargetShares[t]
                    \/ run.cash_blocks /\ strategy'.attempts >= MAX_CASH_BLOCKED_ATTEMPTS
  BY DEF ClosedMeansDone
<1>1. CASE Record
  <2>1. run.phase = "lines" /\ run.todo = {} /\ run # NoRun
    BY <1>1 DEF Record, Finished, NoRun
  <2>2. Unsent(run) = {} /\ OnTheWay
    BY <2>1 DEF Traded, LinesKept, Unsent
  <2>3. strategy'.attempts = CashBlockedAttempts /\ ~ToBeContinued
    BY <1>1 DEF Record
  <2>4. ~run.halt_blocks /\ ~(CashBlockedAttempts > 0 /\ CashBlockedAttempts < MAX_CASH_BLOCKED_ATTEMPTS)
    BY <2>3 DEF ToBeContinued
  <2>5. /\ CashBlockedAttempts \in 0 .. MAX_CASH_BLOCKED_ATTEMPTS + 1
        /\ run.cash_blocks => CashBlockedAttempts > 0
    BY <2>1, AttemptsAreCounted
  <2>6. PICK c : c = CashBlockedAttempts
    OBVIOUS
  <2>7. run.cash_blocks => c >= MAX_CASH_BLOCKED_ATTEMPTS
    BY <2>4, <2>5, <2>6, SettledOrdersAreShown
  <2>8. Coming(t) = TargetShares[t] \/ run.cash_blocks
    BY <2>2, <2>4 DEF OnTheWay
  <2> QED
    BY <2>3, <2>6, <2>7, <2>8
<1>2. CASE AlreadyAligned
  <2>1. run.phase = "read" /\ ~InFlight /\ _build_rebalance_plan = {} /\ run # NoRun
    BY <1>2 DEF AlreadyAligned, NoRun
  <2>2. Coming(t) = run.shares[t]
    BY <2>1, PlansOnTheTruth
  <2>3. ~(Quantity(t) > 0)
    BY <2>1 DEF _build_rebalance_plan
  <2>4. run.shares[t] = TargetShares[t]
    BY <2>1, <2>3, QuantitiesAreNumbers
  <2> QED
    BY <2>2, <2>4
<1> QED
  BY <1>1, <1>2

LEMMA MarksOnlyGrow ==
  ASSUME Traded, [RebalanceNext]_rebalance_vars
  PROVE  MarkNeverGoesBack
<1>1. CASE UNCHANGED strategy
  <2>1. strategy.mark \in Nat
    BY MarksAreNumbers DEF Traded, Types, Counts
  <2> QED
    BY <1>1, <2>1 DEF MarkNeverGoesBack
<1>2. CASE Skip \/ SkipAndMark \/ AlreadyAligned
  BY <1>2, UnplannedKeeps DEF Skip, SkipAndMark, AlreadyAligned, MarkNeverGoesBack
<1>3. CASE Record
  BY <1>3, RecordKeeps DEF MarkNeverGoesBack
<1>4. CASE DryRunWrites
  BY <1>4, DryRunWritesKeeps DEF MarkNeverGoesBack
<1>5. CASE RebalanceNext
  <2>1. ASSUME NEW o \in Slots,
               \/ Dispatch(o) \/ SubmitBlocked(o) \/ Accepted(o) \/ Refused(o) \/ NoAnswer(o)
               \/ Arrives(o) \/ IsLost(o) \/ Fill(o) \/ EndShort(o) \/ Show(o) \/ Settle(o)
        PROVE  UNCHANGED strategy
    BY <2>1 DEF Dispatch, SubmitBlocked, Accepted, Refused, NoAnswer, Arrives, IsLost, Fill,
       EndShort, Show, Settle
  <2>2. ASSUME NEW kill \in BOOLEAN, NEW auto \in BOOLEAN, SetControls(kill, auto)
        PROVE  UNCHANGED strategy
    BY <2>2 DEF SetControls
  <2>3. CASE \/ ReadAccount \/ MakePlan \/ RefuseForGood \/ RefuseForHalt \/ RefuseForCash
             \/ RunLost \/ EditStrategy \/ BeginDryRun \/ DryRunLost \/ RebalanceTick \/ NextDay
    <3>1. UNCHANGED strategy
      BY <2>3 DEF ReadAccount, MakePlan, RefuseForGood, RefuseForHalt, RefuseForCash, RunLost,
         EditStrategy, BeginDryRun, DryRunLost, RebalanceTick, NextDay
    <3> QED
      BY <1>1, <3>1
  <2> QED
    BY <1>1, <1>2, <1>3, <1>4, <1>5, <2>1, <2>2, <2>3 DEF RebalanceNext
<1> QED
  BY <1>1, <1>5 DEF rebalance_vars

\* While one order's outcome is unknown the strategy sends no other; a period is
\* recorded only when what is held and sent is the target, but for what the code
\* excuses; and no record takes a later period back.
THEOREM PeriodsAreAlwaysTraded == RebalanceSpec => PeriodsAreTraded
<1>1. Traded /\ [RebalanceNext]_rebalance_vars
        => [UnknownHoldsTheStrategy /\ ClosedMeansDone /\ MarkNeverGoesBack]_rebalance_vars
  BY OneUnknownHolds, AClosedPeriodIsTraded, MarksOnlyGrow
<1> QED
  BY <1>1, RebalancesKeepTheirBooks, PTL DEF RebalanceSpec, PeriodsAreTraded

(***************************************************************************)
(* The owners of reconciliation.                                           *)
(***************************************************************************)
BookEntry == [status : {"working", "filled", "cancelled"}, filled : 0 .. Qty]

OwnerRun ==
  [phase : {"work", "saving", "saved", "failed"}, next : 1 .. Len(Batch) + 1,
   at : Candidates \union {Missing}, seen : RowStates \union {Missing}, found : BookEntry \union {Missing},
   fresh : BOOLEAN, changes : [Candidates -> RowStates \union {Missing}],
   elapsed : 0 .. OwnerRunLimit, stalled : BOOLEAN]

WholeIfFilled(x) == x.status = "filled" => x.filled = Qty
Over(x) == x.status \in TERMINAL_ORDER_STATUSES

\* What the task has locked has not ended, and what it read of it is no older.
TaskReading(m, rows_now) ==
  /\ m.changes = NoChange
  /\ m.at # Missing => ~Over(rows_now[m.at])
  /\ m.found # Missing => rows_now[m.at].filled <= m.found.filled

\* The candidates a run is done with.
Behind(m) == {Batch[k] : k \in 1 .. (m.next - 1)}

\* What a demo run is about to save of an order goes on from the row as it is.
ChangeKept(x, o, m, book_now, rows_now) ==
  /\ o \in Behind(m)
  /\ x \in RowStates /\ WholeIfFilled(x)
  /\ rows_now[o].filled <= x.filled /\ x.filled <= book_now[o].filled
  /\ ~Over(rows_now[o])

DemoReading(m, book_now, rows_now) ==
  /\ m.at # Missing =>
       /\ m.seen \in RowStates
       /\ m.seen.filled <= book_now[m.at].filled
       /\ m.found # Missing => m.seen.filled <= m.found.filled
       /\ m.fresh => rows_now[m.at] = m.seen /\ ~Over(m.seen)
  /\ \A o \in Candidates : m.changes[o] # Missing =>
                             ChangeKept(m.changes[o], o, m, book_now, rows_now)

OwnerRunKept(r, m, book_now, rows_now) ==
  m = NoOwnerRun \/
    /\ m \in OwnerRun
    /\ m.at # Missing => m.phase = "work" /\ m.next \in DOMAIN Batch /\ m.at = Batch[m.next]
    /\ m.found # Missing => /\ m.at # Missing /\ WholeIfFilled(m.found)
                            /\ m.found.filled <= book_now[m.at].filled
    /\ IF r = Task THEN TaskReading(m, rows_now) ELSE DemoReading(m, book_now, rows_now)

\* The rows a run of this state has locked (Locks).
RowLocks(r, m) ==
  IF m.phase = "idle" THEN {}
  ELSE IF r = Task THEN {m.at} \ {Missing} ELSE {o \in Candidates : m.changes[o] # Missing}

\* A run that was not suspended has a lease that covers what is left of its time.
HasTheLease(r, m, l) ==
  m.phase \in {"work", "saving"} /\ ~m.stalled => l.holder = r /\ l.lease + m.elapsed >= OwnerLease

OwnersTyped ==
  /\ book \in [Candidates -> BookEntry] /\ order_row \in [Candidates -> RowStates]
  /\ \A o \in Candidates :
       /\ WholeIfFilled(book[o]) /\ (book[o].status = "working" => book[o].filled < Qty)
       /\ WholeIfFilled(order_row[o]) /\ order_row[o].filled <= book[o].filled
  /\ owner_lock \in [holder : Owners \union {Missing}, lease : 0 .. OwnerLease]

\* The inductive invariant.
OwnersKept ==
  /\ OwnersTyped
  /\ owner = [r \in Owners |-> owner[r]]
  /\ \A r \in Owners : OwnerRunKept(r, owner[r], book, order_row)
                       /\ HasTheLease(r, owner[r], owner_lock)
  /\ \A r, s \in Owners : r # s => RowLocks(r, owner[r]) \intersect RowLocks(s, owner[s]) = {}

-----------------------------------------------------------------------------
\* The locks of the state are those of the runs.
LEMMA LocksAreRowLocks == \A r \in Owners : Locks(r) = RowLocks(r, owner[r])
  BY DEF Locks, RowLocks

\* What is assumed of the constants, as the proofs use it.
LEMMA BatchIsOfOrders ==
  /\ DOMAIN Batch = 1 .. Len(Batch) /\ Len(Batch) \in Nat
  /\ \A k \in 1 .. Len(Batch) : Batch[k] \in Candidates
  /\ Qty \in Nat /\ Qty > 0
  /\ OwnerRunLimit \in Nat /\ OwnerLease \in Nat /\ OwnerRunLimit < OwnerLease
  /\ Task \in Owners /\ Task \notin Demos /\ Missing \notin Candidates /\ Missing \notin Owners
  BY LeaseOutlivesRun DEF Candidates, Owners

LEMMA RowsAreTyped ==
  ASSUME NEW x \in BookEntry
  PROVE  /\ x.filled \in 0 .. Qty /\ x.status \in {"working", "filled", "cancelled"}
         /\ MapStatus(x.status) \in KNOWN_ORDER_STATUSES /\ StatusOf(x) \in KNOWN_ORDER_STATUSES
         /\ (MapStatus(x.status) = "filled" <=> x.status = "filled")
         /\ (StatusOf(x) = "filled" <=> x.status = "filled")
  BY DEF BookEntry, MapStatus, StatusOf, KNOWN_ORDER_STATUSES, ACTIVE_ORDER_STATUSES,
         TERMINAL_ORDER_STATUSES

\* A run stays kept when the broker goes on.
LEMMA BrokerGoesOn ==
  ASSUME OwnersKept, NEW r \in Owners, OwnerRunKept(r, owner[r], book, order_row),
         NEW o \in Candidates, NEW x \in BookEntry, book[o].filled <= x.filled
  PROVE  OwnerRunKept(r, owner[r], [book EXCEPT ![o] = x], order_row)
<1> DEFINE m == owner[r]
           after == [book EXCEPT ![o] = x]
<1>1. \A p \in Candidates : after[p] \in BookEntry /\ book[p].filled <= after[p].filled
                            /\ book[p].filled \in 0 .. Qty /\ after[p].filled \in 0 .. Qty
  BY LeaseOutlivesRun DEF OwnersKept, OwnersTyped, BookEntry
<1>2. CASE m = NoOwnerRun
  BY <1>2 DEF OwnerRunKept
<1>3. CASE m # NoOwnerRun
  <2>1. m \in OwnerRun /\ Qty \in Nat
    BY <1>3, BatchIsOfOrders DEF OwnerRunKept, OwnersKept
  <2>2. m.at # Missing => m.at \in Candidates
    BY <2>1 DEF OwnerRun
  <2>3. m.found # Missing => m.found \in BookEntry /\ m.found.filled \in 0 .. Qty
    BY <2>1 DEF OwnerRun, BookEntry
  <2>4. m.found # Missing =>
          m.at # Missing /\ WholeIfFilled(m.found) /\ m.found.filled <= after[m.at].filled
    BY <1>1, <1>3, <2>1, <2>2, <2>3 DEF OwnerRunKept
  <2>5. CASE r = Task
    BY <1>3, <2>1, <2>4, <2>5 DEF OwnerRunKept
  <2>6. CASE r # Task
    <3>1. DemoReading(m, book, order_row)
      BY <1>3, <2>6 DEF OwnerRunKept
    <3>2. m.at # Missing => m.seen.filled <= after[m.at].filled
      BY <1>1, <2>1, <2>2, <3>1 DEF DemoReading, RowStates
    <3>3. ASSUME NEW p \in Candidates, m.changes[p] # Missing
          PROVE  ChangeKept(m.changes[p], p, m, after, order_row)
      <4>1. ChangeKept(m.changes[p], p, m, book, order_row)
        BY <3>1, <3>3 DEF DemoReading
      <4> QED BY <1>1, <2>1, <4>1 DEF ChangeKept, RowStates
    <3>4. DemoReading(m, after, order_row)
      BY <3>1, <3>2, <3>3 DEF DemoReading
    <3> QED BY <1>3, <2>1, <2>4, <2>6, <3>4 DEF OwnerRunKept
  <2> QED BY <2>5, <2>6
<1> QED BY <1>2, <1>3

\* A run is kept when others write rows it has not locked, and its copy of such a row
\* is outdated.
LEMMA OthersWrite ==
  ASSUME OwnersKept, NEW r \in Owners, NEW m, OwnerRunKept(r, m, book, order_row), m # NoOwnerRun,
         NEW written \in SUBSET Candidates, written \intersect RowLocks(r, m) = {},
         NEW rows_then, \A o \in Candidates \ written : rows_then[o] = order_row[o]
  PROVE  OwnerRunKept(r, IF m.at \in written THEN [m EXCEPT !.fresh = FALSE] ELSE m, book, rows_then)
<1> DEFINE n == IF m.at \in written THEN [m EXCEPT !.fresh = FALSE] ELSE m
<1>1. m \in OwnerRun /\ m.phase # "idle" /\ Missing \notin Candidates
  BY BatchIsOfOrders DEF OwnerRunKept, OwnersKept, OwnerRun
<1>2. /\ n \in OwnerRun /\ n.at = m.at /\ n.next = m.next /\ n.phase = m.phase
      /\ n.found = m.found /\ n.seen = m.seen /\ n.changes = m.changes
      /\ n.fresh => m.fresh /\ m.at \notin written
  BY <1>1 DEF OwnerRun
<1>3. m.at # Missing => m.at \in Candidates
  BY <1>1 DEF OwnerRun
<1>4. CASE r = Task
  <2>1. m.at # Missing => m.at \in RowLocks(r, m)
    BY <1>1, <1>4 DEF RowLocks
  <2>2. m.at # Missing => rows_then[m.at] = order_row[m.at]
    BY <1>3, <2>1
  <2>3. TaskReading(m, order_row) /\ (m.found # Missing => m.at # Missing)
    BY <1>4 DEF OwnerRunKept
  <2>4. TaskReading(n, rows_then)
    BY <1>2, <2>2, <2>3 DEF TaskReading
  <2> QED BY <1>2, <1>4, <2>4 DEF OwnerRunKept
<1>5. CASE r # Task
  <2>1. DemoReading(m, book, order_row)
    BY <1>5 DEF OwnerRunKept
  <2>2. n.at # Missing /\ n.fresh => rows_then[n.at] = n.seen /\ ~Over(n.seen)
    BY <1>2, <1>3, <2>1 DEF DemoReading
  <2>3. ASSUME NEW o \in Candidates, n.changes[o] # Missing
        PROVE  ChangeKept(n.changes[o], o, n, book, rows_then)
    <3>1. o \in RowLocks(r, m)
      BY <1>1, <1>2, <1>5, <2>3 DEF RowLocks
    <3>2. rows_then[o] = order_row[o]
      BY <3>1
    <3>3. ChangeKept(m.changes[o], o, m, book, order_row)
      BY <1>2, <2>1, <2>3 DEF DemoReading
    <3> QED BY <1>2, <3>2, <3>3 DEF ChangeKept, Behind
  <2>4. DemoReading(n, book, rows_then)
    BY <1>2, <2>1, <2>2, <2>3 DEF DemoReading
  <2> QED BY <1>2, <1>5, <2>4 DEF OwnerRunKept
<1> QED BY <1>4, <1>5

\* One run moves, and with it the lock at most.
LEMMA OneRunMoves ==
  ASSUME OwnersKept, NEW r \in Owners, NEW m, owner' = [owner EXCEPT ![r] = m],
         UNCHANGED <<book, order_row>>,
         owner_lock' \in [holder : Owners \union {Missing}, lease : 0 .. OwnerLease],
         OwnerRunKept(r, m, book, order_row), HasTheLease(r, m, owner_lock'),
         \A s \in Owners \ {r} : HasTheLease(s, owner[s], owner_lock'),
         \A s \in Owners \ {r} : RowLocks(r, m) \intersect RowLocks(s, owner[s]) = {}
  PROVE  OwnersKept'
<1>1. owner' = [s \in Owners |-> owner'[s]] /\ owner'[r] = m
      /\ \A s \in Owners \ {r} : owner'[s] = owner[s]
  BY DEF OwnersKept
<1>2. \A s \in Owners : OwnerRunKept(s, owner'[s], book, order_row)
                        /\ HasTheLease(s, owner'[s], owner_lock')
  BY <1>1 DEF OwnersKept
<1>3. \A s \in Owners : OwnerRunKept(s, owner[s], book, order_row)'
                        /\ HasTheLease(s, owner[s], owner_lock)'
  BY <1>2 DEF OwnerRunKept, HasTheLease, TaskReading, DemoReading, ChangeKept, Behind, Over
<1>4. OwnersTyped'
  BY DEF OwnersKept, OwnersTyped, WholeIfFilled
<1>5. \A s, t \in Owners : s # t => RowLocks(s, owner'[s]) \intersect RowLocks(t, owner'[t]) = {}
  BY <1>1 DEF OwnersKept
<1>6. \A s, t \in Owners : s # t => (RowLocks(s, owner[s]) \intersect RowLocks(t, owner[t]))' = {}
  BY <1>5 DEF RowLocks
<1> QED BY <1>1, <1>3, <1>4, <1>6 DEF OwnersKept

\* A run that only moves within its lease, its place in it known.
LEMMA RunMovesOn ==
  ASSUME OwnersKept, NEW r \in Owners, NEW m, owner' = [owner EXCEPT ![r] = m],
         UNCHANGED <<book, order_row, owner_lock>>, owner[r] \in OwnerRun,
         OwnerRunKept(r, m, book, order_row),
         m.phase \in {"work", "saving"} /\ ~m.stalled =>
           owner[r].phase \in {"work", "saving"} /\ ~owner[r].stalled
           /\ m.elapsed = owner[r].elapsed,
         \A s \in Owners \ {r} : RowLocks(r, m) \intersect RowLocks(s, owner[s]) = {}
  PROVE  OwnersKept'
<1>1. HasTheLease(r, owner[r], owner_lock)
      /\ \A s \in Owners \ {r} : HasTheLease(s, owner[s], owner_lock)
  BY DEF OwnersKept
<1>2. HasTheLease(r, m, owner_lock)
  BY <1>1 DEF HasTheLease
<1>3. /\ owner_lock' \in [holder : Owners \union {Missing}, lease : 0 .. OwnerLease]
      /\ UNCHANGED <<book, order_row>> /\ HasTheLease(r, m, owner_lock')
      /\ \A s \in Owners \ {r} : HasTheLease(s, owner[s], owner_lock')
  BY <1>1, <1>2 DEF OwnersKept, OwnersTyped
<1> QED BY <1>3, OneRunMoves

\* Going on to the next candidate, or giving up, gives locks back at most.
LEMMA GoingOn ==
  ASSUME OwnersKept, NEW r \in Owners, owner[r] \in OwnerRun, owner[r].phase = "work",
         NEW k \in 1 .. Len(Batch) + 1, owner[r].next <= k,
         NEW m, m = [GoOn(owner[r]) EXCEPT !.next = k]
  PROVE  /\ OwnerRunKept(r, m, book, order_row) /\ m.phase = "work" /\ m \in OwnerRun
         /\ m.elapsed = owner[r].elapsed /\ m.stalled = owner[r].stalled
         /\ m.at = Missing /\ m.found = Missing /\ m.changes = owner[r].changes
         /\ RowLocks(r, m) \subseteq RowLocks(r, owner[r])
<1>1. /\ m \in OwnerRun /\ m.phase = "work" /\ m.at = Missing /\ m.found = Missing
      /\ m.changes = owner[r].changes /\ m.next = k
      /\ m.elapsed = owner[r].elapsed /\ m.stalled = owner[r].stalled
  BY DEF GoOn, OwnerRun
<1>2. owner[r] # NoOwnerRun
  BY DEF NoOwnerRun
<1>3. CASE r = Task
  BY <1>1, <1>2, <1>3 DEF OwnersKept, OwnerRunKept, TaskReading, RowLocks
<1>4. CASE r # Task
  <2>1. DemoReading(owner[r], book, order_row)
    BY <1>2, <1>4 DEF OwnersKept, OwnerRunKept
  <2>2. Behind(owner[r]) \subseteq Behind(m)
    BY <1>1, BatchIsOfOrders DEF Behind, OwnerRun, OwnersKept
  <2>3. DemoReading(m, book, order_row)
    BY <1>1, <2>1, <2>2 DEF DemoReading, ChangeKept
  <2> QED BY <1>1, <1>4, <2>3 DEF OwnerRunKept, RowLocks
<1> QED BY <1>3, <1>4

LEMMA GivingUp ==
  ASSUME OwnersKept, NEW r \in Owners, owner[r] \in OwnerRun
  PROVE  OwnerRunKept(r, Failed(owner[r]), book, order_row) /\ RowLocks(r, Failed(owner[r])) = {}
         /\ Failed(owner[r]).phase = "failed"
<1> DEFINE m == Failed(owner[r])
<1>1. m \in OwnerRun /\ m.phase = "failed" /\ m.at = Missing /\ m.found = Missing
      /\ m.changes = NoChange
  BY DEF Failed, OwnerRun, NoChange
<1>2. \A o \in Candidates : m.changes[o] = Missing
  BY <1>1 DEF NoChange
<1> QED BY <1>1, <1>2 DEF OwnerRunKept, TaskReading, DemoReading, RowLocks

-----------------------------------------------------------------------------
\* Every step keeps it.  The start, the release and the end of a process.
LEMMA StartKeeps == ASSUME OwnersKept, NEW r \in Owners, Start(r) PROVE OwnersKept'
<1> DEFINE m == [phase |-> "work", next |-> 1, at |-> Missing, seen |-> Missing, found |-> Missing,
                 fresh |-> TRUE, changes |-> NoChange, elapsed |-> 0, stalled |-> FALSE]
<1>1. /\ owner_lock = Unowned /\ owner_lock' = [holder |-> r, lease |-> OwnerLease]
      /\ owner' = [owner EXCEPT ![r] = m] /\ UNCHANGED <<book, order_row>>
  BY DEF Start
<1>2. m \in OwnerRun /\ \A o \in Candidates : m.changes[o] = Missing
  BY BatchIsOfOrders DEF OwnersKept, OwnerRun, NoChange
<1>3. OwnerRunKept(r, m, book, order_row) /\ RowLocks(r, m) = {}
  BY <1>2 DEF OwnerRunKept, TaskReading, DemoReading, RowLocks
<1>4. HasTheLease(r, m, owner_lock')
  BY <1>1, BatchIsOfOrders DEF HasTheLease, OwnersKept
<1>5. ASSUME NEW s \in Owners \ {r} PROVE HasTheLease(s, owner[s], owner_lock')
  <2>1. HasTheLease(s, owner[s], owner_lock) /\ s # Missing
    BY BatchIsOfOrders DEF OwnersKept
  <2>2. owner_lock.holder # s
    BY <1>1, <2>1 DEF Unowned
  <2> QED BY <2>1, <2>2 DEF HasTheLease
<1>6. owner_lock' \in [holder : Owners \union {Missing}, lease : 0 .. OwnerLease]
  BY <1>1, BatchIsOfOrders DEF OwnersKept
<1> QED
  <2> HIDE DEF m
  <2> QED BY <1>1, <1>3, <1>4, <1>5, <1>6, OneRunMoves

LEMMA ReleaseKeeps == ASSUME OwnersKept, NEW r \in Owners, Release(r) PROVE OwnersKept'
<1>1. /\ owner[r].phase \in {"saved", "failed"} /\ owner_lock' = LockReleased(r)
      /\ owner' = [owner EXCEPT ![r] = NoOwnerRun] /\ UNCHANGED <<book, order_row>>
  BY DEF Release
<1>2. OwnerRunKept(r, NoOwnerRun, book, order_row) /\ RowLocks(r, NoOwnerRun) = {}
      /\ HasTheLease(r, NoOwnerRun, owner_lock')
  BY DEF OwnerRunKept, RowLocks, HasTheLease, NoOwnerRun
<1>3. ASSUME NEW s \in Owners \ {r} PROVE HasTheLease(s, owner[s], owner_lock')
  BY <1>1 DEF OwnersKept, HasTheLease, LockReleased
<1>4. owner_lock' \in [holder : Owners \union {Missing}, lease : 0 .. OwnerLease]
  BY <1>1, BatchIsOfOrders DEF OwnersKept, OwnersTyped, LockReleased, Unowned
<1> QED BY <1>1, <1>2, <1>3, <1>4, OneRunMoves

LEMMA FailKeeps == ASSUME OwnersKept, NEW r \in Owners, Fail(r) PROVE OwnersKept'
<1>1. /\ owner[r].phase \in {"work", "saving"}
      /\ owner' = [owner EXCEPT ![r] = Failed(owner[r])]
      /\ UNCHANGED <<book, order_row, owner_lock>>
  BY DEF Fail
<1>2. owner[r] \in OwnerRun
  BY <1>1 DEF OwnersKept, OwnerRunKept, NoOwnerRun
<1> QED BY <1>1, <1>2, GivingUp, RunMovesOn

LEMMA DieKeeps == ASSUME OwnersKept, NEW r \in Owners, Die(r) PROVE OwnersKept'
<1>1. owner[r] # NoOwnerRun /\ owner' = [owner EXCEPT ![r] = NoOwnerRun]
      /\ UNCHANGED <<book, order_row, owner_lock>>
  BY DEF Die
<1>2. owner[r] \in OwnerRun
  BY <1>1 DEF OwnersKept, OwnerRunKept
<1>3. OwnerRunKept(r, NoOwnerRun, book, order_row) /\ RowLocks(r, NoOwnerRun) = {}
      /\ NoOwnerRun.phase = "idle"
  BY DEF OwnerRunKept, RowLocks, NoOwnerRun
<1> QED BY <1>1, <1>2, <1>3, RunMovesOn

\* A record that differs from a run's in its time only is kept as it is.
LEMMA OnlyTimeDiffers ==
  ASSUME OwnersKept, NEW r \in Owners, owner[r] \in OwnerRun, NEW m \in OwnerRun,
         m.phase = owner[r].phase, m.next = owner[r].next, m.at = owner[r].at, m.seen = owner[r].seen,
         m.found = owner[r].found, m.fresh = owner[r].fresh, m.changes = owner[r].changes
  PROVE  OwnerRunKept(r, m, book, order_row) /\ RowLocks(r, m) = RowLocks(r, owner[r])
<1>1. owner[r] # NoOwnerRun /\ OwnerRunKept(r, owner[r], book, order_row)
  BY DEF OwnerRun, NoOwnerRun, OwnersKept
<1> QED
  BY <1>1 DEF OwnerRunKept, TaskReading, DemoReading, ChangeKept, Behind, RowLocks

LEMMA StallKeeps == ASSUME OwnersKept, NEW r \in Owners, Stall(r) PROVE OwnersKept'
<1> DEFINE m == [owner[r] EXCEPT !.stalled = TRUE]
<1>1. /\ owner[r].phase \in {"work", "saving"}
      /\ owner' = [owner EXCEPT ![r] = m] /\ UNCHANGED <<book, order_row, owner_lock>>
  BY DEF Stall, OwnersKept
<1>2. owner[r] \in OwnerRun
  BY <1>1 DEF OwnersKept, OwnerRunKept, NoOwnerRun
<1>3. /\ m \in OwnerRun /\ m.stalled = TRUE /\ m.phase = owner[r].phase /\ m.next = owner[r].next
      /\ m.at = owner[r].at /\ m.seen = owner[r].seen /\ m.found = owner[r].found
      /\ m.fresh = owner[r].fresh /\ m.changes = owner[r].changes
  BY <1>2 DEF OwnerRun
<1>4. OwnerRunKept(r, m, book, order_row) /\ RowLocks(r, m) = RowLocks(r, owner[r])
  BY <1>2, <1>3, OnlyTimeDiffers
<1>5. \A s \in Owners \ {r} : RowLocks(r, m) \intersect RowLocks(s, owner[s]) = {}
  BY <1>4 DEF OwnersKept
<1> QED
  <2> HIDE DEF m
  <2> QED BY <1>1, <1>2, <1>3, <1>4, <1>5, RunMovesOn

LEMMA TimePassesKeeps == ASSUME OwnersKept, TimePasses PROVE OwnersKept'
<1> DEFINE Aged(s) == [owner[s] EXCEPT !.elapsed = @ + 1]
<1>1. /\ \A s \in Owners : owner[s] # NoOwnerRun =>
                             owner[s].stalled \/ owner[s].elapsed < OwnerRunLimit
      /\ owner_lock' = IF owner_lock.lease > 1 THEN [owner_lock EXCEPT !.lease = @ - 1] ELSE Unowned
      /\ owner' = [s \in Owners |-> IF owner[s] # NoOwnerRun /\ ~owner[s].stalled THEN Aged(s) ELSE owner[s]]
      /\ UNCHANGED <<book, order_row>>
  BY DEF TimePasses
<1>2. owner_lock' \in [holder : Owners \union {Missing}, lease : 0 .. OwnerLease]
  BY <1>1, BatchIsOfOrders DEF OwnersKept, OwnersTyped, Unowned
<1>3. ASSUME NEW s \in Owners
      PROVE  /\ OwnerRunKept(s, owner'[s], book, order_row)
             /\ HasTheLease(s, owner'[s], owner_lock')
             /\ RowLocks(s, owner'[s]) = RowLocks(s, owner[s])
  <2>1. CASE owner[s] # NoOwnerRun /\ ~owner[s].stalled
    <3>1. owner[s] \in OwnerRun /\ owner'[s] = Aged(s) /\ owner[s].elapsed < OwnerRunLimit
      BY <1>1, <2>1 DEF OwnersKept, OwnerRunKept
    <3>2. /\ Aged(s) \in OwnerRun /\ Aged(s).elapsed = owner[s].elapsed + 1
          /\ Aged(s).stalled = owner[s].stalled /\ Aged(s).phase = owner[s].phase
          /\ Aged(s).next = owner[s].next /\ Aged(s).at = owner[s].at
          /\ Aged(s).seen = owner[s].seen
          /\ Aged(s).found = owner[s].found /\ Aged(s).fresh = owner[s].fresh
          /\ Aged(s).changes = owner[s].changes /\ owner[s].elapsed \in 0 .. OwnerRunLimit
      BY <3>1, BatchIsOfOrders DEF OwnerRun, OwnersKept
    <3>3. OwnerRunKept(s, Aged(s), book, order_row) /\ RowLocks(s, Aged(s)) = RowLocks(s, owner[s])
      <4> HIDE DEF Aged
      <4> QED BY <3>1, <3>2, OnlyTimeDiffers
    <3>4. HasTheLease(s, Aged(s), owner_lock')
      <4>1. HasTheLease(s, owner[s], owner_lock) /\ owner_lock.lease \in 0 .. OwnerLease
        BY DEF OwnersKept, OwnersTyped
      <4>2. OwnerLease \in Nat /\ OwnerRunLimit \in Nat /\ OwnerRunLimit < OwnerLease
        BY BatchIsOfOrders DEF OwnersKept
      <4>3. owner_lock.lease + owner[s].elapsed >= OwnerLease => owner_lock.lease > 1
        BY <3>1, <3>2, <4>1, <4>2
      <4>4. owner_lock \in [holder : Owners \union {Missing}, lease : 0 .. OwnerLease]
        BY DEF OwnersKept, OwnersTyped
      <4>5. owner_lock.lease > 1 =>
              owner_lock'.holder = owner_lock.holder /\ owner_lock'.lease = owner_lock.lease - 1
        BY <1>1, <4>4
      <4> HIDE DEF Aged
      <4> QED BY <2>1, <3>2, <4>1, <4>2, <4>3, <4>5 DEF HasTheLease
    <3> HIDE DEF Aged
    <3> QED BY <3>1, <3>3, <3>4
  <2>2. CASE owner[s] = NoOwnerRun
    <3>1. owner'[s] = owner[s] /\ owner[s].phase = "idle"
      BY <1>1, <2>2 DEF NoOwnerRun
    <3> QED BY <3>1 DEF OwnersKept, HasTheLease
  <2>3. CASE owner[s] # NoOwnerRun /\ owner[s].stalled
    <3>1. owner'[s] = owner[s]
      BY <1>1, <2>3
    <3> QED BY <2>3, <3>1 DEF OwnersKept, HasTheLease
  <2> QED BY <2>1, <2>2, <2>3
<1>4. owner' = [s \in Owners |-> owner'[s]]
  BY <1>1
<1>5. \A s \in Owners : OwnerRunKept(s, owner[s], book, order_row)'
                        /\ HasTheLease(s, owner[s], owner_lock)'
  BY <1>1, <1>3 DEF OwnerRunKept, HasTheLease, TaskReading, DemoReading, ChangeKept, Behind, Over
<1>6. \A s, t \in Owners : s # t => RowLocks(s, owner'[s]) \intersect RowLocks(t, owner'[t]) = {}
  BY <1>3 DEF OwnersKept
<1>7. \A s, t \in Owners : s # t => (RowLocks(s, owner[s]) \intersect RowLocks(t, owner[t]))' = {}
  BY <1>6 DEF RowLocks
<1>8. OwnersTyped'
  BY <1>1, <1>2 DEF OwnersKept, OwnersTyped, WholeIfFilled
<1> QED BY <1>4, <1>5, <1>7, <1>8 DEF OwnersKept

-----------------------------------------------------------------------------
\* A working run and its candidate.
LEMMA CandidateIsAnOrder ==
  ASSUME OwnersKept, NEW r \in Owners, AtWork(r)
  PROVE  /\ owner[r] \in OwnerRun /\ owner[r].phase = "work" /\ owner[r] # NoOwnerRun
         /\ owner[r].next \in 1 .. Len(Batch) /\ owner[r].next + 1 \in 1 .. Len(Batch) + 1
         /\ Candidate(r) = Batch[owner[r].next] /\ Candidate(r) \in Candidates
         /\ Len(Batch) + 1 \in 1 .. Len(Batch) + 1 /\ owner[r].next <= Len(Batch) + 1
         /\ owner[r].next <= owner[r].next + 1 /\ DOMAIN Batch = 1 .. Len(Batch)
<1>1. owner[r].phase = "work" /\ owner[r].next \in DOMAIN Batch
      /\ Candidate(r) = Batch[owner[r].next]
  BY DEF AtWork, Candidate
<1>2. owner[r] \in OwnerRun /\ owner[r] # NoOwnerRun
  BY <1>1 DEF OwnersKept, OwnerRunKept, NoOwnerRun
<1> QED BY <1>1, <1>2, BatchIsOfOrders DEF OwnersKept, OwnerRun

\* Going on to the next one.
LEMMA NextOne ==
  ASSUME OwnersKept, NEW r \in Owners, AtWork(r)
  PROVE  /\ OwnerRunKept(r, GoOn(owner[r]), book, order_row) /\ GoOn(owner[r]) \in OwnerRun
         /\ GoOn(owner[r]).elapsed = owner[r].elapsed /\ GoOn(owner[r]).stalled = owner[r].stalled
         /\ GoOn(owner[r]).phase = "work" /\ GoOn(owner[r]).changes = owner[r].changes
         /\ GoOn(owner[r]).at = Missing /\ GoOn(owner[r]).found = Missing
         /\ GoOn(owner[r]).next = owner[r].next + 1
         /\ RowLocks(r, GoOn(owner[r])) \subseteq RowLocks(r, owner[r])
<1>1. GoOn(owner[r]) = [GoOn(owner[r]) EXCEPT !.next = owner[r].next + 1]
  BY DEF GoOn
<1>2. GoOn(owner[r]).next = owner[r].next + 1
  BY CandidateIsAnOrder DEF GoOn, OwnerRun
<1> QED BY <1>1, <1>2, CandidateIsAnOrder, GoingOn

LEMMA OtherLocksAreOthers ==
  ASSUME OwnersKept, NEW r \in Owners, NEW locks, locks \subseteq RowLocks(r, owner[r])
  PROVE  \A s \in Owners \ {r} : locks \intersect RowLocks(s, owner[s]) = {}
  BY DEF OwnersKept

LEMMA UnlockedByOthers ==
  ASSUME OwnersKept, NEW r \in Owners, NEW o \in Candidates, ~LockedByOther(o, r)
  PROVE  \A s \in Owners \ {r} : o \notin RowLocks(s, owner[s])
  BY LocksAreRowLocks DEF LockedByOther

\* A run that only changes its record, with locks no other run has.
LEMMA WorkerMovesOn ==
  ASSUME OwnersKept, NEW r \in Owners, AtWork(r), NEW m, owner' = [owner EXCEPT ![r] = m],
         UNCHANGED <<book, order_row, owner_lock>>, OwnerRunKept(r, m, book, order_row),
         m.elapsed = owner[r].elapsed, m.stalled = owner[r].stalled,
         \A s \in Owners \ {r} : RowLocks(r, m) \intersect RowLocks(s, owner[s]) = {}
  PROVE  OwnersKept'
<1>1. owner[r] \in OwnerRun /\ owner[r].phase = "work"
  BY CandidateIsAnOrder
<1>2. m.phase \in {"work", "saving"} /\ ~m.stalled =>
        owner[r].phase \in {"work", "saving"} /\ ~owner[r].stalled /\ m.elapsed = owner[r].elapsed
  BY <1>1
<1> QED BY <1>1, <1>2, RunMovesOn

LEMMA RefreshKeeps == ASSUME OwnersKept, NEW r \in Demos, Refresh(r) PROVE OwnersKept'
<1> DEFINE o == Candidate(r)
           m == [owner[r] EXCEPT !.at = o, !.seen = order_row[o], !.fresh = TRUE]
<1>1. r \in Owners /\ r # Task
  BY BatchIsOfOrders DEF Owners, OwnersKept
<1>2. /\ AtWork(r) /\ owner[r].at = Missing /\ UNCHANGED <<book, order_row, owner_lock>>
      /\ owner' = [owner EXCEPT ![r] = IF Terminal(o) THEN GoOn(owner[r]) ELSE m]
  BY DEF Refresh
<1>3. CASE Terminal(o)
  <2>1. owner' = [owner EXCEPT ![r] = GoOn(owner[r])]
    BY <1>2, <1>3
  <2>2. \A s \in Owners \ {r} : RowLocks(r, GoOn(owner[r])) \intersect RowLocks(s, owner[s]) = {}
    BY <1>1, <1>2, NextOne, OtherLocksAreOthers
  <2> QED BY <1>1, <1>2, <2>1, <2>2, NextOne, WorkerMovesOn
<1>4. CASE ~Terminal(o)
  <2>1. owner[r] \in OwnerRun /\ o \in Candidates /\ o = Batch[owner[r].next]
        /\ owner[r].phase = "work"
        /\ owner[r].next \in DOMAIN Batch /\ owner[r] # NoOwnerRun
    BY <1>1, <1>2, CandidateIsAnOrder
  <2>2. order_row[o] \in RowStates /\ book[o] \in BookEntry /\ order_row[o].filled <= book[o].filled
    BY <2>1 DEF OwnersKept, OwnersTyped
  <2>3. /\ m \in OwnerRun /\ m.at = o /\ m.seen = order_row[o] /\ m.fresh = TRUE
        /\ m.found = owner[r].found /\ m.changes = owner[r].changes /\ m.next = owner[r].next
        /\ m.phase = owner[r].phase /\ m.elapsed = owner[r].elapsed /\ m.stalled = owner[r].stalled
    BY <2>1, <2>2 DEF OwnerRun
  <2>4. m.found = Missing /\ DemoReading(owner[r], book, order_row)
    BY <1>1, <1>2, <2>1, <2>3 DEF OwnersKept, OwnerRunKept
  <2>5. DemoReading(m, book, order_row)
    <3> HIDE DEF o, m
    <3>1. ~Over(order_row[o])
      BY <1>4 DEF Terminal, Over
    <3> QED BY <2>2, <2>3, <2>4, <3>1 DEF DemoReading, ChangeKept, Behind
  <2>6. OwnerRunKept(r, m, book, order_row) /\ RowLocks(r, m) \subseteq RowLocks(r, owner[r])
    <3> HIDE DEF o, m
    <3> QED BY <1>1, <2>1, <2>3, <2>4, <2>5 DEF OwnerRunKept, RowLocks
  <2>7. \A s \in Owners \ {r} : RowLocks(r, m) \intersect RowLocks(s, owner[s]) = {}
    BY <1>1, <2>6, OtherLocksAreOthers
  <2>8. owner' = [owner EXCEPT ![r] = m]
    BY <1>2, <1>4
  <2> HIDE DEF m
  <2> QED BY <1>1, <1>2, <2>3, <2>6, <2>7, <2>8, WorkerMovesOn
<1> QED BY <1>3, <1>4

LEMMA ReadHistoryKeeps == ASSUME OwnersKept, NEW r \in Demos, ReadHistory(r) PROVE OwnersKept'
<1> DEFINE found == [owner[r] EXCEPT !.found = book[owner[r].at]]
           stopped == [GoOn(owner[r]) EXCEPT !.next = Len(Batch) + 1]
<1>1. r \in Owners /\ r # Task
  BY BatchIsOfOrders DEF Owners, OwnersKept
<1>2. /\ AtWork(r) /\ owner[r].at # Missing /\ UNCHANGED <<book, order_row, owner_lock>>
      /\ \E m \in {found, GoOn(owner[r]), stopped} : owner' = [owner EXCEPT ![r] = m]
  BY DEF ReadHistory
<1>3. owner[r] \in OwnerRun /\ owner[r] # NoOwnerRun /\ owner[r].phase = "work"
  BY <1>1, <1>2, CandidateIsAnOrder
<1>4. CASE owner' = [owner EXCEPT ![r] = found]
  <2>1. owner[r].at \in Candidates /\ DemoReading(owner[r], book, order_row)
        /\ OwnerRunKept(r, owner[r], book, order_row)
    BY <1>1, <1>2, <1>3 DEF OwnersKept, OwnerRunKept, OwnerRun
  <2>2. book[owner[r].at] \in BookEntry /\ WholeIfFilled(book[owner[r].at])
    BY <2>1 DEF OwnersKept, OwnersTyped
  <2>3. /\ found \in OwnerRun /\ found.found = book[owner[r].at] /\ found.at = owner[r].at
        /\ found.seen = owner[r].seen /\ found.fresh = owner[r].fresh /\ found.next = owner[r].next
        /\ found.changes = owner[r].changes /\ found.phase = owner[r].phase
        /\ found.elapsed = owner[r].elapsed /\ found.stalled = owner[r].stalled
    BY <1>3, <2>2 DEF OwnerRun
  <2>4. book[owner[r].at].filled <= book[owner[r].at].filled
    BY <2>2, BatchIsOfOrders DEF BookEntry, OwnersKept
  <2> HIDE DEF found
  <2>5. DemoReading(found, book, order_row)
    BY <1>2, <2>1, <2>3 DEF DemoReading, ChangeKept, Behind
  <2>6. OwnerRunKept(r, found, book, order_row)
        /\ RowLocks(r, found) \subseteq RowLocks(r, owner[r])
    BY <1>1, <1>2, <1>3, <2>1, <2>2, <2>3, <2>4, <2>5 DEF OwnerRunKept, RowLocks
  <2>7. \A s \in Owners \ {r} : RowLocks(r, found) \intersect RowLocks(s, owner[s]) = {}
    BY <1>1, <2>6, OtherLocksAreOthers
  <2> QED BY <1>1, <1>2, <1>4, <2>3, <2>6, <2>7, WorkerMovesOn
<1>5. CASE owner' = [owner EXCEPT ![r] = GoOn(owner[r])]
  <2>1. \A s \in Owners \ {r} : RowLocks(r, GoOn(owner[r])) \intersect RowLocks(s, owner[s]) = {}
    BY <1>1, <1>2, NextOne, OtherLocksAreOthers
  <2> QED BY <1>1, <1>2, <1>5, <2>1, NextOne, WorkerMovesOn
<1>6. CASE owner' = [owner EXCEPT ![r] = stopped]
  <2>1. /\ OwnerRunKept(r, stopped, book, order_row)
        /\ RowLocks(r, stopped) \subseteq RowLocks(r, owner[r])
        /\ stopped.elapsed = owner[r].elapsed /\ stopped.stalled = owner[r].stalled
    <3>1. /\ owner[r] \in OwnerRun /\ owner[r].phase = "work"
          /\ Len(Batch) + 1 \in 1 .. Len(Batch) + 1
          /\ owner[r].next <= Len(Batch) + 1
      BY <1>1, <1>2, CandidateIsAnOrder
    <3>2. stopped = [GoOn(owner[r]) EXCEPT !.next = Len(Batch) + 1]
      OBVIOUS
    <3> HIDE DEF stopped
    <3> QED BY <1>1, <3>1, <3>2, GoingOn
  <2>2. \A s \in Owners \ {r} : RowLocks(r, stopped) \intersect RowLocks(s, owner[s]) = {}
    BY <1>1, <2>1, OtherLocksAreOthers
  <2> HIDE DEF stopped
  <2> QED BY <1>1, <1>2, <1>6, <2>1, <2>2, WorkerMovesOn
<1> QED BY <1>2, <1>4, <1>5, <1>6

LEMMA ApplyKeeps == ASSUME OwnersKept, NEW r \in Demos, Apply(r) PROVE OwnersKept'
<1> DEFINE o == owner[r].at
           x == Merged(o, owner[r].seen, owner[r].found)
           m == [GoOn(owner[r]) EXCEPT !.changes = [@ EXCEPT ![o] = x]]
<1>1. r \in Owners /\ r # Task
  BY BatchIsOfOrders DEF Owners, OwnersKept
<1>2. /\ AtWork(r) /\ owner[r].found # Missing /\ ~LockedByOther(o, r)
      /\ UNCHANGED <<book, order_row, owner_lock>>
      /\ \/ owner' = [owner EXCEPT ![r] = Failed(owner[r])]
         \/ owner[r].fresh /\ owner' = [owner EXCEPT ![r] = m]
  BY DEF Apply, Unwritten
<1>3. owner[r] \in OwnerRun /\ owner[r] # NoOwnerRun /\ owner[r].phase = "work"
      /\ owner[r].next \in 1 .. Len(Batch)
  BY <1>1, <1>2, CandidateIsAnOrder
<1>4. CASE owner' = [owner EXCEPT ![r] = Failed(owner[r])]
  <2>1. OwnerRunKept(r, Failed(owner[r]), book, order_row) /\ RowLocks(r, Failed(owner[r])) = {}
        /\ Failed(owner[r]).phase = "failed"
    BY <1>1, <1>3, GivingUp
  <2> QED BY <1>1, <1>2, <1>3, <1>4, <2>1, RunMovesOn
<1>5. CASE owner[r].fresh /\ owner' = [owner EXCEPT ![r] = m]
  <2>1. o # Missing /\ WholeIfFilled(owner[r].found) /\ owner[r].found.filled <= book[o].filled
        /\ o = Batch[owner[r].next]
    BY <1>1, <1>2, <1>3 DEF OwnersKept, OwnerRunKept
  <2>2. o \in Candidates /\ owner[r].found \in BookEntry /\ order_row[o] \in RowStates
    BY <1>2, <1>3, <2>1 DEF OwnerRun, OwnersKept, OwnersTyped
  <2>3. DemoReading(owner[r], book, order_row)
    BY <1>1, <1>3 DEF OwnersKept, OwnerRunKept
  <2>4. order_row[o] = owner[r].seen /\ ~Over(order_row[o])
        /\ owner[r].seen.filled <= owner[r].found.filled
    BY <1>2, <1>5, <2>1, <2>3 DEF DemoReading
  <2>5. x = [status |-> MapStatus(owner[r].found.status), filled |-> owner[r].found.filled]
    <3>1. order_row[o].status = owner[r].seen.status /\ order_row[o].filled = owner[r].seen.filled
      BY <2>4
    <3> QED BY <3>1 DEF Merged
  <2>6. x \in RowStates /\ WholeIfFilled(x)
    BY <2>1, <2>2, <2>5, RowsAreTyped DEF OwnersKept, RowStates, WholeIfFilled
  <2>7. GoOn(owner[r]) \in OwnerRun /\ OwnerRunKept(r, GoOn(owner[r]), book, order_row)
        /\ GoOn(owner[r]).changes = owner[r].changes /\ GoOn(owner[r]).at = Missing
        /\ GoOn(owner[r]).phase = "work" /\ GoOn(owner[r]).found = Missing
        /\ GoOn(owner[r]).elapsed = owner[r].elapsed /\ GoOn(owner[r]).stalled = owner[r].stalled
        /\ GoOn(owner[r]).next = owner[r].next + 1
    BY <1>1, <1>2, NextOne
  <2>8. /\ m \in OwnerRun /\ m.at = Missing /\ m.found = Missing /\ m.phase = "work"
        /\ m.next = owner[r].next + 1 /\ m.changes = [owner[r].changes EXCEPT ![o] = x]
        /\ m.elapsed = owner[r].elapsed /\ m.stalled = owner[r].stalled
    <3> HIDE DEF x, o
    <3> QED BY <2>2, <2>6, <2>7 DEF OwnerRun
  <2>9. o \in Behind(m) /\ Behind(owner[r]) \subseteq Behind(m)
    <3>1. owner[r].next \in 1 .. (m.next - 1)
          /\ 1 .. (owner[r].next - 1) \subseteq 1 .. (m.next - 1)
      BY <1>3, <2>8, BatchIsOfOrders DEF OwnersKept
    <3> HIDE DEF m
    <3> QED BY <2>1, <3>1 DEF Behind
  <2>10. DemoReading(m, book, order_row)
    <3>1. ChangeKept(x, o, m, book, order_row)
      BY <2>1, <2>4, <2>5, <2>6, <2>9 DEF ChangeKept
    <3>2. \A p \in Candidates \ {o} : m.changes[p] = owner[r].changes[p]
      BY <1>3, <2>8 DEF OwnerRun
    <3>3. m.changes[o] = x
      BY <1>3, <2>2, <2>8 DEF OwnerRun
    <3>4. \A p \in Candidates \ {o} : m.changes[p] # Missing =>
                                        ChangeKept(m.changes[p], p, m, book, order_row)
      BY <2>3, <2>9, <3>2 DEF DemoReading, ChangeKept
    <3> HIDE DEF m, x, o
    <3> QED BY <2>8, <3>1, <3>3, <3>4 DEF DemoReading
  <2>11. OwnerRunKept(r, m, book, order_row)
    <3> HIDE DEF m
    <3> QED BY <1>1, <2>8, <2>10 DEF OwnerRunKept
  <2>12. RowLocks(r, m) \subseteq RowLocks(r, owner[r]) \cup {o}
    <3>1. \A p \in Candidates \ {o} : m.changes[p] = owner[r].changes[p]
      BY <1>3, <2>8 DEF OwnerRun
    <3> HIDE DEF m, o
    <3> QED BY <1>1, <1>3, <3>1 DEF RowLocks
  <2>13. \A s \in Owners \ {r} : RowLocks(r, m) \intersect RowLocks(s, owner[s]) = {}
    <3>1. \A s \in Owners \ {r} : o \notin RowLocks(s, owner[s])
      BY <1>1, <1>2, <2>2, UnlockedByOthers
    <3> HIDE DEF m, o
    <3> QED BY <1>1, <2>12, <3>1 DEF OwnersKept
  <2> HIDE DEF m
  <2> QED BY <1>1, <1>2, <1>5, <2>8, <2>11, <2>13, WorkerMovesOn
<1> QED BY <1>2, <1>4, <1>5

LEMMA FinishKeeps == ASSUME OwnersKept, NEW r \in Demos, Finish(r) PROVE OwnersKept'
<1> DEFINE m == [owner[r] EXCEPT !.phase = "saving"]
<1>1. r \in Owners /\ r # Task
  BY BatchIsOfOrders DEF Owners, OwnersKept
<1>2. /\ owner[r].phase = "work" /\ owner[r].next > Len(Batch)
      /\ UNCHANGED <<book, order_row, owner_lock>>
      /\ owner' = [owner EXCEPT ![r] = m]
  BY DEF Finish, LockBeforeSaving
<1>3. owner[r] \in OwnerRun /\ OwnerRunKept(r, owner[r], book, order_row) /\ owner[r] # NoOwnerRun
  BY <1>1, <1>2 DEF OwnersKept, OwnerRunKept, NoOwnerRun
<1>4. owner[r].at = Missing
  BY <1>2, <1>3, BatchIsOfOrders DEF OwnersKept, OwnerRunKept, OwnerRun
<1>5. /\ m \in OwnerRun /\ m.phase = "saving" /\ m.at = Missing /\ m.next = owner[r].next
      /\ m.found = owner[r].found /\ m.changes = owner[r].changes
      /\ m.elapsed = owner[r].elapsed /\ m.stalled = owner[r].stalled
  BY <1>3, <1>4 DEF OwnerRun
<1> HIDE DEF m
<1>6. DemoReading(m, book, order_row)
  BY <1>1, <1>3, <1>5 DEF OwnerRunKept, DemoReading, ChangeKept, Behind
<1>7. OwnerRunKept(r, m, book, order_row) /\ RowLocks(r, m) \subseteq RowLocks(r, owner[r])
  BY <1>1, <1>2, <1>3, <1>4, <1>5, <1>6 DEF OwnerRunKept, RowLocks
<1>8. \A s \in Owners \ {r} : RowLocks(r, m) \intersect RowLocks(s, owner[s]) = {}
  BY <1>1, <1>7, OtherLocksAreOthers
<1>9. m.phase \in {"work", "saving"} /\ ~m.stalled =>
        owner[r].phase \in {"work", "saving"} /\ ~owner[r].stalled /\ m.elapsed = owner[r].elapsed
  BY <1>2, <1>5
<1> QED BY <1>1, <1>2, <1>3, <1>7, <1>8, <1>9, RunMovesOn

\* Rows are written by the one who has them locked, or while nobody has.
LEMMA RowsAreWritten ==
  ASSUME OwnersKept, NEW runs, runs = [r \in Owners |-> runs[r]],
         NEW written \in SUBSET Candidates,
         \A r \in Owners : OwnerRunKept(r, runs[r], book, order_row)
                           /\ HasTheLease(r, runs[r], owner_lock)
                           /\ RowLocks(r, runs[r]) \subseteq RowLocks(r, owner[r])
                           /\ written \intersect RowLocks(r, runs[r]) = {},
         owner' = Outdate(runs, written), UNCHANGED <<book, owner_lock>>,
         order_row' \in [Candidates -> RowStates], \A o \in Candidates \ written : order_row'[o] = order_row[o],
         \A o \in written : WholeIfFilled(order_row'[o]) /\ order_row'[o].filled <= book[o].filled
  PROVE  OwnersKept'
<1> DEFINE Then(r) == IF runs[r].at \in written THEN [runs[r] EXCEPT !.fresh = FALSE] ELSE runs[r]
<1>1. ASSUME NEW r \in Owners
      PROVE  /\ OwnerRunKept(r, owner'[r], book, order_row')
             /\ HasTheLease(r, owner'[r], owner_lock)
             /\ RowLocks(r, owner'[r]) \subseteq RowLocks(r, owner[r])
  <2>1. owner'[r] = IF runs[r].phase # "idle" /\ runs[r].at \in written
                    THEN [runs[r] EXCEPT !.fresh = FALSE] ELSE runs[r]
    BY DEF Outdate
  <2>2. CASE runs[r] = NoOwnerRun
    <3>1. owner'[r] = NoOwnerRun /\ NoOwnerRun.phase = "idle"
      BY <2>1, <2>2 DEF NoOwnerRun
    <3> QED BY <3>1 DEF OwnerRunKept, HasTheLease, RowLocks
  <2>3. CASE runs[r] # NoOwnerRun
    <3>1. runs[r] \in OwnerRun /\ runs[r].phase # "idle"
      BY <2>3 DEF OwnerRunKept, OwnerRun
    <3>2. owner'[r] = Then(r)
      BY <2>1, <3>1
    <3>3. OwnerRunKept(r, Then(r), book, order_row')
      BY <2>3, OthersWrite
    <3>4. /\ owner'[r].phase = runs[r].phase /\ owner'[r].stalled = runs[r].stalled
          /\ owner'[r].elapsed = runs[r].elapsed /\ owner'[r].at = runs[r].at
          /\ owner'[r].changes = runs[r].changes
      BY <3>1, <3>2 DEF OwnerRun
    <3> HIDE DEF Then
    <3>5. RowLocks(r, owner'[r]) = RowLocks(r, runs[r])
      BY <3>4 DEF RowLocks
    <3>6. HasTheLease(r, owner'[r], owner_lock)
      BY <3>4 DEF HasTheLease
    <3> QED BY <3>2, <3>3, <3>5, <3>6
  <2> QED BY <2>2, <2>3
<1>2. \A r \in Owners : OwnerRunKept(r, owner[r], book, order_row)'
                        /\ HasTheLease(r, owner[r], owner_lock)'
  BY <1>1 DEF OwnerRunKept, HasTheLease, TaskReading, DemoReading, ChangeKept, Behind, Over
<1>3. \A r, s \in Owners : r # s => RowLocks(r, owner'[r]) \intersect RowLocks(s, owner'[s]) = {}
  BY <1>1 DEF OwnersKept
<1>4. \A r, s \in Owners : r # s => (RowLocks(r, owner[r]) \intersect RowLocks(s, owner[s]))' = {}
  BY <1>3 DEF RowLocks
<1>5. owner' = [r \in Owners |-> owner'[r]]
  BY DEF Outdate
<1>6. OwnersTyped'
  <2>1. \A o \in Candidates : WholeIfFilled(order_row'[o]) /\ order_row'[o].filled <= book[o].filled
    BY DEF OwnersKept, OwnersTyped
  <2> QED BY <2>1 DEF OwnersKept, OwnersTyped, WholeIfFilled
<1> QED BY <1>2, <1>4, <1>5, <1>6 DEF OwnersKept

\* What a demo run saves goes on from what is on record.
LEMMA SaveKeeps ==
  ASSUME OwnersKept, NEW r \in Demos, Save(r)
  PROVE  OwnersKept' /\ \A o \in Candidates : /\ order_row'[o].filled >= order_row[o].filled
                                              /\ Terminal(o) => order_row'[o] = order_row[o]
<1> DEFINE m == [owner[r] EXCEPT !.phase = "saved", !.changes = NoChange]
           runs == [owner EXCEPT ![r] = m]
           written == RowLocks(r, owner[r])
<1>1. r \in Owners /\ r # Task
  BY BatchIsOfOrders DEF Owners, OwnersKept
<1>2. /\ owner[r].phase = "saving" /\ UNCHANGED <<book, owner_lock>>
      /\ order_row' = [o \in Candidates |-> IF o \in written THEN owner[r].changes[o] ELSE order_row[o]]
      /\ owner' = Outdate(runs, written)
  BY <1>1, LocksAreRowLocks DEF Save
<1>3. owner[r] \in OwnerRun /\ OwnerRunKept(r, owner[r], book, order_row) /\ owner[r] # NoOwnerRun
  BY <1>1, <1>2 DEF OwnersKept, OwnerRunKept, NoOwnerRun
<1>4. owner[r].at = Missing /\ owner[r].found = Missing /\ DemoReading(owner[r], book, order_row)
  BY <1>1, <1>2, <1>3 DEF OwnerRunKept
<1>5. /\ m \in OwnerRun /\ m.phase = "saved" /\ m.at = Missing /\ m.found = Missing
      /\ m.changes = NoChange
  BY <1>3, <1>4 DEF OwnerRun, NoChange
<1>6. OwnerRunKept(r, m, book, order_row) /\ RowLocks(r, m) = {} /\ HasTheLease(r, m, owner_lock)
  <2>1. \A o \in Candidates : m.changes[o] = Missing
    BY <1>5 DEF NoChange
  <2> HIDE DEF m
  <2> QED BY <1>1, <1>5, <2>1 DEF OwnerRunKept, DemoReading, RowLocks, HasTheLease
<1>7. written \in SUBSET Candidates
      /\ \A o \in written : ChangeKept(owner[r].changes[o], o, owner[r], book, order_row)
  BY <1>1, <1>2, <1>4 DEF RowLocks, DemoReading
<1>8. runs = [s \in Owners |-> runs[s]] /\ runs[r] = m /\ \A s \in Owners \ {r} : runs[s] = owner[s]
  BY <1>1 DEF OwnersKept
<1>9. \A s \in Owners : /\ OwnerRunKept(s, runs[s], book, order_row)
                        /\ HasTheLease(s, runs[s], owner_lock)
                        /\ RowLocks(s, runs[s]) \subseteq RowLocks(s, owner[s])
                        /\ written \intersect RowLocks(s, runs[s]) = {}
  <2> HIDE DEF m, runs
  <2> QED BY <1>1, <1>6, <1>8 DEF OwnersKept
<1>10. \A o \in written : /\ order_row'[o] = owner[r].changes[o] /\ order_row'[o] \in RowStates
                          /\ WholeIfFilled(order_row'[o]) /\ order_row'[o].filled <= book[o].filled
                          /\ order_row[o].filled <= order_row'[o].filled /\ ~Over(order_row[o])
  BY <1>2, <1>7 DEF ChangeKept
<1>11. \A o \in Candidates \ written : order_row'[o] = order_row[o]
  BY <1>2
<1>12. order_row' \in [Candidates -> RowStates]
  BY <1>2, <1>10, <1>11 DEF OwnersKept, OwnersTyped
<1>13. \A o \in Candidates : order_row[o].filled \in 0 .. Qty
  BY DEF OwnersKept, OwnersTyped, RowStates
<1>14. \A o \in Candidates : order_row'[o].filled >= order_row[o].filled
                             /\ (Terminal(o) => order_row'[o] = order_row[o])
  <2>1. \A o \in Candidates : order_row'[o].filled \in 0 .. Qty
    BY <1>12 DEF RowStates
  <2>2. \A o \in Candidates : order_row[o].filled <= order_row'[o].filled
    <3>1. \A o \in Candidates : order_row[o].filled <= order_row[o].filled
      BY <1>13, BatchIsOfOrders DEF OwnersKept
    <3> HIDE DEF written
    <3> QED BY <1>10, <1>11, <3>1
  <2>3. \A o \in Candidates : order_row'[o].filled >= order_row[o].filled
    BY <1>13, <2>1, <2>2, BatchIsOfOrders DEF OwnersKept
  <2>4. \A o \in Candidates : Terminal(o) => order_row'[o] = order_row[o]
    BY <1>10, <1>11 DEF Terminal, Over
  <2> QED BY <2>3, <2>4
<1>15. OwnersKept'
  <2> HIDE DEF m, runs, written
  <2> QED BY <1>2, <1>7, <1>8, <1>9, <1>10, <1>11, <1>12, RowsAreWritten
<1> QED BY <1>14, <1>15

\* The task: it locks an order, reads it, settles it.
LEMMA TaskLocksKeeps == ASSUME OwnersKept, TaskLocks PROVE OwnersKept'
<1> DEFINE o == Candidate(Task)
           m == [owner[Task] EXCEPT !.at = o]
<1>1. Task \in Owners
  BY BatchIsOfOrders DEF OwnersKept
<1>2. /\ AtWork(Task) /\ owner[Task].at = Missing /\ UNCHANGED <<book, order_row, owner_lock>>
      /\ ~LockedByOther(o, Task)
      /\ owner' = [owner EXCEPT ![Task] = IF Terminal(o) THEN GoOn(owner[Task]) ELSE m]
  BY DEF TaskLocks
<1>3. CASE Terminal(o)
  <2>1. owner' = [owner EXCEPT ![Task] = GoOn(owner[Task])]
    BY <1>2, <1>3
  <2>2. \A s \in Owners \ {Task} : RowLocks(Task, GoOn(owner[Task])) \intersect RowLocks(s, owner[s]) = {}
    BY <1>1, <1>2, NextOne, OtherLocksAreOthers
  <2> QED BY <1>1, <1>2, <2>1, <2>2, NextOne, WorkerMovesOn
<1>4. CASE ~Terminal(o)
  <2>1. owner[Task] \in OwnerRun /\ o \in Candidates /\ o = Batch[owner[Task].next]
        /\ owner[Task].phase = "work"
        /\ owner[Task].next \in DOMAIN Batch /\ owner[Task] # NoOwnerRun
    BY <1>1, <1>2, CandidateIsAnOrder
  <2>2. /\ m \in OwnerRun /\ m.at = o /\ m.found = owner[Task].found
        /\ m.changes = owner[Task].changes
        /\ m.next = owner[Task].next /\ m.phase = owner[Task].phase
        /\ m.elapsed = owner[Task].elapsed /\ m.stalled = owner[Task].stalled
    BY <2>1 DEF OwnerRun
  <2>3. m.found = Missing /\ TaskReading(owner[Task], order_row)
    BY <1>1, <1>2, <2>1, <2>2 DEF OwnersKept, OwnerRunKept
  <2>4. ~Over(order_row[o])
    BY <1>4 DEF Terminal, Over
  <2> HIDE DEF m, o
  <2>5. TaskReading(m, order_row)
    BY <2>2, <2>3, <2>4 DEF TaskReading
  <2>6. OwnerRunKept(Task, m, book, order_row) /\ RowLocks(Task, m) \subseteq {o}
    BY <2>1, <2>2, <2>3, <2>5 DEF OwnerRunKept, RowLocks
  <2>7. \A s \in Owners \ {Task} : RowLocks(Task, m) \intersect RowLocks(s, owner[s]) = {}
    BY <1>1, <1>2, <2>1, <2>6, UnlockedByOthers
  <2>8. owner' = [owner EXCEPT ![Task] = m]
    BY <1>2, <1>4
  <2> QED BY <1>1, <1>2, <2>2, <2>6, <2>7, <2>8, WorkerMovesOn
<1> QED BY <1>3, <1>4

LEMMA TaskReadsKeeps == ASSUME OwnersKept, TaskReads PROVE OwnersKept'
<1> DEFINE m == [owner[Task] EXCEPT !.found = book[owner[Task].at]]
<1>1. Task \in Owners
  BY BatchIsOfOrders DEF OwnersKept
<1>2. /\ AtWork(Task) /\ owner[Task].at # Missing /\ UNCHANGED <<book, order_row, owner_lock>>
      /\ owner' = [owner EXCEPT ![Task] = m]
  BY DEF TaskReads, OwnersKept
<1>3. owner[Task] \in OwnerRun /\ owner[Task] # NoOwnerRun /\ owner[Task].phase = "work"
  BY <1>1, <1>2, CandidateIsAnOrder
<1>4. owner[Task].at \in Candidates /\ OwnerRunKept(Task, owner[Task], book, order_row)
      /\ TaskReading(owner[Task], order_row)
  BY <1>1, <1>2, <1>3 DEF OwnersKept, OwnerRunKept, OwnerRun
<1>5. /\ book[owner[Task].at] \in BookEntry /\ WholeIfFilled(book[owner[Task].at])
      /\ order_row[owner[Task].at].filled <= book[owner[Task].at].filled
  BY <1>4 DEF OwnersKept, OwnersTyped
<1>6. /\ m \in OwnerRun /\ m.found = book[owner[Task].at] /\ m.at = owner[Task].at
      /\ m.next = owner[Task].next /\ m.changes = owner[Task].changes /\ m.phase = owner[Task].phase
      /\ m.elapsed = owner[Task].elapsed /\ m.stalled = owner[Task].stalled
  BY <1>3, <1>5 DEF OwnerRun
<1>7. book[owner[Task].at].filled <= book[owner[Task].at].filled
  BY <1>5, BatchIsOfOrders DEF BookEntry, OwnersKept
<1> HIDE DEF m
<1>8. TaskReading(m, order_row)
  BY <1>4, <1>5, <1>6 DEF TaskReading
<1>9. OwnerRunKept(Task, m, book, order_row)
      /\ RowLocks(Task, m) \subseteq RowLocks(Task, owner[Task])
  BY <1>2, <1>3, <1>4, <1>5, <1>6, <1>7, <1>8 DEF OwnerRunKept, RowLocks
<1>10. \A s \in Owners \ {Task} : RowLocks(Task, m) \intersect RowLocks(s, owner[s]) = {}
  BY <1>1, <1>9, OtherLocksAreOthers
<1> QED BY <1>1, <1>2, <1>6, <1>9, <1>10, WorkerMovesOn

LEMMA TaskSettlesKeeps ==
  ASSUME OwnersKept, TaskSettles
  PROVE  OwnersKept' /\ \A o \in Candidates : /\ order_row'[o].filled >= order_row[o].filled
                                              /\ Terminal(o) => order_row'[o] = order_row[o]
<1> DEFINE o == owner[Task].at
           found == owner[Task].found
           x == [status |-> StatusOf(found), filled |-> found.filled]
           m == GoOn(owner[Task])
           runs == [owner EXCEPT ![Task] = m]
<1>1. Task \in Owners
  BY BatchIsOfOrders DEF OwnersKept
<1>2. /\ AtWork(Task) /\ found # Missing /\ UNCHANGED <<book, owner_lock>>
      /\ order_row' = [order_row EXCEPT ![o] = x] /\ owner' = Outdate(runs, {o})
  BY DEF TaskSettles
<1>3. owner[Task] \in OwnerRun /\ owner[Task] # NoOwnerRun /\ owner[Task].phase = "work"
  BY <1>1, <1>2, CandidateIsAnOrder
<1>4. /\ o # Missing /\ WholeIfFilled(found) /\ found.filled <= book[o].filled
      /\ ~Over(order_row[o]) /\ order_row[o].filled <= found.filled
  BY <1>1, <1>2, <1>3 DEF OwnersKept, OwnerRunKept, TaskReading
<1>5. o \in Candidates /\ found \in BookEntry
  BY <1>2, <1>3, <1>4 DEF OwnerRun
<1>6. x \in RowStates /\ WholeIfFilled(x) /\ x.filled = found.filled
  BY <1>4, <1>5, RowsAreTyped DEF OwnersKept, RowStates, WholeIfFilled
<1>7. /\ order_row'[o] = x /\ order_row' \in [Candidates -> RowStates]
      /\ \A p \in Candidates \ {o} : order_row'[p] = order_row[p]
  BY <1>2, <1>5, <1>6 DEF OwnersKept, OwnersTyped
<1>8. /\ OwnerRunKept(Task, m, book, order_row) /\ RowLocks(Task, m) = {}
      /\ HasTheLease(Task, m, owner_lock)
  <2>1. HasTheLease(Task, owner[Task], owner_lock)
    BY <1>1 DEF OwnersKept
  <2> QED BY <1>1, <1>2, <1>3, <2>1, NextOne DEF HasTheLease, RowLocks
<1>9. runs = [s \in Owners |-> runs[s]] /\ runs[Task] = m
      /\ \A s \in Owners \ {Task} : runs[s] = owner[s]
  BY <1>1 DEF OwnersKept
<1>10. o \in RowLocks(Task, owner[Task])
  BY <1>3, <1>4 DEF RowLocks
<1>11. \A s \in Owners : /\ OwnerRunKept(s, runs[s], book, order_row)
                         /\ HasTheLease(s, runs[s], owner_lock)
                         /\ RowLocks(s, runs[s]) \subseteq RowLocks(s, owner[s])
                         /\ {o} \intersect RowLocks(s, runs[s]) = {}
  <2> HIDE DEF m, runs, o
  <2> QED BY <1>1, <1>8, <1>9, <1>10 DEF OwnersKept
<1>12. \A p \in Candidates : order_row[p].filled \in 0 .. Qty /\ order_row'[p].filled \in 0 .. Qty
  BY <1>7 DEF OwnersKept, OwnersTyped, RowStates
<1>13. \A p \in Candidates : order_row'[p].filled >= order_row[p].filled
                             /\ (Terminal(p) => order_row'[p] = order_row[p])
  <2>1. order_row'[o].filled >= order_row[o].filled /\ ~Terminal(o)
    BY <1>4, <1>5, <1>6, <1>7, <1>12, BatchIsOfOrders DEF Terminal, Over, OwnersKept
  <2>2. \A p \in Candidates \ {o} : order_row'[p].filled >= order_row[p].filled
    BY <1>7, <1>12, BatchIsOfOrders DEF OwnersKept
  <2> HIDE DEF o
  <2> QED BY <1>7, <2>1, <2>2
<1>14. OwnersKept'
  <2>1. {o} \in SUBSET Candidates /\ \A p \in {o} : WholeIfFilled(order_row'[p])
        /\ order_row'[p].filled <= book[p].filled
    BY <1>4, <1>5, <1>6, <1>7
  <2> HIDE DEF m, runs, o, x, found
  <2> QED BY <1>2, <1>7, <1>9, <1>11, <2>1, RowsAreWritten
<1> QED BY <1>13, <1>14

LEMMA TaskEndsKeeps == ASSUME OwnersKept, TaskEnds PROVE OwnersKept'
<1> DEFINE m == [owner[Task] EXCEPT !.phase = "saved"]
<1>1. Task \in Owners
  BY BatchIsOfOrders DEF OwnersKept
<1>2. /\ owner[Task].phase = "work" /\ owner[Task].next > Len(Batch)
      /\ UNCHANGED <<book, order_row, owner_lock>>
      /\ owner' = [owner EXCEPT ![Task] = m]
  BY DEF TaskEnds
<1>3. owner[Task] \in OwnerRun /\ OwnerRunKept(Task, owner[Task], book, order_row)
      /\ owner[Task] # NoOwnerRun
  BY <1>1, <1>2 DEF OwnersKept, OwnerRunKept, NoOwnerRun
<1>4. owner[Task].at = Missing /\ owner[Task].found = Missing
  BY <1>2, <1>3, BatchIsOfOrders DEF OwnersKept, OwnerRunKept, OwnerRun
<1>5. /\ m \in OwnerRun /\ m.phase = "saved" /\ m.at = Missing /\ m.found = Missing
      /\ m.changes = owner[Task].changes
  BY <1>3, <1>4 DEF OwnerRun
<1> HIDE DEF m
<1>6. OwnerRunKept(Task, m, book, order_row) /\ RowLocks(Task, m) = {}
  BY <1>3, <1>5 DEF OwnerRunKept, TaskReading, RowLocks
<1> QED BY <1>1, <1>2, <1>3, <1>5, <1>6, RunMovesOn

-----------------------------------------------------------------------------
\* The broker goes on.
LEMMA BookMoves ==
  ASSUME OwnersKept, NEW o \in Candidates, NEW x \in BookEntry, book' = [book EXCEPT ![o] = x],
         UNCHANGED <<order_row, owner_lock, owner>>, book[o].filled <= x.filled, WholeIfFilled(x),
         x.status = "working" => x.filled < Qty
  PROVE  OwnersKept'
<1>1. book' \in [Candidates -> BookEntry] /\ book'[o] = x
      /\ \A p \in Candidates \ {o} : book'[p] = book[p]
  BY DEF OwnersKept, OwnersTyped
<1>2. order_row[o].filled <= x.filled
  <2>1. order_row[o].filled <= book[o].filled /\ order_row[o].filled \in 0 .. Qty
        /\ book[o].filled \in 0 .. Qty /\ x.filled \in 0 .. Qty
    BY DEF OwnersKept, OwnersTyped, RowStates, BookEntry
  <2> QED BY <2>1, BatchIsOfOrders DEF OwnersKept
<1>3. OwnersTyped'
  <2>1. \A p \in Candidates :
          /\ WholeIfFilled(book'[p]) /\ (book'[p].status = "working" => book'[p].filled < Qty)
          /\ WholeIfFilled(order_row[p]) /\ order_row[p].filled <= book'[p].filled
    BY <1>1, <1>2 DEF OwnersKept, OwnersTyped
  <2> QED BY <1>1, <2>1 DEF OwnersKept, OwnersTyped, WholeIfFilled
<1>4. \A r \in Owners : OwnerRunKept(r, owner[r], book', order_row)
  BY BrokerGoesOn DEF OwnersKept
<1>5. \A r \in Owners : OwnerRunKept(r, owner[r], book, order_row)'
                        /\ HasTheLease(r, owner[r], owner_lock)'
  BY <1>4
     DEF OwnersKept, OwnerRunKept, HasTheLease, TaskReading, DemoReading, ChangeKept, Behind, Over
<1>6. \A r, s \in Owners : r # s => (RowLocks(r, owner[r]) \intersect RowLocks(s, owner[s]))' = {}
  BY DEF OwnersKept, RowLocks
<1> QED BY <1>3, <1>5, <1>6 DEF OwnersKept

LEMMA BrokerFillsKeeps == ASSUME OwnersKept, NEW o \in Candidates, BrokerFills(o) PROVE OwnersKept'
<1> DEFINE x == [status |-> IF book[o].filled + 1 = Qty THEN "filled" ELSE "working",
                 filled |-> book[o].filled + 1]
<1>1. /\ book[o].status = "working" /\ book' = [book EXCEPT ![o] = x]
      /\ UNCHANGED <<order_row, owner_lock, owner>>
  BY DEF BrokerFills
<1>2. book[o].filled \in 0 .. Qty /\ book[o].filled < Qty /\ Qty \in Nat
  BY <1>1, BatchIsOfOrders DEF OwnersKept, OwnersTyped, BookEntry
<1>3. x \in BookEntry /\ book[o].filled <= x.filled /\ WholeIfFilled(x)
      /\ (x.status = "working" => x.filled < Qty)
  BY <1>2 DEF BookEntry, WholeIfFilled
<1> HIDE DEF x
<1> QED BY <1>1, <1>3, BookMoves

LEMMA BrokerCancelsKeeps == ASSUME OwnersKept, NEW o \in Candidates, BrokerCancels(o)
  PROVE OwnersKept'
<1> DEFINE x == [book[o] EXCEPT !.status = "cancelled"]
<1>1. /\ book' = [book EXCEPT ![o] = x] /\ UNCHANGED <<order_row, owner_lock, owner>>
  BY DEF BrokerCancels
<1>2. book[o] \in BookEntry /\ Qty \in Nat
  BY BatchIsOfOrders DEF OwnersKept, OwnersTyped
<1>3. x \in BookEntry /\ x.filled = book[o].filled /\ x.status = "cancelled" /\ x.filled <= x.filled
  BY <1>2 DEF BookEntry
<1>4. WholeIfFilled(x) /\ x.status # "working"
  BY <1>3 DEF WholeIfFilled
<1> HIDE DEF x
<1> QED BY <1>1, <1>3, <1>4, BookMoves

LEMMA SettleElsewhereKeeps ==
  ASSUME OwnersKept, NEW o \in Candidates, SettleElsewhere(o)
  PROVE  OwnersKept' /\ \A p \in Candidates : /\ order_row'[p].filled >= order_row[p].filled
                                              /\ Terminal(p) => order_row'[p] = order_row[p]
<1>1. /\ ~Terminal(o) /\ order_row' = [order_row EXCEPT ![o] = book[o]]
      /\ owner' = Outdate(owner, {o})
      /\ UNCHANGED <<book, owner_lock>> /\ \A r \in Owners : o \notin RowLocks(r, owner[r])
  BY LocksAreRowLocks DEF SettleElsewhere
<1>2. book[o] \in BookEntry /\ WholeIfFilled(book[o]) /\ order_row[o].filled <= book[o].filled
      /\ book[o].status # "working"
  BY DEF SettleElsewhere, OwnersKept, OwnersTyped
<1>3. book[o] \in RowStates /\ book[o].filled \in 0 .. Qty
  BY <1>2 DEF BookEntry, RowStates, KNOWN_ORDER_STATUSES, TERMINAL_ORDER_STATUSES
<1>4. order_row' \in [Candidates -> RowStates] /\ order_row'[o] = book[o]
      /\ \A p \in Candidates \ {o} : order_row'[p] = order_row[p]
  BY <1>1, <1>3 DEF OwnersKept, OwnersTyped
<1>5. \A p \in Candidates : order_row[p].filled \in 0 .. Qty
  BY DEF OwnersKept, OwnersTyped, RowStates
<1>6. \A p \in Candidates : order_row'[p].filled >= order_row[p].filled
                            /\ (Terminal(p) => order_row'[p] = order_row[p])
  <2>1. order_row'[o].filled >= order_row[o].filled
    BY <1>2, <1>3, <1>4, <1>5, BatchIsOfOrders DEF OwnersKept
  <2>2. \A p \in Candidates \ {o} : order_row'[p].filled >= order_row[p].filled
    BY <1>4, <1>5, BatchIsOfOrders DEF OwnersKept
  <2> QED BY <1>1, <1>4, <2>1, <2>2
<1>7. OwnersKept'
  <2>1. /\ owner = [r \in Owners |-> owner[r]]
        /\ \A r \in Owners : /\ OwnerRunKept(r, owner[r], book, order_row)
                             /\ HasTheLease(r, owner[r], owner_lock)
                             /\ RowLocks(r, owner[r]) \subseteq RowLocks(r, owner[r])
                             /\ {o} \intersect RowLocks(r, owner[r]) = {}
    BY <1>1 DEF OwnersKept
  <2>2. \A p \in {o} : WholeIfFilled(order_row'[p]) /\ order_row'[p].filled <= book[p].filled
    <3>1. book[o].filled <= book[o].filled
      BY <1>3, BatchIsOfOrders DEF OwnersKept
    <3> QED BY <1>2, <1>4, <3>1
  <2> QED BY <1>1, <1>4, <2>1, <2>2, RowsAreWritten
<1> QED BY <1>6, <1>7

-----------------------------------------------------------------------------
\* From the start on, and on every step; what is on record is not taken back.
LEMMA OwnersBegin == ASSUME OwnerInit PROVE OwnersKept
<1>1. /\ book = [o \in Candidates |-> [status |-> "working", filled |-> 0]]
      /\ order_row = [o \in Candidates |-> [status |-> "accepted", filled |-> 0]]
      /\ owner_lock = Unowned /\ owner = [r \in Owners |-> NoOwnerRun]
  BY DEF OwnerInit
<1>2. OwnersTyped
  <2>1. owner_lock \in [holder : Owners \union {Missing}, lease : 0 .. OwnerLease]
    BY <1>1, BatchIsOfOrders DEF Unowned
  <2>2. book \in [Candidates -> BookEntry] /\ order_row \in [Candidates -> RowStates]
    BY <1>1, BatchIsOfOrders
       DEF BookEntry, RowStates, KNOWN_ORDER_STATUSES, ACTIVE_ORDER_STATUSES, TERMINAL_ORDER_STATUSES
  <2> QED BY <1>1, <2>1, <2>2, BatchIsOfOrders DEF OwnersTyped, WholeIfFilled
<1>3. \A r \in Owners : owner[r] = NoOwnerRun /\ RowLocks(r, owner[r]) = {}
                        /\ HasTheLease(r, owner[r], owner_lock)
  BY <1>1 DEF RowLocks, HasTheLease, NoOwnerRun
<1> QED BY <1>1, <1>2, <1>3 DEF OwnersKept, OwnerRunKept

LEMMA OwnersStay == ASSUME OwnersKept, UNCHANGED owner_vars PROVE OwnersKept'
<1>1. /\ book' = book /\ order_row' = order_row /\ owner_lock' = owner_lock /\ owner' = owner
  BY DEF owner_vars
<1>2. OwnersTyped'
  BY <1>1 DEF OwnersKept, OwnersTyped, WholeIfFilled
<1>3. \A r \in Owners : OwnerRunKept(r, owner[r], book, order_row)'
                        /\ HasTheLease(r, owner[r], owner_lock)'
  BY <1>1
     DEF OwnersKept, OwnerRunKept, HasTheLease, TaskReading, DemoReading, ChangeKept, Behind, Over
<1>4. \A r, s \in Owners : r # s => (RowLocks(r, owner[r]) \intersect RowLocks(s, owner[s]))' = {}
  BY <1>1 DEF OwnersKept, RowLocks
<1> QED BY <1>1, <1>2, <1>3, <1>4 DEF OwnersKept

LEMMA UnwrittenIsNotTakenBack ==
  ASSUME OwnersKept, UNCHANGED order_row
  PROVE  \A o \in Candidates : order_row'[o].filled >= order_row[o].filled
                               /\ (Terminal(o) => order_row'[o] = order_row[o])
<1>1. \A o \in Candidates : order_row[o].filled \in 0 .. Qty
  BY DEF OwnersKept, OwnersTyped, RowStates
<1> QED BY <1>1, BatchIsOfOrders DEF OwnersKept

LEMMA OwnersGoOn ==
  ASSUME OwnersKept, OwnerNext
  PROVE  OwnersKept' /\ \A o \in Candidates : /\ order_row'[o].filled >= order_row[o].filled
                                              /\ Terminal(o) => order_row'[o] = order_row[o]
<1>1. ASSUME NEW r \in Owners, Start(r) \/ Release(r) \/ Fail(r) \/ Die(r) \/ Stall(r)
      PROVE  OwnersKept' /\ UNCHANGED order_row
  <2>1. UNCHANGED order_row
    BY <1>1 DEF Start, Release, Fail, Die, Stall
  <2> QED BY <1>1, <2>1, StartKeeps, ReleaseKeeps, FailKeeps, DieKeeps, StallKeeps
<1>2. ASSUME NEW r \in Demos, Refresh(r) \/ ReadHistory(r) \/ Apply(r) \/ Finish(r)
      PROVE  OwnersKept' /\ UNCHANGED order_row
  <2>1. UNCHANGED order_row
    BY <1>2 DEF Refresh, ReadHistory, Apply, Finish
  <2> QED BY <1>2, <2>1, RefreshKeeps, ReadHistoryKeeps, ApplyKeeps, FinishKeeps
<1>3. ASSUME TaskLocks \/ TaskReads \/ TaskEnds \/ TimePasses
      PROVE  OwnersKept' /\ UNCHANGED order_row
  <2>1. UNCHANGED order_row
    BY <1>3 DEF TaskLocks, TaskReads, TaskEnds, TimePasses
  <2> QED BY <1>3, <2>1, TaskLocksKeeps, TaskReadsKeeps, TaskEndsKeeps, TimePassesKeeps
<1>4. ASSUME NEW o \in Candidates, BrokerFills(o) \/ BrokerCancels(o)
      PROVE  OwnersKept' /\ UNCHANGED order_row
  <2>1. UNCHANGED order_row
    BY <1>4 DEF BrokerFills, BrokerCancels
  <2> QED BY <1>4, <2>1, BrokerFillsKeeps, BrokerCancelsKeeps
<1>5. CASE \E r \in Demos : Save(r)
  BY <1>5, SaveKeeps
<1>6. CASE TaskSettles
  BY <1>6, TaskSettlesKeeps
<1>7. CASE \E o \in Candidates : SettleElsewhere(o)
  BY <1>7, SettleElsewhereKeeps
<1>8. CASE OwnersKept' /\ UNCHANGED order_row
  BY <1>8, UnwrittenIsNotTakenBack
<1> QED BY <1>1, <1>2, <1>3, <1>4, <1>5, <1>6, <1>7, <1>8 DEF OwnerNext

\* Whom a run waits for is further down the batch.
LEMMA WaitsForOneAhead ==
  ASSUME OwnersKept, NEW r \in Owners, NEW s \in Owners, WaitsFor(r, s), AtWork(s),
         s = Task => owner[s].at = Missing
  PROVE  owner[r].next \in Nat /\ owner[s].next \in Nat /\ owner[r].next < owner[s].next
<1>1. /\ AtWork(r) /\ DOMAIN Batch = 1 .. Len(Batch) /\ Len(Batch) \in Nat
      /\ \A j, k \in DOMAIN Batch : Batch[j] = Batch[k] => j = k
  BY BatchIsOfOrders, LeaseOutlivesRun DEF WaitsFor, OwnersKept
<1>2. /\ owner[r] \in OwnerRun /\ owner[r] # NoOwnerRun /\ owner[r].next \in DOMAIN Batch
      /\ owner[s] \in OwnerRun /\ owner[s] # NoOwnerRun /\ owner[s].phase = "work"
  BY <1>1, CandidateIsAnOrder DEF AtWork
<1>3. owner[r].next \in 1 .. Len(Batch) /\ owner[s].next \in 1 .. Len(Batch) + 1
  BY <1>1, <1>2 DEF OwnerRun
<1>4. PICK o \in RowLocks(s, owner[s]) :
        IF r = Task THEN o = Candidate(r) ELSE owner[r].found # Missing /\ o = owner[r].at
  BY LocksAreRowLocks DEF WaitsFor
<1>5. o = Batch[owner[r].next]
  <2>1. owner[r].found # Missing => owner[r].at = Batch[owner[r].next]
    BY <1>2 DEF OwnersKept, OwnerRunKept
  <2> QED BY <1>4, <2>1 DEF Candidate
<1>6. s # Task /\ o \in Candidates /\ owner[s].changes[o] # Missing
  BY <1>2, <1>4 DEF RowLocks
<1>7. o \in Behind(owner[s])
  BY <1>2, <1>6 DEF OwnersKept, OwnerRunKept, DemoReading, ChangeKept
<1>8. PICK k \in 1 .. (owner[s].next - 1) : o = Batch[k]
  BY <1>7 DEF Behind
<1>9. k \in DOMAIN Batch /\ k < owner[s].next
  BY <1>1, <1>3, <1>8
<1>10. k = owner[r].next
  BY <1>1, <1>2, <1>5, <1>8, <1>9
<1> QED BY <1>1, <1>3, <1>9, <1>10

LEMMA OwnersWorkAloneIsKept == ASSUME OwnersKept PROVE OwnersWorkAlone
<1>1. OwnerTypeOK
  <2>1. \A r \in Owners : owner[r] = NoOwnerRun \/ owner[r] \in OwnerRun
    BY DEF OwnersKept, OwnerRunKept
  <2>2. /\ book \in [Candidates -> BookEntry] /\ order_row \in [Candidates -> RowStates]
        /\ \A o \in Candidates : order_row[o].status = "filled" => order_row[o].filled = Qty
        /\ owner_lock \in [holder : Owners \union {Missing}, lease : 0 .. OwnerLease]
    BY DEF OwnersKept, OwnersTyped, WholeIfFilled
  <2> QED BY <2>1, <2>2 DEF OwnerTypeOK, OwnerRun, BookEntry
<1>2. WorksAsOwner
  BY DEF WorksAsOwner, OwnersKept, HasTheLease
<1>3. NoRowCycle
  <2> SUFFICES ASSUME NEW r \in Owners, NEW s \in Owners, WaitsFor(r, s), WaitsFor(s, r) PROVE FALSE
    BY DEF NoRowCycle
  <2>1. AtWork(r) /\ AtWork(s) /\ (r = Task => owner[r].at = Missing)
        /\ (s = Task => owner[s].at = Missing)
    BY DEF WaitsFor
  <2>2. owner[r].next \in Nat /\ owner[s].next \in Nat /\ owner[r].next < owner[s].next
    BY <2>1, WaitsForOneAhead
  <2>3. owner[s].next < owner[r].next
    BY <2>1, WaitsForOneAhead
  <2> QED BY <2>2, <2>3
<1> QED BY <1>1, <1>2, <1>3 DEF OwnersWorkAlone

\* What an owner has read, locked and is about to save goes on from the rows and the
\* book as they are, and an owner that was not suspended has its lease (the worker's
\* run and the scheduled task's, under exclusive_task_lock).
THEOREM OwnersAreKept == OwnerSpec => []OwnersKept
<1>1. OwnerInit => OwnersKept
  BY OwnersBegin
<1>2. OwnersKept /\ [OwnerNext]_owner_vars => OwnersKept'
  BY OwnersGoOn, OwnersStay
<1> QED BY <1>1, <1>2, PTL DEF OwnerSpec

\* Two runs that were not suspended never work at the same time, whoever starts, fails,
\* dies or is slow, and runs never wait for each other's rows in a circle
\* (exclusive_task_lock, select_reconciliation_candidates).
THEOREM OwnersAlwaysWorkAlone == OwnerSpec => []OwnersWorkAlone
<1>1. OwnersKept => OwnersWorkAlone
  BY OwnersWorkAloneIsKept
<1> QED BY <1>1, OwnersAreKept, PTL

\* No commit replaces what is on record of an order by an older reading, and none
\* changes an order that has ended (_apply_match under the row's version,
\* reconcile_order under its lock).
THEOREM RecordsAreNeverTakenBack == OwnerSpec => KnownIsNotTakenBack
<1>1. OwnersKept /\ OwnerNext => RowsGoOn
  BY OwnersGoOn DEF RowsGoOn
<1>2. OwnersKept /\ [OwnerNext]_owner_vars => [RowsGoOn]_owner_vars
  BY <1>1
<1> QED BY <1>2, OwnersAreKept, PTL DEF OwnerSpec, KnownIsNotTakenBack

(***************************************************************************)
(* The runner and the monitor of a stock.                                  *)
(***************************************************************************)
\* What an order of the stock, the runner and the monitor may be.
StockOrder ==
  [of : Decisions, side : {"buy", "sell"}, quantity : Nat \ {0},
   row : ActiveRows \union {"ended"}, at : {"none", "sent", "open", "gone"}]

SeenPosition == [held : Nat, max_sell : Nat]

RunnerTask ==
  {NoTask} \union [phase : {"read"}, seen : SeenPosition]
    \union [phase : {"refused"}, bar : Bars, status : {"rejected", "error"}]
    \union [phase : {"sent", "answered"}, of : Decisions]

MonitorTask ==
  {NoTask} \union [phase : {"read"}, seen : SeenPosition]
    \union [phase : {"sent", "answered"}, of : Decisions, type : ExitTypes]

TradingTyped ==
  /\ controls \in [kill : BOOLEAN, auto : BOOLEAN]
  /\ bar \in Bars
  /\ signals \in [entries : [Bars -> {"none", "pending", "rejected", "error", "executed"}],
                  exits : SUBSET Decisions, partial : BOOLEAN]
  /\ stock_orders \in Seq(StockOrder)
  /\ runner \in RunnerTask
  /\ monitor \in MonitorTask
  /\ held \in Nat

\* The row of an order is what is known of it, and is no intent once it was sent.
RowIsTrue(x) ==
  /\ x.row = "pending_intent" => x.at = "none"
  /\ x.row = "ended" => x.at \in {"none", "gone"}

\* A decision of the runner is on record before its order.
OnRecord(d, made) ==
  /\ d.by = "monitor" => d.type = "exit"
  /\ d.by = "runner" /\ d.type = "entry" => made.entries[d.bar] # "none"
  /\ d.by = "runner" /\ d.type # "entry" => d \in made.exits

StockOrdersKept ==
  /\ \A i \in Ids : RowIsTrue(stock_orders[i]) /\ OnRecord(stock_orders[i].of, signals)
  /\ OneOrderPerDecision

\* A run that waits for an answer has its order; an entry that is refused was never sent.
TasksKept ==
  /\ runner.phase = "sent" => \E i \in Ids : stock_orders[i].of = runner.of
  /\ monitor.phase = "sent" => \E i \in Ids : stock_orders[i].of = monitor.of
  /\ runner.phase = "refused" =>
       /\ signals.entries[runner.bar] # "executed"
       /\ \A i \in Ids : stock_orders[i].of = Decision("runner", "entry", runner.bar) =>
                           stock_orders[i].at = "none"

\* The inductive invariant.
TradingKept ==
  /\ TradingTyped
  /\ Claimed <= held
  /\ StockOrdersKept
  /\ TasksKept
  /\ SentEntriesAreWatched

-----------------------------------------------------------------------------
\* What open sells claim of some orders.
SellsIn(os) == {i \in 1 .. Len(os) : os[i].at = "open" /\ os[i].side = "sell"}
ClaimedIn(os) == Cardinality(UNION {{i} \X (1 .. os[i].quantity) : i \in SellsIn(os)})

LEMMA ClaimedNowAndThen ==
  /\ Claimed = ClaimedIn(stock_orders) /\ OpenSells = SellsIn(stock_orders)
  /\ Claimed' = ClaimedIn(stock_orders') /\ OpenSells' = SellsIn(stock_orders')
  BY DEF Claimed, ClaimedIn, OpenSells, SellsIn, Ids

LEMMA ClaimedIsASum ==
  ASSUME NEW os \in Seq(StockOrder), NEW f, f = [i \in SellsIn(os) |-> os[i].quantity]
  PROVE  /\ IsFiniteSet(SellsIn(os))
         /\ f \in [SellsIn(os) -> Nat] /\ \A i \in SellsIn(os) : f[i] = os[i].quantity
         /\ ClaimedIn(os) = Sum(f) /\ ClaimedIn(os) \in Nat
<1>1. IsFiniteSet(1 .. Len(os))
  BY FS_Interval
<1>2. IsFiniteSet(SellsIn(os))
  BY <1>1, FS_Subset DEF SellsIn
<1>3. \A i \in SellsIn(os) : os[i].quantity \in Nat
  <2>1. \A i \in SellsIn(os) : os[i] \in StockOrder
    BY DEF SellsIn
  <2> QED BY <2>1 DEF StockOrder
<1>4. f \in [SellsIn(os) -> Nat] /\ \A i \in SellsIn(os) : f[i] = os[i].quantity
  BY <1>3
<1>5. UNION {{i} \X (1 .. f[i]) : i \in DOMAIN f}
        = UNION {{i} \X (1 .. os[i].quantity) : i \in SellsIn(os)}
  BY <1>4
<1>6. ClaimedIn(os) = Sum(f)
  BY <1>5 DEF ClaimedIn, Sum
<1> QED BY <1>2, <1>4, <1>6, SumIsNatural

LEMMA ClaimedChanges ==
  ASSUME NEW os \in Seq(StockOrder), NEW after \in Seq(StockOrder), NEW i,
         SellsIn(os) \ {i} = SellsIn(after) \ {i},
         \A j \in SellsIn(os) \ {i} : after[j].quantity = os[j].quantity
  PROVE  /\ ClaimedIn(os) \in Nat /\ ClaimedIn(after) \in Nat
         /\ ClaimedIn(after) = ClaimedIn(os) - (IF i \in SellsIn(os) THEN os[i].quantity ELSE 0)
                                 + (IF i \in SellsIn(after) THEN after[i].quantity ELSE 0)
<1>1. PICK f, g : /\ f = [j \in SellsIn(os) |-> os[j].quantity]
                  /\ g = [j \in SellsIn(after) |-> after[j].quantity]
  OBVIOUS
<1>2. /\ IsFiniteSet(SellsIn(os)) /\ f \in [SellsIn(os) -> Nat]
      /\ \A j \in SellsIn(os) : f[j] = os[j].quantity
      /\ ClaimedIn(os) = Sum(f) /\ ClaimedIn(os) \in Nat
  BY <1>1, ClaimedIsASum
<1>3. /\ IsFiniteSet(SellsIn(after)) /\ g \in [SellsIn(after) -> Nat]
      /\ \A j \in SellsIn(after) : g[j] = after[j].quantity
      /\ ClaimedIn(after) = Sum(g) /\ ClaimedIn(after) \in Nat
  BY <1>1, ClaimedIsASum
<1>4. \A j \in SellsIn(os) \ {i} : f[j] = g[j]
  BY <1>2, <1>3
<1>5. PICK S, T : S = SellsIn(os) /\ T = SellsIn(after)
  OBVIOUS
<1>6. Sum(g) = Sum(f) - (IF i \in S THEN f[i] ELSE 0) + (IF i \in T THEN g[i] ELSE 0)
  <2>1. IsFiniteSet(S) /\ IsFiniteSet(T) /\ f \in [S -> Nat] /\ g \in [T -> Nat]
    BY <1>2, <1>3, <1>5
  <2>2. S \ {i} = T \ {i} /\ \A j \in S \ {i} : f[j] = g[j]
    BY <1>4, <1>5
  <2> QED BY <2>1, <2>2, SumChange, SMTT(60)
<1> QED BY <1>2, <1>3, <1>5, <1>6

LEMMA ClaimedCovers ==
  ASSUME NEW os \in Seq(StockOrder), NEW i \in SellsIn(os)
  PROVE  os[i].quantity <= ClaimedIn(os)
<1>1. PICK f : f = [j \in SellsIn(os) |-> os[j].quantity]
  OBVIOUS
<1>2. /\ IsFiniteSet(SellsIn(os)) /\ f \in [SellsIn(os) -> Nat] /\ f[i] = os[i].quantity
      /\ ClaimedIn(os) = Sum(f)
  BY <1>1, ClaimedIsASum
<1> QED BY <1>2, SumHolds

-----------------------------------------------------------------------------
\* An order is added that is not at work at the broker.
LEMMA OrderIsAdded ==
  ASSUME TradingTyped, StockOrdersKept, NEW x \in StockOrder, x.at # "open", RowIsTrue(x),
         \A i \in Ids : stock_orders[i].of # x.of,
         stock_orders' = Append(stock_orders, x)
  PROVE  /\ stock_orders' \in Seq(StockOrder)
         /\ Len(stock_orders) \in Nat
         /\ Ids' = Ids \union {Len(stock_orders) + 1}
         /\ stock_orders'[Len(stock_orders) + 1] = x
         /\ \A i \in Ids : stock_orders'[i] = stock_orders[i]
         /\ \A i \in Ids' : RowIsTrue(stock_orders'[i])
         /\ OneOrderPerDecision'
         /\ Claimed' = Claimed
<1>1. /\ stock_orders' \in Seq(StockOrder) /\ Len(stock_orders) \in Nat
      /\ Len(stock_orders') = Len(stock_orders) + 1
      /\ stock_orders'[Len(stock_orders) + 1] = x
      /\ \A i \in Ids : stock_orders'[i] = stock_orders[i]
  BY DEF TradingTyped, Ids
<1>2. Ids' = Ids \union {Len(stock_orders) + 1} /\ Len(stock_orders) + 1 \notin Ids
  BY <1>1 DEF Ids
<1>3. \A i \in Ids' : RowIsTrue(stock_orders'[i])
  BY <1>1, <1>2 DEF StockOrdersKept
<1>4. OneOrderPerDecision'
  <2> SUFFICES ASSUME NEW j \in Ids', NEW k \in Ids',
                      stock_orders'[j].of = stock_orders'[k].of
               PROVE  j = k
    BY DEF OneOrderPerDecision
  <2>1. CASE j \in Ids /\ k \in Ids
    BY <1>1, <2>1 DEF StockOrdersKept, OneOrderPerDecision
  <2>2. CASE j \notin Ids \/ k \notin Ids
    BY <1>1, <1>2, <2>2
  <2> QED BY <2>1, <2>2
<1>5. SellsIn(stock_orders') = SellsIn(stock_orders)
  BY <1>1, <1>2 DEF SellsIn, Ids
<1>6. UNION {{i} \X (1 .. stock_orders'[i].quantity) : i \in SellsIn(stock_orders')}
        = UNION {{i} \X (1 .. stock_orders[i].quantity) : i \in SellsIn(stock_orders)}
  BY <1>1, <1>5 DEF SellsIn, Ids
<1>7. Claimed' = Claimed
  BY <1>6, ClaimedNowAndThen DEF ClaimedIn
<1> QED BY <1>1, <1>2, <1>3, <1>4, <1>7

\* An order goes on: what was decided stays, and what it claims may change.
LEMMA StockOrderGoesOn ==
  ASSUME TradingTyped, StockOrdersKept, NEW i \in Ids, NEW x \in StockOrder, RowIsTrue(x),
         x.of = stock_orders[i].of, x.side = stock_orders[i].side,
         x.quantity = stock_orders[i].quantity,
         stock_orders' = [stock_orders EXCEPT ![i] = x]
  PROVE  /\ stock_orders' \in Seq(StockOrder) /\ Len(stock_orders') = Len(stock_orders)
         /\ Ids' = Ids
         /\ stock_orders'[i] = x
         /\ \A j \in Ids \ {i} : stock_orders'[j] = stock_orders[j]
         /\ \A j \in Ids : stock_orders'[j].of = stock_orders[j].of /\ RowIsTrue(stock_orders'[j])
         /\ OneOrderPerDecision'
         /\ Claimed \in Nat /\ Claimed' \in Nat /\ x.quantity \in Nat
         /\ i \in OpenSells => x.quantity <= Claimed
         /\ Claimed' = Claimed - (IF i \in OpenSells THEN x.quantity ELSE 0)
                               + (IF x.at = "open" /\ x.side = "sell" THEN x.quantity ELSE 0)
<1>1. /\ stock_orders \in Seq(StockOrder) /\ stock_orders' \in Seq(StockOrder)
      /\ Len(stock_orders') = Len(stock_orders) /\ Ids' = Ids
      /\ stock_orders'[i] = x
      /\ \A j \in Ids \ {i} : stock_orders'[j] = stock_orders[j]
  BY DEF TradingTyped, Ids
<1>2. \A j \in Ids : stock_orders'[j].of = stock_orders[j].of /\ RowIsTrue(stock_orders'[j])
  BY <1>1 DEF StockOrdersKept
<1>3. OneOrderPerDecision'
  BY <1>1, <1>2 DEF StockOrdersKept, OneOrderPerDecision
<1>4. SellsIn(stock_orders) \ {i} = SellsIn(stock_orders') \ {i}
  BY <1>1 DEF SellsIn, Ids
<1>5. \A j \in SellsIn(stock_orders) \ {i} : stock_orders'[j].quantity = stock_orders[j].quantity
  BY <1>1 DEF SellsIn, Ids
<1>6. i \in SellsIn(stock_orders') <=> x.at = "open" /\ x.side = "sell"
  BY <1>1 DEF SellsIn, Ids
<1>7. x.quantity \in Nat /\ stock_orders'[i].quantity = x.quantity
  BY <1>1 DEF StockOrder
<1>8. /\ ClaimedIn(stock_orders) \in Nat /\ ClaimedIn(stock_orders') \in Nat
      /\ ClaimedIn(stock_orders') = ClaimedIn(stock_orders)
           - (IF i \in SellsIn(stock_orders) THEN stock_orders[i].quantity ELSE 0)
           + (IF i \in SellsIn(stock_orders') THEN stock_orders'[i].quantity ELSE 0)
  BY <1>1, <1>4, <1>5, ClaimedChanges
<1>9. i \in OpenSells => x.quantity <= Claimed
  BY <1>1, ClaimedCovers, ClaimedNowAndThen
<1> QED BY <1>1, <1>2, <1>3, <1>6, <1>7, <1>8, <1>9, ClaimedNowAndThen
-----------------------------------------------------------------------------
LEMMA OrdersAreTyped ==
  ASSUME TradingTyped, NEW i \in Ids
  PROVE  /\ stock_orders[i] \in StockOrder /\ stock_orders[i].of \in Decisions
         /\ stock_orders[i].of.bar \in Bars
<1>1. stock_orders[i] \in StockOrder
  BY DEF TradingTyped, Ids
<1>2. stock_orders[i].of \in Decisions
  BY <1>1 DEF StockOrder
<1> QED BY <1>1, <1>2 DEF Decisions

\* What the tasks hold.
LEMMA TasksAreTyped ==
  ASSUME TradingTyped
  PROVE  /\ runner.phase \in {"none", "read", "refused", "sent", "answered"}
         /\ runner.phase = "none" => runner = NoTask
         /\ runner.phase = "read" => runner.seen \in SeenPosition
         /\ runner.phase = "refused" =>
              runner.bar \in Bars /\ runner.status \in {"rejected", "error"}
         /\ runner.phase \in {"sent", "answered"} => runner.of \in Decisions
         /\ monitor.phase \in {"none", "read", "sent", "answered"}
         /\ monitor.phase = "none" => monitor = NoTask
         /\ monitor.phase = "read" => monitor.seen \in SeenPosition
         /\ monitor.phase \in {"sent", "answered"} =>
              monitor.of \in Decisions /\ monitor.type \in ExitTypes
  BY DEF TradingTyped, RunnerTask, MonitorTask, NoTask

LEMMA PositionIsTyped ==
  ASSUME TradingTyped, Claimed <= held
  PROVE  Position \in SeenPosition
<1>1. Claimed \in Nat
  BY ClaimedIsASum, ClaimedNowAndThen DEF TradingTyped
<1> QED BY <1>1 DEF Position, SeenPosition, TradingTyped

\* The last executed entry is one.
LEMMA LastIsExecuted ==
  ASSUME TradingTyped, Executed # {}
  PROVE  MonitorDecision \in Decisions
<1> DEFINE Later == {LastBar - b : b \in Executed}
<1>1. LastBar \in Nat /\ Executed \subseteq Bars /\ \A b \in Executed : b \in Nat /\ b <= LastBar
  BY BarsAndShares DEF Executed, Bars
<1>2. Later \in SUBSET Nat /\ Later # {}
  BY <1>1
<1>3. PICK x \in Later : \A y \in Later : x <= y
  <2> HIDE DEF Later
  <2> QED BY <1>2, LeastOfASet
<1>4. PICK b \in Executed : x = LastBar - b
  BY <1>3
<1>5. ASSUME NEW c \in Executed PROVE c <= b
  <2>1. LastBar - c \in Later
    OBVIOUS
  <2>2. x <= LastBar - c
    BY <1>3, <2>1
  <2>3. c \in Nat /\ b \in Nat /\ LastBar \in Nat
    BY <1>1
  <2> QED BY <1>4, <2>2, <2>3
<1>6. \E c \in Executed : \A d \in Executed : c >= d
  BY <1>1, <1>5
<1>7. Max(Executed) \in Executed
  BY <1>6 DEF Max
<1> QED BY <1>1, <1>7 DEF MonitorDecision, Decision, Decisions

\* The order of a decision is the only one.
LEMMA LastIsTheOnly ==
  ASSUME OneOrderPerDecision, NEW i \in Ids, TradingTyped
  PROVE  Last(stock_orders[i].of) = i
<1>1. {j \in Ids : stock_orders[j].of = stock_orders[i].of} = {i}
  BY DEF OneOrderPerDecision
<1>2. i \in Nat
  BY DEF Ids
<1> QED BY <1>1, <1>2 DEF Last, Max

\* Steps that leave the orders, what is saved of signals, and the position.
LEMMA OrdersStayKept ==
  ASSUME TradingKept, UNCHANGED <<signals, stock_orders>>
  PROVE  /\ Ids' = Ids /\ Claimed' = Claimed /\ StockOrdersKept' /\ Executed' = Executed
         /\ stock_orders' \in Seq(StockOrder)
  BY DEF TradingKept, TradingTyped, Ids, Claimed, OpenSells, StockOrdersKept, OneOrderPerDecision,
         Executed
-----------------------------------------------------------------------------
\* Everything but what the tasks do is kept when neither orders nor signals change.
LEMMA TasksStepKeeps ==
  ASSUME TradingKept, UNCHANGED <<signals, stock_orders, held>>,
         controls' \in [kill : BOOLEAN, auto : BOOLEAN], bar' \in Bars,
         runner' \in RunnerTask, monitor' \in MonitorTask,
         runner'.phase = "sent" => runner' = runner,
         monitor'.phase = "sent" => monitor' = monitor,
         runner'.phase = "refused" =>
           \/ runner' = runner
           \/ signals.entries[runner'.bar] = "none" /\ runner'.bar \in Bars,
         cut_short \subseteq cut_short',
         runner' # runner /\ runner.phase \in {"sent", "answered"} => runner.of.bar \in cut_short'
  PROVE  TradingKept'
<1>1. /\ Ids' = Ids /\ Claimed' = Claimed /\ StockOrdersKept' /\ Executed' = Executed
      /\ stock_orders' \in Seq(StockOrder)
  BY OrdersStayKept
<1>2. TradingTyped'
  BY <1>1 DEF TradingKept, TradingTyped
<1>3. Claimed' <= held'
  BY <1>1 DEF TradingKept
<1>4. TasksKept'
  <2>1. runner'.phase = "sent" => \E i \in Ids' : stock_orders'[i].of = runner'.of
    BY <1>1 DEF TradingKept, TasksKept
  <2>2. monitor'.phase = "sent" => \E i \in Ids' : stock_orders'[i].of = monitor'.of
    BY <1>1 DEF TradingKept, TasksKept
  <2>3. ASSUME runner'.phase = "refused", runner' # runner
        PROVE  /\ signals'.entries[runner'.bar] # "executed"
               /\ \A i \in Ids' : stock_orders'[i].of # Decision("runner", "entry", runner'.bar)
    <3>1. signals.entries[runner'.bar] = "none"
      BY <2>3
    <3>2. \A i \in Ids : stock_orders[i].of # Decision("runner", "entry", runner'.bar)
      BY <3>1 DEF TradingKept, StockOrdersKept, OnRecord, Decision
    <3> QED BY <1>1, <3>1, <3>2
  <2>4. runner'.phase = "refused" /\ runner' = runner =>
          /\ signals'.entries[runner'.bar] # "executed"
          /\ \A i \in Ids' : stock_orders'[i].of = Decision("runner", "entry", runner'.bar) =>
                               stock_orders'[i].at = "none"
    BY <1>1 DEF TradingKept, TasksKept
  <2> QED BY <2>1, <2>2, <2>3, <2>4 DEF TasksKept
<1>5. SentEntriesAreWatched'
  BY <1>1 DEF TradingKept, SentEntriesAreWatched
<1> QED BY <1>1, <1>2, <1>3, <1>4, <1>5 DEF TradingKept

LEMMA LooksKeep ==
  ASSUME TradingKept,
         \/ RunnerReads \/ RunnerPasses \/ RefuseEntry \/ RunnerDies
         \/ MonitorReads \/ MonitorPasses \/ MonitorDies \/ NextBar
         \/ \E kill, auto \in BOOLEAN : SetTradingControls(kill, auto)
  PROVE  TradingKept'
<1> USE DEF TradingKept
<1>1. /\ TradingTyped /\ controls \in [kill : BOOLEAN, auto : BOOLEAN] /\ bar \in Bars
      /\ runner \in RunnerTask /\ monitor \in MonitorTask
  BY DEF TradingTyped
<1>2. Position \in SeenPosition
  BY PositionIsTyped
<1>3. CASE RunnerReads
  <2>1. runner' \in RunnerTask /\ runner'.phase = "read" /\ runner.phase = "none"
    BY <1>2, <1>3 DEF RunnerReads, RunnerTask, NoTask
  <2> QED BY <1>1, <1>3, <2>1, TasksStepKeeps DEF RunnerReads
<1>4. CASE RunnerPasses
  <2>1. runner' \in RunnerTask /\ runner'.phase = "none" /\ runner.phase = "read"
    BY <1>4 DEF RunnerPasses, RunnerTask, NoTask, Deciding
  <2> QED BY <1>1, <1>4, <2>1, TasksStepKeeps DEF RunnerPasses
<1>5. CASE RefuseEntry
  <2>1. /\ runner' \in RunnerTask /\ runner'.phase = "refused" /\ runner.phase = "read"
        /\ runner'.bar \in Bars /\ signals.entries[runner'.bar] = "none"
    BY <1>1, <1>5 DEF RefuseEntry, RunnerTask, Deciding, NewEntry
  <2> QED BY <1>1, <1>5, <2>1, TasksStepKeeps DEF RefuseEntry
<1>6. CASE RunnerDies
  <2>1. /\ runner' \in RunnerTask /\ runner'.phase = "none" /\ cut_short \subseteq cut_short'
        /\ runner.phase \in {"sent", "answered"} => runner.of.bar \in cut_short'
    BY <1>6 DEF RunnerDies, RunnerTask, NoTask
  <2> QED BY <1>1, <1>6, <2>1, TasksStepKeeps DEF RunnerDies
<1>7. CASE MonitorReads
  <2>1. monitor' \in MonitorTask /\ monitor'.phase = "read"
    BY <1>2, <1>7 DEF MonitorReads, MonitorTask
  <2> QED BY <1>1, <1>7, <2>1, TasksStepKeeps DEF MonitorReads
<1>8. CASE MonitorPasses \/ MonitorDies
  <2>1. monitor' \in MonitorTask /\ monitor'.phase = "none"
    BY <1>8 DEF MonitorPasses, MonitorDies, MonitorTask, NoTask
  <2> QED BY <1>1, <1>8, <2>1, TasksStepKeeps DEF MonitorPasses, MonitorDies
<1>9. CASE NextBar
  <2>1. bar' \in Bars
    BY <1>1, <1>9, BarsAndShares DEF NextBar, Bars
  <2> QED BY <1>1, <1>9, <2>1, TasksStepKeeps DEF NextBar
<1>10. CASE \E kill, auto \in BOOLEAN : SetTradingControls(kill, auto)
  <2>1. controls' \in [kill : BOOLEAN, auto : BOOLEAN]
    BY <1>10 DEF SetTradingControls
  <2> QED BY <1>1, <1>10, <2>1, TasksStepKeeps DEF SetTradingControls
<1> QED BY <1>3, <1>4, <1>5, <1>6, <1>7, <1>8, <1>9, <1>10
-----------------------------------------------------------------------------
\* What a run saves.
LEMMA RunnerSavesKeeps ==
  ASSUME TradingKept, RunnerSaves
  PROVE  TradingKept'
<1>1. /\ TradingTyped /\ Claimed <= held /\ StockOrdersKept /\ TasksKept /\ SentEntriesAreWatched
      /\ UNCHANGED <<controls, bar, stock_orders, monitor, held, cut_short>> /\ runner' = NoTask
  BY DEF TradingKept, RunnerSaves
<1>2. /\ Ids' = Ids /\ Claimed' = Claimed /\ OneOrderPerDecision'
  BY <1>1 DEF Ids, Claimed, OpenSells, StockOrdersKept, OneOrderPerDecision
<1>3. /\ signals' \in [entries : [Bars -> {"none", "pending", "rejected", "error", "executed"}],
                       exits : SUBSET Decisions, partial : BOOLEAN]
      /\ signals'.exits = signals.exits
      /\ \A b \in Bars : signals.entries[b] # "none" => signals'.entries[b] # "none"
  <2>1. CASE runner.phase = "refused"
    <3>1. runner.bar \in Bars /\ runner.status \in {"rejected", "error"}
      BY <1>1, <2>1, TasksAreTyped
    <3> QED BY <1>1, <2>1, <3>1 DEF RunnerSaves, TradingTyped
  <2>2. CASE runner.phase = "answered"
    <3>1. runner.of.bar \in Bars
      BY <1>1, <2>2, TasksAreTyped DEF Decisions
    <3> QED BY <1>1, <2>2, <3>1 DEF RunnerSaves, TradingTyped
  <2> QED BY <2>1, <2>2 DEF RunnerSaves
<1>4. TradingTyped'
  BY <1>1, <1>3 DEF TradingTyped, RunnerTask
<1>5. StockOrdersKept'
  <2>1. \A i \in Ids : stock_orders[i].of.bar \in Bars
    BY <1>1, OrdersAreTyped
  <2> QED BY <1>1, <1>2, <1>3, <2>1 DEF StockOrdersKept, OnRecord
<1>6. TasksKept'
  BY <1>1, <1>2 DEF TasksKept, NoTask
<1>7. SentEntriesAreWatched'
  <2> SUFFICES ASSUME NEW i \in Ids, stock_orders[i].of.type = "entry",
                      stock_orders[i].at # "none", stock_orders[i].of.bar \notin cut_short
               PROVE  stock_orders[i].of.bar \in Executed'
    BY <1>1, <1>2 DEF SentEntriesAreWatched
  <2> DEFINE d == stock_orders[i].of
  <2>1. d \in Decisions /\ d.bar \in Bars
    BY <1>1, OrdersAreTyped
  <2>2. d.by = "runner" /\ d = Decision("runner", "entry", d.bar)
    BY <1>1, <2>1 DEF StockOrdersKept, OnRecord, Decisions, Decision
  <2>3. \/ signals.entries[d.bar] = "executed"
        \/ runner.phase \in {"sent", "answered"} /\ runner.of = d
    BY <1>1 DEF SentEntriesAreWatched, Executed
  <2>4. CASE runner.phase = "refused"
    <3>1. runner.bar \in Bars /\ runner.bar # d.bar
      BY <1>1, <2>2, <2>4, TasksAreTyped DEF TasksKept
    <3>2. signals'.entries[d.bar] = "executed"
      BY <1>1, <2>1, <2>3, <2>4, <3>1 DEF RunnerSaves, TradingTyped
    <3> QED BY <2>1, <3>2 DEF Executed
  <2>5. CASE runner.phase = "answered"
    <3>1. signals'.entries[d.bar] = "executed"
      BY <1>1, <2>1, <2>3, <2>5 DEF RunnerSaves, TradingTyped
    <3> QED BY <2>1, <3>1 DEF Executed
  <2> QED BY <2>4, <2>5 DEF RunnerSaves
<1> QED BY <1>1, <1>2, <1>4, <1>5, <1>6, <1>7 DEF TradingKept

LEMMA MonitorSavesKeeps ==
  ASSUME TradingKept, MonitorSaves
  PROVE  TradingKept'
<1>1. /\ TradingTyped /\ Claimed <= held /\ StockOrdersKept /\ TasksKept /\ SentEntriesAreWatched
      /\ UNCHANGED <<controls, bar, stock_orders, runner, held, cut_short>> /\ monitor' = NoTask
  BY DEF TradingKept, MonitorSaves
<1>2. /\ Ids' = Ids /\ Claimed' = Claimed /\ OneOrderPerDecision'
  BY <1>1 DEF Ids, Claimed, OpenSells, StockOrdersKept, OneOrderPerDecision
<1>3. /\ signals' \in [entries : [Bars -> {"none", "pending", "rejected", "error", "executed"}],
                       exits : SUBSET Decisions, partial : BOOLEAN]
      /\ signals'.exits = signals.exits /\ signals'.entries = signals.entries
  BY <1>1 DEF MonitorSaves, TradingTyped
<1>4. TradingTyped'
  BY <1>1, <1>3 DEF TradingTyped, MonitorTask
<1>5. StockOrdersKept'
  BY <1>1, <1>2, <1>3 DEF StockOrdersKept, OnRecord
<1>6. TasksKept'
  BY <1>1, <1>2, <1>3 DEF TasksKept, NoTask
<1>7. SentEntriesAreWatched'
  BY <1>1, <1>2, <1>3 DEF SentEntriesAreWatched, Executed
<1> QED BY <1>1, <1>2, <1>4, <1>5, <1>6, <1>7 DEF TradingKept

-----------------------------------------------------------------------------
\* A new order, with what is saved and done beside it.
SavedWith(d) ==
  /\ signals' \in [entries : [Bars -> {"none", "pending", "rejected", "error", "executed"}],
                   exits : SUBSET Decisions, partial : BOOLEAN]
  /\ signals.exits \subseteq signals'.exits
  /\ OnRecord(d, signals')
  /\ \A b \in Bars : /\ signals.entries[b] # "none" => signals'.entries[b] # "none"
                     /\ signals.entries[b] = "executed" <=> signals'.entries[b] = "executed"

DoneWith(x) ==
  /\ runner' \in RunnerTask /\ monitor' \in MonitorTask
  /\ runner'.phase = "sent" => runner' = runner \/ runner'.of = x.of
  /\ monitor'.phase = "sent" => monitor' = monitor \/ monitor'.of = x.of
  /\ runner' # runner => runner.phase = "read"
  /\ runner'.phase = "refused" =>
       \/ runner' = runner /\ (x.at = "none" \/ x.of.type # "entry")
       \/ x.at = "none" /\ signals.entries[runner'.bar] = "none" /\ runner'.bar \in Bars
  /\ x.of.type = "entry" /\ x.at # "none" => runner'.phase = "sent" /\ runner'.of = x.of

Added(x) ==
  /\ x \in StockOrder /\ x.at # "open" /\ RowIsTrue(x)
  /\ \A i \in Ids : stock_orders[i].of # x.of
  /\ stock_orders' = Append(stock_orders, x)

LEMMA NewOrderKeeps ==
  ASSUME TradingKept, NEW x, Added(x), SavedWith(x.of), DoneWith(x),
         UNCHANGED <<controls, bar, held, cut_short>>
  PROVE  TradingKept'
<1>1. /\ TradingTyped /\ Claimed <= held /\ StockOrdersKept /\ TasksKept /\ SentEntriesAreWatched
  BY DEF TradingKept
<1>2. /\ stock_orders' \in Seq(StockOrder)
      /\ \A i \in Ids' : RowIsTrue(stock_orders'[i])
      /\ OneOrderPerDecision' /\ Claimed' = Claimed
  BY <1>1, OrderIsAdded DEF Added
<1>3. PICK n : n = Len(stock_orders) + 1
  OBVIOUS
<1>4. /\ Ids' = Ids \union {n} /\ stock_orders'[n] = x
      /\ \A i \in Ids : stock_orders'[i] = stock_orders[i]
  BY <1>1, <1>3, OrderIsAdded DEF Added
<1>5. \A i \in Ids : stock_orders[i].of \in Decisions /\ stock_orders[i].of.bar \in Bars
  BY <1>1, OrdersAreTyped
<1>6. TradingTyped'
  BY <1>1, <1>2 DEF TradingTyped, SavedWith, DoneWith
<1>7. Claimed' <= held'
  BY <1>1, <1>2
<1>8. StockOrdersKept'
  <2>1. ASSUME NEW i \in Ids PROVE OnRecord(stock_orders'[i].of, signals')
    <3>1. OnRecord(stock_orders[i].of, signals) /\ stock_orders'[i] = stock_orders[i]
      BY <1>1, <1>4 DEF StockOrdersKept
    <3>2. stock_orders[i].of.bar \in Bars
      BY <1>5
    <3> QED BY <3>1, <3>2 DEF OnRecord, SavedWith
  <2> QED BY <1>2, <1>4, <2>1 DEF StockOrdersKept, SavedWith
<1>9. TasksKept'
  <2>1. runner'.phase = "sent" => \E i \in Ids' : stock_orders'[i].of = runner'.of
    <3>1. runner'.phase = "sent" /\ runner' = runner =>
            \E i \in Ids : stock_orders[i].of = runner'.of
      BY <1>1 DEF TasksKept
    <3> QED BY <1>4, <3>1 DEF DoneWith
  <2>2. monitor'.phase = "sent" => \E i \in Ids' : stock_orders'[i].of = monitor'.of
    <3>1. monitor'.phase = "sent" /\ monitor' = monitor =>
            \E i \in Ids : stock_orders[i].of = monitor'.of
      BY <1>1 DEF TasksKept
    <3> QED BY <1>4, <3>1 DEF DoneWith
  <2>3. ASSUME runner'.phase = "refused"
        PROVE  /\ signals'.entries[runner'.bar] # "executed"
               /\ \A i \in Ids' : stock_orders'[i].of = Decision("runner", "entry", runner'.bar) =>
                                    stock_orders'[i].at = "none"
    <3>1. runner'.bar \in Bars
      BY <1>1, <2>3, TasksAreTyped DEF DoneWith
    <3>2. signals.entries[runner'.bar] # "executed"
      BY <1>1, <2>3 DEF TasksKept, DoneWith
    <3>3. \A i \in Ids : stock_orders[i].of = Decision("runner", "entry", runner'.bar) =>
                           stock_orders[i].at = "none"
      BY <1>1, <2>3 DEF TasksKept, StockOrdersKept, OnRecord, Decision, DoneWith
    <3>4. x.of = Decision("runner", "entry", runner'.bar) => x.at = "none"
      BY <2>3 DEF Decision, DoneWith
    <3>5. signals'.entries[runner'.bar] # "executed"
      BY <3>1, <3>2 DEF SavedWith
    <3> QED BY <1>4, <3>3, <3>4, <3>5
  <2> QED BY <2>1, <2>2, <2>3 DEF TasksKept
<1>10. SentEntriesAreWatched'
  <2>1. \A b \in Bars : b \in Executed <=> b \in Executed'
    BY DEF Executed, SavedWith
  <2>2. ASSUME NEW i \in Ids, stock_orders[i].of.type = "entry", stock_orders[i].at # "none"
        PROVE  \/ stock_orders[i].of.bar \in Executed' \/ stock_orders[i].of.bar \in cut_short'
               \/ runner'.phase \in {"sent", "answered"} /\ runner'.of = stock_orders[i].of
    <3>1. \/ stock_orders[i].of.bar \in Executed \/ stock_orders[i].of.bar \in cut_short
          \/ runner.phase \in {"sent", "answered"} /\ runner.of = stock_orders[i].of
      BY <1>1, <2>2 DEF SentEntriesAreWatched
    <3>2. runner.phase \in {"sent", "answered"} => runner' = runner
      BY DEF DoneWith
    <3> QED BY <1>5, <2>1, <3>1, <3>2
  <2>3. x.of.type = "entry" /\ x.at # "none" => runner'.phase = "sent" /\ runner'.of = x.of
    BY DEF DoneWith
  <2> QED BY <1>4, <2>2, <2>3 DEF SentEntriesAreWatched
<1> QED BY <1>6, <1>7, <1>8, <1>9, <1>10 DEF TradingKept
-----------------------------------------------------------------------------
LEMMA RunnerOrdersKeep ==
  ASSUME TradingKept,
         DispatchEntry \/ BlockEntry \/ \E type \in ExitTypes : DispatchExit(type)
  PROVE  TradingKept'
<1>1. /\ TradingTyped /\ StockOrdersKept /\ bar \in Bars /\ monitor \in MonitorTask
      /\ signals \in [entries : [Bars -> {"none", "pending", "rejected", "error", "executed"}],
                      exits : SUBSET Decisions, partial : BOOLEAN]
  BY DEF TradingKept, TradingTyped
<1>2. CASE DispatchEntry \/ BlockEntry
  <2> DEFINE d == Decision("runner", "entry", bar)
             sent == Order(d, "buy", EntryShares, "submission_unknown", "sent")
             blocked == Order(d, "buy", EntryShares, "ended", "none")
  <2>1. /\ d \in Decisions /\ d.by = "runner" /\ d.type = "entry" /\ d.bar = bar
        /\ EntryShares \in Nat \ {0}
    BY <1>1, BarsAndShares DEF Decision, Decisions
  <2>2. runner.phase = "read" /\ signals.entries[bar] = "none"
    BY <1>2 DEF DispatchEntry, BlockEntry, Deciding, NewEntry
  <2>3. \A i \in Ids : stock_orders[i].of # d
    BY <1>1, <2>1, <2>2 DEF StockOrdersKept, OnRecord
  <2>4. SavedWith(d)
    <3>1. signals' = [signals EXCEPT !.entries[bar] = "pending"]
      BY <1>2 DEF DispatchEntry, BlockEntry
    <3> QED BY <1>1, <2>1, <2>2, <3>1 DEF SavedWith, OnRecord
  <2>5. CASE DispatchEntry
    <3>1. Added(sent)
      BY <1>1, <2>1, <2>3, <2>5 DEF Added, StockOrder, Order, RowIsTrue, ActiveRows, DispatchEntry,
            Dispatched
    <3>2. runner' = [phase |-> "sent", of |-> d] /\ monitor' = monitor
      BY <2>5 DEF DispatchEntry
    <3>3. DoneWith(sent)
      BY <1>1, <2>1, <2>2, <3>2 DEF DoneWith, RunnerTask, Order, TradingKept, TasksKept
    <3>4. sent.of = d
      BY DEF Order
    <3> QED BY <2>4, <2>5, <3>1, <3>3, <3>4, NewOrderKeeps DEF DispatchEntry
  <2>6. CASE BlockEntry
    <3>1. Added(blocked)
      BY <1>1, <2>1, <2>3, <2>6 DEF Added, StockOrder, Order, RowIsTrue, BlockEntry
    <3>2. runner' = [phase |-> "refused", bar |-> bar, status |-> "error"] /\ monitor' = monitor
      BY <2>6 DEF BlockEntry
    <3>3. DoneWith(blocked)
      BY <1>1, <2>1, <2>2, <3>2 DEF DoneWith, RunnerTask, Order, TradingKept, TasksKept
    <3>4. blocked.of = d
      BY DEF Order
    <3> QED BY <2>4, <2>6, <3>1, <3>3, <3>4, NewOrderKeeps DEF BlockEntry
  <2> QED BY <1>2, <2>5, <2>6
<1>3. ASSUME NEW type \in ExitTypes, DispatchExit(type) PROVE TradingKept'
  <2> DEFINE d == Decision("runner", type, bar)
             quantity == SellQuantity(type, runner.seen)
             sent == Order(d, "sell", quantity, "submission_unknown", "sent")
  <2>1. d \in Decisions /\ d.by = "runner" /\ d.type # "entry"
    BY <1>1 DEF Decision, Decisions, ExitTypes
  <2>2. runner.phase = "read" /\ d \notin signals.exits /\ quantity > 0
    BY <1>3 DEF DispatchExit, Deciding
  <2>3. quantity \in Nat \ {0}
    <3>1. runner.seen.max_sell \in Nat
      BY <1>1, <2>2, TasksAreTyped DEF SeenPosition
    <3> QED BY <2>2, <3>1 DEF SellQuantity
  <2>4. \A i \in Ids : stock_orders[i].of # d
    BY <1>1, <2>1, <2>2 DEF StockOrdersKept, OnRecord
  <2>5. SavedWith(d)
    <3>1. signals' = [signals EXCEPT !.exits = @ \union {d}]
      BY <1>3 DEF DispatchExit
    <3> QED BY <1>1, <2>1, <3>1 DEF SavedWith, OnRecord
  <2>6. stock_orders' = Append(stock_orders, sent)
    BY <1>3 DEF DispatchExit, Dispatched
  <2>7. Added(sent)
    <3> HIDE DEF quantity
    <3> QED BY <1>1, <2>1, <2>3, <2>4, <2>6 DEF Added, StockOrder, Order, RowIsTrue, ActiveRows
  <2>8. runner' = [phase |-> "sent", of |-> d] /\ monitor' = monitor
    BY <1>3 DEF DispatchExit
  <2>9. DoneWith(sent)
    BY <1>1, <2>1, <2>2, <2>8 DEF DoneWith, RunnerTask, Order, TradingKept, TasksKept
  <2>10. sent.of = d
    BY DEF Order
  <2> QED BY <1>3, <2>5, <2>7, <2>9, <2>10, NewOrderKeeps DEF DispatchExit
<1> QED BY <1>2, <1>3

\* An order of the monitor is added, while nothing is saved of signals.
LEMMA MonitorOrderKeeps ==
  ASSUME TradingKept, NEW type \in ExitTypes, ExitWanted(type), Standing(type) = {},
         NEW row, NEW at,
         <<row, at>> \in {<<"submission_unknown", "sent">>, <<"pending_intent", "none">>},
         stock_orders' = Append(stock_orders, Order(MonitorDecision, "sell",
                                                    SellQuantity(type, monitor.seen), row, at)),
         UNCHANGED <<controls, bar, signals, runner, held, cut_short>>,
         monitor' \in MonitorTask,
         monitor'.phase = "sent" => monitor'.of = MonitorDecision
  PROVE  TradingKept'
<1> DEFINE d == MonitorDecision
           quantity == SellQuantity(type, monitor.seen)
           x == Order(d, "sell", quantity, row, at)
<1>1. /\ TradingTyped /\ StockOrdersKept /\ runner \in RunnerTask
      /\ signals \in [entries : [Bars -> {"none", "pending", "rejected", "error", "executed"}],
                      exits : SUBSET Decisions, partial : BOOLEAN]
  BY DEF TradingKept, TradingTyped
<1>2. d \in Decisions /\ d.by = "monitor" /\ d.type = "exit"
  BY <1>1, LastIsExecuted DEF ExitWanted, MonitorDecision, Decision
<1>3. quantity \in Nat \ {0}
  <2>1. monitor.seen.max_sell \in Nat /\ quantity > 0
    BY <1>1, TasksAreTyped DEF SeenPosition, ExitWanted, Watching
  <2> QED BY <2>1 DEF SellQuantity
<1>4. \A i \in Ids : stock_orders[i].of # d
  BY DEF Standing
<1>5. SavedWith(d)
  BY <1>1, <1>2 DEF SavedWith, OnRecord
<1>6. Added(x)
  <2> HIDE DEF quantity, d
  <2> QED BY <1>2, <1>3, <1>4 DEF Added, StockOrder, Order, RowIsTrue, ActiveRows, quantity, d
<1>7. x.of = d /\ x.of.type # "entry"
  BY <1>2 DEF Order
<1>8. DoneWith(x)
  <2> HIDE DEF x, d
  <2> QED BY <1>1, <1>7 DEF DoneWith, TradingKept, TasksKept, d
<1> QED BY <1>5, <1>6, <1>7, <1>8, NewOrderKeeps
-----------------------------------------------------------------------------
\* An order that is there goes on, with what the tasks do beside it.
StockGoesOn(i, x) ==
  /\ x \in StockOrder /\ RowIsTrue(x)
  /\ x.of = stock_orders[i].of /\ x.side = stock_orders[i].side
  /\ x.quantity = stock_orders[i].quantity
  /\ x.of.type = "entry" /\ x.at # "none" => stock_orders[i].at # "none"
  /\ stock_orders' = [stock_orders EXCEPT ![i] = x]

DoneBeside(d) ==
  /\ runner' \in RunnerTask /\ monitor' \in MonitorTask
  /\ \/ runner' = runner
     \/ runner.phase = "sent" /\ runner'.phase = "answered" /\ runner'.of = runner.of
  /\ monitor'.phase = "sent" => monitor' = monitor \/ monitor'.of = d

LEMMA OrderStepKeeps ==
  ASSUME TradingKept, NEW i \in Ids, NEW x, StockGoesOn(i, x), DoneBeside(x.of),
         held' \in Nat, Claimed' <= held',
         UNCHANGED <<controls, bar, signals, cut_short>>
  PROVE  TradingKept'
<1>1. /\ TradingTyped /\ StockOrdersKept /\ TasksKept /\ SentEntriesAreWatched
  BY DEF TradingKept
<1>2. stock_orders' \in Seq(StockOrder) /\ OneOrderPerDecision'
  BY <1>1, StockOrderGoesOn DEF StockGoesOn
<1>3. Ids' = Ids /\ \A j \in Ids : stock_orders'[j].of = stock_orders[j].of
      /\ RowIsTrue(stock_orders'[j])
  BY <1>1, StockOrderGoesOn DEF StockGoesOn
<1>4. stock_orders'[i] = x /\ \A j \in Ids \ {i} : stock_orders'[j] = stock_orders[j]
  BY <1>1, StockOrderGoesOn DEF StockGoesOn
<1>5. \A j \in Ids : stock_orders[j].of.type = "entry" /\ stock_orders'[j].at # "none" =>
                       stock_orders[j].at # "none"
  BY <1>3, <1>4 DEF StockGoesOn
<1>6. TradingTyped'
  BY <1>1, <1>2 DEF TradingTyped, DoneBeside
<1>7. StockOrdersKept'
  BY <1>1, <1>2, <1>3 DEF StockOrdersKept, OnRecord
<1>8. TasksKept'
  <2>1. runner'.phase = "sent" => \E j \in Ids' : stock_orders'[j].of = runner'.of
    BY <1>1, <1>3 DEF TasksKept, DoneBeside
  <2>2. monitor'.phase = "sent" => \E j \in Ids' : stock_orders'[j].of = monitor'.of
    <3>1. monitor'.phase = "sent" /\ monitor' = monitor =>
            \E j \in Ids : stock_orders[j].of = monitor'.of
      BY <1>1 DEF TasksKept
    <3> QED BY <1>3, <1>4, <3>1 DEF DoneBeside
  <2>3. runner'.phase = "refused" => runner' = runner
    BY DEF DoneBeside
  <2>4. ASSUME runner'.phase = "refused"
        PROVE  /\ signals'.entries[runner'.bar] # "executed"
               /\ \A j \in Ids' : stock_orders'[j].of = Decision("runner", "entry", runner'.bar) =>
                                    stock_orders'[j].at = "none"
    BY <1>1, <1>3, <1>5, <2>3, <2>4 DEF TasksKept, Decision
  <2> QED BY <2>1, <2>2, <2>4 DEF TasksKept
<1>9. SentEntriesAreWatched'
  <2>1. Executed' = Executed
    BY DEF Executed
  <2>2. ASSUME NEW j \in Ids, stock_orders[j].of.type = "entry", stock_orders'[j].at # "none"
        PROVE  \/ stock_orders[j].of.bar \in Executed \/ stock_orders[j].of.bar \in cut_short
               \/ runner'.phase \in {"sent", "answered"} /\ runner'.of = stock_orders[j].of
    <3>1. \/ stock_orders[j].of.bar \in Executed \/ stock_orders[j].of.bar \in cut_short
          \/ runner.phase \in {"sent", "answered"} /\ runner.of = stock_orders[j].of
      BY <1>1, <1>5, <2>2 DEF SentEntriesAreWatched
    <3> QED BY <3>1 DEF DoneBeside
  <2> QED BY <1>3, <2>1, <2>2 DEF SentEntriesAreWatched
<1> QED BY <1>6, <1>7, <1>8, <1>9 DEF TradingKept

\* An answer, for a task that waits for it.
LEMMA AnswerGoesOn ==
  ASSUME TradingKept, NEW d, NEW i \in Ids, stock_orders[i].of = d, NEW row \in AnswerRows,
         NEW task, task.of = d, Answer(task, row)
  PROVE  \E x : StockGoesOn(i, x) /\ x.of = d /\ Claimed' <= held
<1>1. TradingTyped /\ StockOrdersKept /\ OneOrderPerDecision /\ Claimed <= held
  BY DEF TradingKept, StockOrdersKept
<1>2. Last(task.of) = i
  BY <1>1, LastIsTheOnly
<1> DEFINE old == stock_orders[i]
           x == [old EXCEPT !.row = row, !.at = IF row = "ended" THEN "gone" ELSE old.at]
<1>3. old \in StockOrder /\ RowIsTrue(old) /\ old.of = d
  BY <1>1, OrdersAreTyped DEF StockOrdersKept
<1>4. row = "ended" => old.at = "sent"
  BY <1>2 DEF Answer
<1>5. /\ x \in StockOrder /\ x.of = old.of /\ x.side = old.side /\ x.quantity = old.quantity
      /\ x.row = row /\ x.at = IF row = "ended" THEN "gone" ELSE old.at
  BY <1>3 DEF StockOrder, AnswerRows, ActiveRows
<1>6. stock_orders' = [stock_orders EXCEPT ![i] = x]
  BY <1>1, <1>2, <1>3 DEF Answer, TradingTyped, StockOrder
<1>7. StockGoesOn(i, x)
  <2> HIDE DEF x
  <2>1. RowIsTrue(x)
    BY <1>5 DEF RowIsTrue, AnswerRows
  <2> QED BY <1>4, <1>5, <1>6, <2>1 DEF StockGoesOn
<1>8. Claimed' <= held
  <2> HIDE DEF x
  <2>1. /\ Claimed \in Nat /\ x.quantity \in Nat
        /\ i \in OpenSells => x.quantity <= Claimed
        /\ Claimed' = Claimed - (IF i \in OpenSells THEN x.quantity ELSE 0)
                              + (IF x.at = "open" /\ x.side = "sell" THEN x.quantity ELSE 0)
    BY <1>1, <1>7, StockOrderGoesOn DEF StockGoesOn
  <2>2. x.at = "open" /\ x.side = "sell" <=> i \in OpenSells
    BY <1>4, <1>5 DEF OpenSells
  <2>3. held \in Nat
    BY <1>1 DEF TradingTyped
  <2> QED BY <1>1, <2>1, <2>2, <2>3
<1> QED BY <1>3, <1>5, <1>7, <1>8
LEMMA AnswersKeep ==
  ASSUME TradingKept, RunnerAnswered \/ MonitorAnswered
  PROVE  TradingKept'
<1>1. /\ TradingTyped /\ TasksKept /\ runner \in RunnerTask /\ monitor \in MonitorTask
      /\ held \in Nat
  BY DEF TradingKept, TradingTyped
<1>2. CASE RunnerAnswered
  <2>1. PICK row \in AnswerRows : Answer(runner, row) /\ runner' = RunnerAnswer(row)
    BY <1>2 DEF RunnerAnswered
  <2>2. runner.phase = "sent"
    BY <2>1 DEF Answer
  <2>3. PICK i \in Ids : stock_orders[i].of = runner.of
    BY <1>1, <2>2 DEF TasksKept
  <2>4. PICK x : StockGoesOn(i, x) /\ x.of = runner.of /\ Claimed' <= held
    BY <2>1, <2>3, AnswerGoesOn
  <2>5. runner' = [phase |-> "answered", of |-> runner.of] /\ monitor' = monitor
    BY <1>2, <2>1 DEF RunnerAnswered, RunnerAnswer
  <2>6. DoneBeside(x.of)
    <3>1. runner.of \in Decisions
      BY <1>1, <2>2, TasksAreTyped
    <3> QED BY <1>1, <2>2, <2>5, <3>1 DEF DoneBeside, RunnerTask
  <2> QED BY <1>1, <1>2, <2>4, <2>6, OrderStepKeeps DEF RunnerAnswered
<1>3. CASE MonitorAnswered
  <2>1. PICK row \in AnswerRows :
          /\ Answer(monitor, row)
          /\ monitor' = IF row = "submission_unknown" THEN NoTask
                        ELSE [monitor EXCEPT !.phase = "answered"]
    BY <1>3 DEF MonitorAnswered
  <2>2. monitor.phase = "sent"
    BY <2>1 DEF Answer
  <2>3. PICK i \in Ids : stock_orders[i].of = monitor.of
    BY <1>1, <2>2 DEF TasksKept
  <2>4. PICK x : StockGoesOn(i, x) /\ x.of = monitor.of /\ Claimed' <= held
    BY <2>1, <2>3, AnswerGoesOn
  <2>5. monitor' \in MonitorTask /\ monitor'.phase # "sent"
    <3>1. monitor \in [phase : {"sent", "answered"}, of : Decisions, type : ExitTypes]
      BY <1>1, <2>2 DEF MonitorTask, NoTask
    <3> QED BY <2>1, <3>1 DEF MonitorTask, NoTask
  <2>6. DoneBeside(x.of)
    BY <1>1, <1>3, <2>5 DEF DoneBeside, MonitorAnswered
  <2> QED BY <1>1, <1>3, <2>4, <2>6, OrderStepKeeps DEF MonitorAnswered
<1> QED BY <1>2, <1>3

\* An order is sent, arrives, is filled, ends or is looked up.
MovesOn(i, old, row, at) ==
  /\ old = stock_orders[i]
  /\ stock_orders' = [stock_orders EXCEPT ![i] = [old EXCEPT !.row = row, !.at = at]]
  /\ \/ old.at = "none" /\ row = "submission_unknown" /\ at = "sent" /\ old.of.type # "entry"
     \/ old.at = "sent" /\ row = old.row /\ at \in {"open", "gone"}
     \/ old.at = "open" /\ row = old.row /\ at = "gone"
     \/ old.at = "gone" /\ row = "ended" /\ at = "gone"
  /\ \/ held' = held
     \/ /\ old.at = "open"
        /\ held' = IF old.side = "buy" THEN held + old.quantity ELSE held - old.quantity
  /\ at = "open" /\ old.side = "sell" => old.quantity <= held - Claimed
  /\ monitor' \in MonitorTask
  /\ monitor'.phase = "sent" => monitor' = monitor \/ monitor'.of = old.of
  /\ UNCHANGED <<controls, bar, signals, runner, cut_short>>

LEMMA MovesOnKeeps ==
  ASSUME TradingKept, NEW i \in Ids, NEW old, NEW row, NEW at, MovesOn(i, old, row, at)
  PROVE  TradingKept'
<1>1. /\ TradingTyped /\ StockOrdersKept /\ runner \in RunnerTask /\ held \in Nat /\ Claimed <= held
  BY DEF TradingKept, TradingTyped
<1> DEFINE x == [old EXCEPT !.row = row, !.at = at]
<1>2. old = stock_orders[i] /\ old \in StockOrder /\ RowIsTrue(old)
  BY <1>1, OrdersAreTyped DEF StockOrdersKept, MovesOn
<1>3. /\ x \in StockOrder /\ x.of = old.of /\ x.side = old.side /\ x.quantity = old.quantity
      /\ x.row = row /\ x.at = at
  BY <1>2 DEF StockOrder, ActiveRows, MovesOn
<1>4. StockGoesOn(i, x)
  <2> HIDE DEF x
  <2>1. RowIsTrue(x)
    BY <1>2, <1>3 DEF RowIsTrue, MovesOn
  <2>2. stock_orders' = [stock_orders EXCEPT ![i] = x]
    BY DEF x, MovesOn
  <2> QED BY <1>2, <1>3, <2>1, <2>2 DEF StockGoesOn, MovesOn
<1>5. Claimed' <= held' /\ held' \in Nat
  <2> HIDE DEF x
  <2>1. /\ Claimed \in Nat /\ x.quantity \in Nat
        /\ i \in OpenSells => x.quantity <= Claimed
        /\ Claimed' = Claimed - (IF i \in OpenSells THEN x.quantity ELSE 0)
                              + (IF x.at = "open" /\ x.side = "sell" THEN x.quantity ELSE 0)
    BY <1>1, <1>4, StockOrderGoesOn DEF StockGoesOn
  <2>2. i \in OpenSells <=> old.at = "open" /\ x.side = "sell"
    BY <1>2, <1>3 DEF OpenSells
  <2>3. x.side \in {"buy", "sell"}
    BY <1>3 DEF StockOrder
  <2> QED BY <1>1, <1>3, <2>1, <2>2, <2>3 DEF MovesOn
<1>6. DoneBeside(x.of)
  <2> HIDE DEF x
  <2> QED BY <1>1, <1>2, <1>3 DEF DoneBeside, MovesOn
<1> QED BY <1>4, <1>5, <1>6, OrderStepKeeps DEF MovesOn
LEMMA BrokerStepsKeep ==
  ASSUME TradingKept, NEW i \in Ids, OrderArrives(i) \/ Fills(i) \/ Ends(i) \/ Reconcile(i)
  PROVE  TradingKept'
<1>1. /\ TradingTyped /\ monitor \in MonitorTask
  BY DEF TradingKept, TradingTyped
<1>2. PICK old : old = stock_orders[i]
  OBVIOUS
<1>3. old \in StockOrder
  BY <1>1, <1>2, OrdersAreTyped
<1>4. CASE OrderArrives(i)
  <2>1. MovesOn(i, old, old.row, "open")
    BY <1>1, <1>2, <1>3, <1>4 DEF MovesOn, OrderArrives, StockOrder, Position
  <2> QED BY <2>1, MovesOnKeeps
<1>5. CASE Fills(i)
  <2>1. MovesOn(i, old, old.row, "gone")
    BY <1>1, <1>2, <1>3, <1>5 DEF MovesOn, Fills, StockOrder
  <2> QED BY <2>1, MovesOnKeeps
<1>6. CASE Ends(i)
  <2>1. MovesOn(i, old, old.row, "gone")
    BY <1>1, <1>2, <1>3, <1>6 DEF MovesOn, Ends, StockOrder
  <2> QED BY <2>1, MovesOnKeeps
<1>7. CASE Reconcile(i)
  <2>1. MovesOn(i, old, "ended", "gone")
    BY <1>1, <1>2, <1>3, <1>7 DEF MovesOn, Reconcile, StockOrder
  <2> QED BY <2>1, MovesOnKeeps
<1> QED BY <1>4, <1>5, <1>6, <1>7

LEMMA MonitorOrdersKeep ==
  ASSUME TradingKept, NEW type \in ExitTypes, MonitorDispatches(type) \/ MonitorBlocked(type)
  PROVE  TradingKept'
<1>1. /\ TradingTyped /\ StockOrdersKept /\ ExitWanted(type)
  BY DEF TradingKept, MonitorDispatches, MonitorBlocked
<1>2. MonitorDecision \in Decisions
  BY <1>1, LastIsExecuted DEF ExitWanted
<1>3. CASE MonitorDispatches(type) /\ Standing(type) = {}
  <2>1. monitor' \in MonitorTask /\ monitor'.of = MonitorDecision
    BY <1>2, <1>3 DEF MonitorDispatches, MonitorTask
  <2> QED BY <1>1, <1>3, <2>1, MonitorOrderKeeps DEF MonitorDispatches, Dispatched
<1>4. CASE MonitorDispatches(type) /\ Standing(type) # {}
  <2>1. PICK i \in Standing(type) :
          /\ stock_orders[i].row = "pending_intent"
          /\ stock_orders' = [stock_orders EXCEPT ![i].row = "submission_unknown", ![i].at = "sent"]
    BY <1>4 DEF MonitorDispatches
  <2>2. i \in Ids /\ stock_orders[i].of = MonitorDecision /\ stock_orders[i].at = "none"
    BY <1>1, <2>1 DEF Standing, StockOrdersKept, RowIsTrue
  <2>3. PICK old : old = stock_orders[i]
    OBVIOUS
  <2>4. old \in StockOrder /\ old.of.type # "entry"
    BY <1>1, <2>2, <2>3, OrdersAreTyped DEF MonitorDecision, Decision
  <2>5. monitor' \in MonitorTask /\ monitor'.of = MonitorDecision
    BY <1>2, <1>4 DEF MonitorDispatches, MonitorTask
  <2>6. MovesOn(i, old, "submission_unknown", "sent")
    BY <1>4, <2>1, <2>2, <2>3, <2>4, <2>5 DEF MovesOn, MonitorDispatches, StockOrder
  <2> QED BY <2>2, <2>6, MovesOnKeeps
<1>5. CASE MonitorBlocked(type)
  <2>1. monitor' \in MonitorTask /\ monitor'.phase # "sent"
    BY <1>5 DEF MonitorBlocked, MonitorTask, NoTask
  <2> QED BY <1>1, <1>5, <2>1, MonitorOrderKeeps DEF MonitorBlocked
<1> QED BY <1>3, <1>4, <1>5

-----------------------------------------------------------------------------
LEMMA TradingBegins == TradingInit => TradingKept
<1> SUFFICES ASSUME TradingInit PROVE TradingKept
  OBVIOUS
<1>1. stock_orders = <<>> /\ Ids = {} /\ OpenSells = {} /\ held = 0
  BY DEF TradingInit, Ids, OpenSells
<1>2. Claimed = 0
  <2>1. UNION {{i} \X (1 .. stock_orders[i].quantity) : i \in OpenSells} = {}
    BY <1>1
  <2> QED BY <2>1, FS_EmptySet DEF Claimed
<1>3. TradingTyped
  BY <1>1, BarsAndShares DEF TradingInit, TradingTyped, Bars, RunnerTask, MonitorTask
<1>4. StockOrdersKept /\ TasksKept /\ SentEntriesAreWatched
  BY <1>1 DEF TradingInit, StockOrdersKept, OneOrderPerDecision, TasksKept, NoTask,
              SentEntriesAreWatched
<1> QED BY <1>1, <1>2, <1>3, <1>4 DEF TradingKept

LEMMA TradingGoesOn == TradingKept /\ TradingNext => TradingKept'
  BY LooksKeep, RunnerSavesKeeps, MonitorSavesKeeps, RunnerOrdersKeep, MonitorOrdersKeep,
     AnswersKeep, BrokerStepsKeep DEF TradingNext

LEMMA TradingStays == TradingKept /\ UNCHANGED trading_vars => TradingKept'
<1> SUFFICES ASSUME TradingKept, UNCHANGED trading_vars PROVE TradingKept'
  OBVIOUS
<1>1. /\ Ids' = Ids /\ Claimed' = Claimed /\ StockOrdersKept' /\ Executed' = Executed
  BY OrdersStayKept DEF trading_vars
<1> QED BY <1>1 DEF trading_vars, TradingKept, TradingTyped, TasksKept, SentEntriesAreWatched

LEMMA DecisionsAreKeptThen == TradingKept => DecisionsAreKept
<1> SUFFICES ASSUME TradingKept PROVE DecisionsAreKept
  OBVIOUS
<1>1. TradingTyped /\ StockOrdersKept /\ SentEntriesAreWatched
  BY DEF TradingKept
<1>2. \A i \in Ids : stock_orders[i] \in StockOrder /\ RowIsTrue(stock_orders[i])
  BY <1>1, OrdersAreTyped DEF StockOrdersKept
<1>3. TradingTypeOK
  BY <1>1, <1>2, TasksAreTyped DEF TradingTypeOK, TradingTyped, StockOrder, RowIsTrue
<1> QED BY <1>1, <1>3 DEF DecisionsAreKept, StockOrdersKept

\* Only an entry of the runner is a buy, sent when none before it is active.
LEMMA EarlierEntriesAreOverThen == TradingKept /\ TradingNext => EarlierEntriesAreOver
<1> SUFFICES ASSUME TradingKept, TradingNext, Len(stock_orders') > Len(stock_orders),
                    stock_orders'[Len(stock_orders')].at = "sent",
                    stock_orders'[Len(stock_orders')].side = "buy",
                    NEW i \in Ids, stock_orders[i].side = "buy"
             PROVE  stock_orders[i].at \in {"none", "gone"}
  BY DEF EarlierEntriesAreOver
<1>1. TradingTyped /\ Len(stock_orders) \in Nat /\ StockOrdersKept
  BY DEF TradingKept, TradingTyped
<1>2. ASSUME NEW x, stock_orders' = Append(stock_orders, x) PROVE x.side = "buy"
  <2>1. stock_orders'[Len(stock_orders')] = x
    BY <1>1, <1>2 DEF TradingTyped
  <2> QED BY <2>1
<1>3. ASSUME NEW j \in Ids, NEW x, stock_orders' = [stock_orders EXCEPT ![j] = x] PROVE FALSE
  <2>1. Len(stock_orders') = Len(stock_orders)
    BY <1>1, <1>3 DEF TradingTyped
  <2> QED BY <1>1, <2>1
<1>4. stock_orders' # stock_orders
  BY <1>1
<1>5. ASSUME NEW task, NEW row \in AnswerRows, Answer(task, row),
             \E j \in Ids : stock_orders[j].of = task.of
      PROVE  FALSE
  <2>1. PICK j \in Ids : stock_orders[j].of = task.of
    BY <1>5
  <2>2. PICK x : StockGoesOn(j, x)
    BY <1>5, <2>1, AnswerGoesOn
  <2> QED BY <1>3, <2>1, <2>2 DEF StockGoesOn
<1>6. ~RunnerAnswered /\ ~MonitorAnswered
  BY <1>5 DEF RunnerAnswered, MonitorAnswered, Answer, TradingKept, TasksKept
<1>7. ASSUME NEW j \in Ids PROVE ~(OrderArrives(j) \/ Fills(j) \/ Ends(j) \/ Reconcile(j))
  BY <1>1, <1>3 DEF OrderArrives, Fills, Ends, Reconcile, TradingTyped
<1>8. ASSUME NEW type \in ExitTypes
      PROVE  ~(DispatchExit(type) \/ MonitorDispatches(type) \/ MonitorBlocked(type))
  <2>1. ~(DispatchExit(type) \/ MonitorBlocked(type))
    BY <1>2 DEF DispatchExit, MonitorBlocked, Dispatched, Order
  <2>2. ~(MonitorDispatches(type) /\ Standing(type) = {})
    BY <1>2 DEF MonitorDispatches, Dispatched, Order
  <2>3. ASSUME MonitorDispatches(type), Standing(type) # {} PROVE FALSE
    <3>1. PICK j \in Standing(type) : stock_orders' =
             [stock_orders EXCEPT ![j].row = "submission_unknown", ![j].at = "sent"]
      BY <2>3 DEF MonitorDispatches
    <3>2. Len(stock_orders') = Len(stock_orders)
      BY <1>1, <3>1 DEF TradingTyped
    <3> QED BY <1>1, <3>2
  <2> QED BY <2>1, <2>2, <2>3
<1>9. DispatchEntry \/ BlockEntry
  BY <1>4, <1>6, <1>7, <1>8
     DEF TradingNext, RunnerReads, RunnerPasses, RefuseEntry, RunnerSaves, RunnerDies,
         MonitorReads, MonitorPasses, MonitorSaves, MonitorDies, SetTradingControls, NextBar
<1>10. stock_orders[i].row \notin ActiveRows
  BY <1>9 DEF DispatchEntry, BlockEntry, NoActiveBuy
<1>11. stock_orders[i].row = "ended"
  BY <1>1, <1>10, OrdersAreTyped DEF StockOrder
<1> QED BY <1>1, <1>11 DEF StockOrdersKept, RowIsTrue

\* Every decision is on record before its order, every order a row says nothing more
\* of has ended, and open sells never claim more than is held (_create_signal_once,
\* create_order_intent, submit_order, and the broker's maxSell).
THEOREM TradingIsKept == TradingSpec => []TradingKept
<1>1. TradingInit => TradingKept
  BY TradingBegins
<1>2. TradingKept /\ [TradingNext]_trading_vars => TradingKept'
  BY TradingGoesOn, TradingStays
<1> QED BY <1>1, <1>2, PTL DEF TradingSpec

\* Runner and monitor never make a second order for an entry, an exit on a bar or the
\* exit of an entry, whichever run dies or is repeated, and an entry that was sent is
\* watched unless its run died (_create_signal_once, create_order_intent).
THEOREM DecisionsAreAlwaysKept == TradingSpec => []DecisionsAreKept
<1>1. TradingKept => DecisionsAreKept
  BY DecisionsAreKeptThen
<1> QED BY <1>1, TradingIsKept, PTL

\* No step sends an entry while an earlier one works at the broker or nobody knows what
\* became of it (check_duplicate_order).
THEOREM EntriesWaitForEachOther == TradingSpec => NoEntryOverAnother
<1>1. TradingKept /\ TradingNext => EarlierEntriesAreOver
  BY EarlierEntriesAreOverThen
<1>2. TradingKept /\ [TradingNext]_trading_vars => [EarlierEntriesAreOver]_trading_vars
  BY <1>1
<1> QED BY <1>2, TradingIsKept, PTL DEF TradingSpec, NoEntryOverAnother

(***************************************************************************)
(* The admission of entries.                                               *)
(***************************************************************************)
-----------------------------------------------------------------------------
\* A total is a sum as that of the shares of a rebalance is.
LEMMA TotalIsSum ==
  ASSUME NEW f
  PROVE  Total(f) = Sum(f)
  BY DEF Total, Sum

LEMMA CapsAreNumbers ==
  ASSUME NEW regime
  PROVE  _regime_gross_cap(regime) \in Nat /\ _regime_run_risk_cap(regime) \in Nat
<1>1. /\ BASE_GROSS_EXPOSURE \in Nat /\ VOLATILE_GROSS_EXPOSURE \in Nat
      /\ RISK_OFF_GROSS_EXPOSURE \in Nat /\ MAX_RUN_RISK \in Nat
      /\ TRENDING_DOWN_GROSS \in Nat /\ RISK_OFF_RUN_RISK \in Nat /\ VOLATILE_RUN_RISK \in Nat
  BY CandidatesAndCaps
<1>2. CASE regime \in {"unsafe", "low_liquidity"}
  BY <1>2 DEF _regime_gross_cap, _regime_run_risk_cap
<1>3. CASE regime = "risk_off"
  BY <1>1, <1>3 DEF _regime_gross_cap, _regime_run_risk_cap, LesserOf
<1>4. CASE regime \in {"volatile", "news_driven"}
  BY <1>1, <1>4 DEF _regime_gross_cap, _regime_run_risk_cap, LesserOf
<1>5. CASE regime = "trending_down"
  BY <1>1, <1>5 DEF _regime_gross_cap, _regime_run_risk_cap, LesserOf
<1>6. CASE regime \notin {"unsafe", "low_liquidity", "risk_off", "volatile", "news_driven",
                         "trending_down"}
  BY <1>1, <1>6 DEF _regime_gross_cap, _regime_run_risk_cap
<1> QED
  BY <1>2, <1>3, <1>4, <1>5, <1>6

LEMMA ExposureIsNatural ==
  ASSUME NEW values \in [EntryTickers -> Nat]
  PROVE  _gross_exposure(values) \in Nat
  BY CandidatesAndCaps, SumIsNatural, TotalIsSum DEF _gross_exposure

LEMMA CandidatesAreTyped ==
  ASSUME NEW entry \in EntryCandidates
  PROVE  /\ entry.ticker \in EntryTickers /\ entry.notional \in Nat /\ entry.risk \in Nat
         /\ entry.live \in BOOLEAN
  BY CandidatesAndCaps

\* What a day's orders add up to is finite.
LEMMA DaysAreFinite ==
  ASSUME day_orders \in Seq(DayOrder), NEW first
  PROVE  /\ IsFiniteSet(SentSince(first)) /\ SentSince(first) \subseteq DayIds
         /\ [i \in SentSince(first) |-> day_orders[i].notional] \in [SentSince(first) -> Nat]
         /\ [i \in SentSince(first) |-> day_orders[i].risk] \in [SentSince(first) -> Nat]
         /\ NotionalSince(first) \in Nat /\ RiskSince(first) \in Nat
         /\ IsFiniteSet(DayEntries) /\ Cardinality(DayEntries) \in Nat
<1>1. IsFiniteSet(DayIds)
  BY FS_Interval DEF DayIds
<1>2. SentSince(first) \subseteq DayIds /\ DayEntries \subseteq DayIds
  BY DEF SentSince, DayEntries, EntryBuys
<1>3. IsFiniteSet(SentSince(first)) /\ IsFiniteSet(DayEntries)
  BY <1>1, <1>2, FS_Subset
<1>4. \A i \in DayIds : day_orders[i] \in DayOrder
  BY DEF DayIds
<1>5. PICK f : f = [i \in SentSince(first) |-> day_orders[i].notional]
  OBVIOUS
<1>6. PICK g : g = [i \in SentSince(first) |-> day_orders[i].risk]
  OBVIOUS
<1>7. f \in [SentSince(first) -> Nat] /\ g \in [SentSince(first) -> Nat]
  BY <1>2, <1>4, <1>5, <1>6 DEF DayOrder
<1>8. NotionalSince(first) \in Nat /\ RiskSince(first) \in Nat
  BY <1>3, <1>5, <1>6, <1>7, SumIsNatural, TotalIsSum DEF NotionalSince, RiskSince
<1> QED
  BY <1>2, <1>3, <1>5, <1>6, <1>7, <1>8, FS_CardinalityType

\* An order that is answered is the same order.
OrdersRemain ==
  /\ Len(day_orders') = Len(day_orders)
  /\ \A i \in DayIds :
       /\ day_orders'[i].ticker = day_orders[i].ticker /\ day_orders'[i].side = day_orders[i].side
       /\ day_orders'[i].notional = day_orders[i].notional
       /\ day_orders'[i].risk = day_orders[i].risk /\ day_orders'[i].by = day_orders[i].by
       /\ day_orders'[i].status # "ended" => day_orders[i].status # "ended"

\* A step that leaves what the runner sent as it is leaves what that adds up to.
LEMMA SameOrdersAddUp ==
  ASSUME EntryBuys("runner")' = EntryBuys("runner"),
         \A i \in EntryBuys("runner") :
           /\ day_orders'[i].ticker = day_orders[i].ticker
           /\ day_orders'[i].notional = day_orders[i].notional
           /\ day_orders'[i].risk = day_orders[i].risk,
         NEW r, RunAddsUp(r), r.first <= Len(day_orders') + 1
  PROVE  RunAddsUp(r)'
<1>1. SentSince(r.first)' = SentSince(r.first) /\ SentSince(r.first) \subseteq EntryBuys("runner")
  BY DEF SentSince
<1>2. [i \in SentSince(r.first)' |-> day_orders'[i].notional]
        = [i \in SentSince(r.first) |-> day_orders[i].notional]
  BY <1>1
<1>3. [i \in SentSince(r.first)' |-> day_orders'[i].risk]
        = [i \in SentSince(r.first) |-> day_orders[i].risk]
  BY <1>1
<1>4. NotionalSince(r.first)' = NotionalSince(r.first)
  <2>1. Total([i \in SentSince(r.first)' |-> day_orders'[i].notional]) = NotionalSince(r.first)
    BY <1>2 DEF NotionalSince
  <2> QED
    BY <2>1 DEF NotionalSince, Total
<1>6. RiskSince(r.first)' = RiskSince(r.first)
  <2>1. Total([i \in SentSince(r.first)' |-> day_orders'[i].risk]) = RiskSince(r.first)
    BY <1>3 DEF RiskSince
  <2> QED
    BY <2>1 DEF RiskSince, Total
<1>5. \A i \in SentSince(r.first) : day_orders'[i].ticker = day_orders[i].ticker
  BY <1>1
<1> QED
  BY <1>1, <1>4, <1>5, <1>6
     DEF RunAddsUp, _gross_exposure, Total, _regime_gross_cap, _regime_run_risk_cap

LEMMA AnswersChangeNoTotal ==
  ASSUME day_orders \in Seq(DayOrder), OrdersRemain
  PROVE  /\ \A r : RunAddsUp(r) => RunAddsUp(r)'
         /\ Cardinality(DayEntries') \in Nat
         /\ Cardinality(DayEntries') <= Cardinality(DayEntries)
<1>1. DayIds' = DayIds
  BY DEF OrdersRemain, DayIds
<1>2. \A by : EntryBuys(by)' = EntryBuys(by) /\ EntryBuys(by) \subseteq DayIds
  BY <1>1 DEF OrdersRemain, EntryBuys
<1>3. DayEntries' \subseteq DayEntries
  BY <1>2 DEF OrdersRemain, DayEntries, EntryBuys
<1>4. IsFiniteSet(DayEntries) /\ Cardinality(DayEntries) \in Nat
  BY DaysAreFinite
<1>5. /\ IsFiniteSet(DayEntries') /\ Cardinality(DayEntries') \in Nat
      /\ Cardinality(DayEntries') <= Cardinality(DayEntries)
  BY <1>3, <1>4, FS_Subset, FS_CardinalityType
<1>6. ASSUME NEW r, RunAddsUp(r) PROVE RunAddsUp(r)'
  <2>1. r.first <= Len(day_orders') + 1
    BY <1>6 DEF RunAddsUp, OrdersRemain
  <2> QED
    BY <1>2, <1>6, <2>1, SameOrdersAddUp DEF OrdersRemain
<1> QED
  BY <1>5, <1>6

\* One more order of the day.
IsAdded(o) == o \in DayOrder /\ day_orders' = Append(day_orders, o)

LEMMA OneMoreOrder ==
  ASSUME day_orders \in Seq(DayOrder), NEW o, IsAdded(o)
  PROVE  /\ day_orders' \in Seq(DayOrder) /\ Len(day_orders') = Len(day_orders) + 1
         /\ Len(day_orders) \in Nat
         /\ \A i \in DayIds : day_orders'[i] = day_orders[i]
         /\ day_orders'[Len(day_orders) + 1] = o
         /\ DayIds' = DayIds \union {Len(day_orders) + 1} /\ Len(day_orders) + 1 \notin DayIds
  BY DEF IsAdded, DayIds

\* It is of a run's if the runner bought by it, and of the day's entries if it is live.
LEMMA OneMoreEntry ==
  ASSUME day_orders \in Seq(DayOrder), NEW o, IsAdded(o), o.side = "buy", o.by = "runner",
         NEW first \in Nat, first <= Len(day_orders) + 1
  PROVE  /\ SentSince(first)' = SentSince(first) \union {Len(day_orders) + 1}
         /\ NotionalSince(first)' = NotionalSince(first) + o.notional
         /\ RiskSince(first)' = RiskSince(first) + o.risk
<1>1. PICK n : n = Len(day_orders) + 1
  OBVIOUS
<1>2. /\ n \in Nat /\ first <= n /\ n \notin DayIds
      /\ day_orders' \in Seq(DayOrder) /\ DayIds' = DayIds \union {n}
      /\ \A i \in DayIds : day_orders'[i] = day_orders[i]
      /\ day_orders'[n] = o
  BY <1>1, OneMoreOrder
<1>3. EntryBuys("runner")' = EntryBuys("runner") \union {n}
  BY <1>2 DEF EntryBuys
<1>4. SentSince(first)' = SentSince(first) \union {n}
  BY <1>2, <1>3 DEF SentSince
<1>5. PICK S : S = SentSince(first)
  OBVIOUS
<1>6. PICK T : T = SentSince(first)'
  OBVIOUS
<1>7. T = S \union {n} /\ S \subseteq DayIds /\ n \notin S /\ IsFiniteSet(S)
  BY <1>2, <1>4, <1>5, <1>6, DaysAreFinite
<1>8. IsFiniteSet(T)
  BY <1>7, FS_AddElement
<1>9. o.notional \in Nat /\ o.risk \in Nat
  BY DEF IsAdded, DayOrder
<1>10. ASSUME NEW x \in {"notional", "risk"}
       PROVE  Sum([i \in T |-> day_orders'[i][x]]) = Sum([i \in S |-> day_orders[i][x]]) + o[x]
  <2>1. PICK f : f = [i \in S |-> day_orders[i][x]]
    OBVIOUS
  <2>2. PICK g : g = [i \in T |-> day_orders'[i][x]]
    OBVIOUS
  <2>3. \A i \in DayIds : day_orders[i][x] \in Nat
    <3>1. \A i \in DayIds : day_orders[i] \in DayOrder
      BY DEF DayIds
    <3>2. \A i \in DayIds : day_orders[i].notional \in Nat /\ day_orders[i].risk \in Nat
      BY <3>1 DEF DayOrder
    <3> QED
      BY <3>2
  <2>4. f \in [S -> Nat]
    BY <1>7, <2>1, <2>3
  <2>5. g \in [T -> Nat]
    BY <1>2, <1>7, <1>9, <2>2, <2>3
  <2>6. S \ {n} = T \ {n} /\ \A i \in S \ {n} : f[i] = g[i]
    BY <1>2, <1>7, <2>1, <2>2
  <2>7. Sum(g) = Sum(f) - (IF n \in S THEN f[n] ELSE 0) + (IF n \in T THEN g[n] ELSE 0)
    BY <1>7, <1>8, <2>4, <2>5, <2>6, SumChange
  <2>8. Sum(f) \in Nat
    BY <1>7, <2>4, SumIsNatural
  <2>9. g[n] = o[x] /\ o[x] \in Nat
    BY <1>2, <1>7, <1>9, <2>2
  <2> QED
    BY <1>7, <2>1, <2>2, <2>7, <2>8, <2>9
<1>11. NotionalSince(first) = Sum([i \in S |-> day_orders[i].notional])
  BY <1>5, TotalIsSum DEF NotionalSince
<1>12. RiskSince(first) = Sum([i \in S |-> day_orders[i].risk])
  BY <1>5, TotalIsSum DEF RiskSince
<1>13. NotionalSince(first)' = Sum([i \in T |-> day_orders'[i].notional])
  BY <1>6 DEF NotionalSince, Total, Sum
<1>14. RiskSince(first)' = Sum([i \in T |-> day_orders'[i].risk])
  BY <1>6 DEF RiskSince, Total, Sum
<1>15. Sum([i \in T |-> day_orders'[i].notional]) = Sum([i \in S |-> day_orders[i].notional]) + o.notional
  BY <1>10
<1>16. Sum([i \in T |-> day_orders'[i].risk]) = Sum([i \in S |-> day_orders[i].risk]) + o.risk
  BY <1>10
<1> QED
  BY <1>1, <1>4, <1>11, <1>12, <1>13, <1>14, <1>15, <1>16

\* An order that is not of the runner's adds nothing to what the runner sent.
LEMMA OneMoreOfAnother ==
  ASSUME day_orders \in Seq(DayOrder), NEW o, IsAdded(o), o.by # "runner"
  PROVE  \A r \in EntryRun : RunAddsUp(r) => RunAddsUp(r)'
<1>1. PICK n : n = Len(day_orders) + 1
  OBVIOUS
<1>2. /\ n \in Nat /\ n \notin DayIds /\ Len(day_orders') = n /\ Len(day_orders) \in Nat
      /\ DayIds' = DayIds \union {n}
      /\ \A i \in DayIds : day_orders'[i] = day_orders[i]
      /\ day_orders'[n] = o
  BY <1>1, OneMoreOrder
<1>3. EntryBuys("runner")' = EntryBuys("runner") /\ EntryBuys("runner") \subseteq DayIds
  BY <1>2 DEF EntryBuys
<1>4. ASSUME NEW r \in EntryRun, RunAddsUp(r) PROVE RunAddsUp(r)'
  <2>1. r.first \in Nat /\ r.first <= Len(day_orders) + 1
    BY <1>4 DEF EntryRun, RunAddsUp
  <2>2. r.first <= Len(day_orders') + 1
    BY <1>1, <1>2, <2>1
  <2> QED
    BY <1>2, <1>3, <1>4, <2>2, SameOrdersAddUp
<1> QED
  BY <1>4

\* It adds at most one to the day's entries, and an exit nothing.
LEMMA OneMoreOfTheDay ==
  ASSUME day_orders \in Seq(DayOrder), NEW o, IsAdded(o)
  PROVE  /\ Cardinality(DayEntries') \in Nat
         /\ Cardinality(DayEntries') <= Cardinality(DayEntries) + (IF o.side = "buy" THEN 1 ELSE 0)
<1>1. PICK n : n = Len(day_orders) + 1
  OBVIOUS
<1>2. /\ n \in Nat /\ n \notin DayIds
      /\ DayIds' = DayIds \union {n}
      /\ \A i \in DayIds : day_orders'[i] = day_orders[i]
      /\ day_orders'[n] = o
  BY <1>1, OneMoreOrder
<1>3. DayEntries' \subseteq DayEntries \union (IF o.side = "buy" THEN {n} ELSE {})
  BY <1>2 DEF DayEntries, EntryBuys
<1>4. DayEntries \subseteq DayIds /\ IsFiniteSet(DayEntries) /\ Cardinality(DayEntries) \in Nat
  BY DaysAreFinite DEF DayEntries, EntryBuys
<1>5. /\ IsFiniteSet(DayEntries \union {n})
      /\ Cardinality(DayEntries \union {n}) = Cardinality(DayEntries) + 1
  BY <1>2, <1>4, FS_AddElement
<1>6. CASE o.side = "buy"
  BY <1>3, <1>4, <1>5, <1>6, FS_Subset, FS_CardinalityType
<1>7. CASE o.side # "buy"
  <2>1. DayEntries' \subseteq DayEntries
    BY <1>3, <1>7
  <2> QED
    BY <1>4, <1>7, <2>1, FS_Subset, FS_CardinalityType
<1> QED
  BY <1>6, <1>7

\* What is allocated stays within the caps, with what was allocated before it.
LEMMA AllocationKeepsCaps ==
  ASSUME AdmissionTyped, entry_run # NoEntryRun, RunAddsUp(entry_run),
         NEW entry \in EntryCandidates, Signalled(entry), _decide(entry)
  PROVE  /\ Allocated(entry) \in EntryRun /\ RunAddsUp(Allocated(entry))
         /\ LET r == [Allocated(entry) EXCEPT !.phase = "admitted", !.for = {entry}]
            IN  r \in EntryRun /\ RunAddsUp(r)
<1>1. PICK old : old = entry_run
  OBVIOUS
<1>2. PICK r : r = Allocated(entry)
  OBVIOUS
<1>3. PICK s : s = [r EXCEPT !.phase = "admitted", !.for = {entry}]
  OBVIOUS
<1>4. old \in EntryRun /\ old.phase = "read" /\ RunAddsUp(old)
  BY <1>1 DEF AdmissionTyped, Signalled
<1>5. /\ entry.ticker \in EntryTickers /\ entry.notional \in Nat /\ entry.risk \in Nat
  BY CandidatesAreTyped
<1>6. r = [old EXCEPT !.accepted = @ \union {entry.ticker}, !.value = @ + entry.notional,
                      !.risk = @ + entry.risk]
  BY <1>1, <1>2 DEF Allocated
<1>7. /\ r \in EntryRun /\ r.phase = "read" /\ r.for = old.for /\ r.seen = old.seen
      /\ r.regime = old.regime /\ r.first = old.first
      /\ r.accepted = old.accepted \union {entry.ticker}
      /\ r.value = old.value + entry.notional /\ r.risk = old.risk + entry.risk
  <2>1. /\ old.accepted \union {entry.ticker} \in SUBSET EntryTickers
        /\ old.value + entry.notional \in Nat /\ old.risk + entry.risk \in Nat
    BY <1>4, <1>5 DEF EntryRun
  <2>2. PICK a, v, k : a = old.accepted \union {entry.ticker} /\ v = old.value + entry.notional
                         /\ k = old.risk + entry.risk
    OBVIOUS
  <2>3. r = [old EXCEPT !.accepted = a, !.value = v, !.risk = k]
    BY <1>6, <2>2
  <2>4. a \in SUBSET EntryTickers /\ v \in Nat /\ k \in Nat
    BY <2>1, <2>2
  <2> QED
    BY <1>4, <2>2, <2>3, <2>4 DEF EntryRun
<1>8. /\ s \in EntryRun /\ s.phase = "admitted" /\ s.for = {entry} /\ s.seen = r.seen
      /\ s.regime = r.regime /\ s.first = r.first /\ s.accepted = r.accepted
      /\ s.value = r.value /\ s.risk = r.risk
  BY <1>3, <1>7 DEF EntryRun
<1>9. /\ entry.ticker \notin old.accepted
      /\ _gross_exposure(old.seen) + old.value + entry.notional <= _regime_gross_cap(old.regime)
      /\ old.risk + entry.risk <= _regime_run_risk_cap(old.regime)
  BY <1>1 DEF _decide
<1>10. /\ _gross_exposure(old.seen) \in Nat /\ _regime_gross_cap(old.regime) \in Nat
       /\ old.value \in Nat /\ old.risk \in Nat
  BY <1>4, ExposureIsNatural, CapsAreNumbers DEF EntryRun
<1>11. /\ _gross_exposure(r.seen) + r.value <= _regime_gross_cap(r.regime)
       /\ r.risk <= _regime_run_risk_cap(r.regime)
  BY <1>5, <1>7, <1>9, <1>10
<1>12. /\ NotionalSince(old.first) \in Nat /\ RiskSince(old.first) \in Nat
  BY DaysAreFinite DEF AdmissionTyped
<1>13. /\ old.first <= Len(day_orders) + 1
       /\ \A i \in SentSince(old.first) : day_orders[i].ticker \in old.accepted
       /\ \A i, j \in SentSince(old.first) : day_orders[i].ticker = day_orders[j].ticker => i = j
       /\ old.for = {} /\ NotionalSince(old.first) <= old.value /\ RiskSince(old.first) <= old.risk
  BY <1>4 DEF RunAddsUp
<1>14. /\ NotionalSince(old.first) + entry.notional <= r.value
       /\ RiskSince(old.first) + entry.risk <= r.risk
       /\ NotionalSince(old.first) <= r.value /\ RiskSince(old.first) <= r.risk
  BY <1>5, <1>7, <1>10, <1>12, <1>13
<1>15. RunAddsUp(r)
  BY <1>7, <1>11, <1>13, <1>14 DEF RunAddsUp
<1>16. RunAddsUp(s)
  BY <1>7, <1>8, <1>9, <1>11, <1>13, <1>14 DEF RunAddsUp
<1> QED
  BY <1>2, <1>3, <1>7, <1>8, <1>15, <1>16

\* The requests on their way are so many at most as there are requests.
LEMMA RequestsAreFinite ==
  /\ IsFiniteSet(OnTheirWay) /\ Cardinality(OnTheirWay) \in Nat
  /\ Cardinality(ManualRequests) \in Nat /\ max_trades_per_day \in Nat
  /\ Cardinality(OnTheirWay) <= Cardinality(ManualRequests)
<1>1. IsFiniteSet(ManualRequests) /\ OnTheirWay \subseteq ManualRequests
  BY CandidatesAndCaps DEF OnTheirWay
<1> QED
  BY <1>1, CandidatesAndCaps, FS_Subset, FS_CardinalityType

\* A request that ends, with its order or without, is one less.
LEMMA OneRequestLess ==
  ASSUME manual_entries \in [ManualRequests -> ManualEntry \union {NoEntryRun}],
         NEW q \in ManualRequests, manual_entries[q].phase = "admitted",
         manual_entries' = [manual_entries EXCEPT ![q] = NoEntryRun]
  PROVE  /\ manual_entries' \in [ManualRequests -> ManualEntry \union {NoEntryRun}]
         /\ OnTheirWay' \subseteq OnTheirWay
         /\ Cardinality(OnTheirWay') = Cardinality(OnTheirWay) - 1
<1>1. q \in OnTheirWay
  BY DEF OnTheirWay
<1>2. OnTheirWay' = OnTheirWay \ {q}
  BY DEF OnTheirWay, NoEntryRun
<1>3. Cardinality(OnTheirWay \ {q}) = Cardinality(OnTheirWay) - 1
  BY <1>1, RequestsAreFinite, FS_RemoveElement
<1>4. manual_entries' \in [ManualRequests -> ManualEntry \union {NoEntryRun}]
  OBVIOUS
<1> QED
  BY <1>2, <1>3, <1>4

\* At the limit no entry is admitted, so what exceeds it passed the check together.
LEMMA BelowTheLimit ==
  ASSUME day_orders \in Seq(DayOrder), check_max_trades_today
  PROVE  Cardinality(DayEntries) + 1 <= max_trades_per_day
<1>1. PICK live : live = {i \in DayIds : day_orders[i].status # "ended"}
  OBVIOUS
<1>2. live \subseteq DayIds /\ DayEntries \subseteq live
  BY <1>1 DEF DayEntries, EntryBuys
<1>3. IsFiniteSet(live)
  <2>1. IsFiniteSet(DayIds)
    BY FS_Interval DEF DayIds
  <2> QED
    BY <1>2, <2>1, FS_Subset
<1>4. /\ Cardinality(DayEntries) \in Nat /\ Cardinality(live) \in Nat
      /\ Cardinality(DayEntries) <= Cardinality(live)
  BY <1>2, <1>3, FS_Subset, FS_CardinalityType, DaysAreFinite
<1>5. Cardinality(live) < max_trades_per_day /\ max_trades_per_day \in Nat
  BY <1>1, CandidatesAndCaps DEF check_max_trades_today
<1> QED
  BY <1>4, <1>5

LEMMA AdmissionStarts ==
  AdmissionInit => AdmissionKept
<1> SUFFICES ASSUME AdmissionInit PROVE AdmissionKept
  OBVIOUS
<1>1. AdmissionTyped
  BY DEF AdmissionInit, AdmissionTyped, NoEntryRun
<1>2. DayEntries = {}
  BY DEF AdmissionInit, DayEntries, EntryBuys, DayIds
<1>3. Cardinality(DayEntries) = 0
  BY <1>2, FS_EmptySet
<1>4. OnTheirWay = {} /\ AboutToSend(entry_run) = 0
  BY DEF AdmissionInit, OnTheirWay, AboutToSend, NoEntryRun
<1>5. Cardinality(OnTheirWay) = 0
  BY <1>4, FS_EmptySet
<1>6. DayAddsUp
  BY <1>3, <1>4, <1>5, RequestsAreFinite DEF DayAddsUp
<1> QED
  BY <1>1, <1>6 DEF AdmissionKept, AdmissionInit

\* A step that leaves the run alone, and adds no more to the day than it takes from what
\* is on its way, keeps what the day adds up to.
LEMMA NoMoreThanBefore ==
  ASSUME AdmissionKept, entry_run' = entry_run,
         Cardinality(DayEntries') \in Nat, Cardinality(OnTheirWay') \in Nat,
         Cardinality(DayEntries') + Cardinality(OnTheirWay')
           <= Cardinality(DayEntries) + Cardinality(OnTheirWay)
  PROVE  DayAddsUp'
<1>1. AboutToSend(entry_run)' = AboutToSend(entry_run) /\ AboutToSend(entry_run) \in {0, 1}
  BY DEF AboutToSend
<1>2. Cardinality(DayEntries) \in Nat
  BY DaysAreFinite DEF AdmissionKept, AdmissionTyped
<1>3. Cardinality(DayEntries') + AboutToSend(entry_run) + Cardinality(OnTheirWay')
        <= max_trades_per_day + Cardinality(ManualRequests)
  BY <1>1, <1>2, RequestsAreFinite DEF AdmissionKept, DayAddsUp
<1> QED
  BY <1>1, <1>3 DEF DayAddsUp

\* So does one that answers orders, or leaves them.
LEMMA AnswersKeepAdmission ==
  ASSUME AdmissionKept, AdmissionTyped', OrdersRemain, entry_run' = entry_run,
         OnTheirWay' \subseteq OnTheirWay
  PROVE  AdmissionKept'
<1>1. day_orders \in Seq(DayOrder)
  BY DEF AdmissionKept, AdmissionTyped
<1>2. (entry_run # NoEntryRun => RunAddsUp(entry_run))'
  <2>1. PICK r : r = entry_run
    OBVIOUS
  <2>2. r # NoEntryRun => RunAddsUp(r)'
    BY <1>1, <2>1, AnswersChangeNoTotal DEF AdmissionKept
  <2> QED
    BY <2>1, <2>2 DEF RunAddsUp, NoEntryRun
<1>3. DayAddsUp'
  <2>1. /\ Cardinality(DayEntries') \in Nat /\ Cardinality(DayEntries) \in Nat
        /\ Cardinality(DayEntries') <= Cardinality(DayEntries)
    BY <1>1, AnswersChangeNoTotal, DaysAreFinite
  <2>2. /\ Cardinality(OnTheirWay') \in Nat /\ Cardinality(OnTheirWay) \in Nat
        /\ Cardinality(OnTheirWay') <= Cardinality(OnTheirWay)
    BY RequestsAreFinite, FS_Subset, FS_CardinalityType
  <2>3. Cardinality(DayEntries') + Cardinality(OnTheirWay')
          <= Cardinality(DayEntries) + Cardinality(OnTheirWay)
    BY <2>1, <2>2
  <2> QED
    BY <2>1, <2>2, <2>3, NoMoreThanBefore
<1> QED
  BY <1>2, <1>3 DEF AdmissionKept

\* A step that gives the run another part and leaves the orders.
LEMMA AllocatingKeepsAdmission ==
  ASSUME AdmissionKept, NEW r \in EntryRun, RunAddsUp(r), entry_run' = r,
         AboutToSend(r) = 1 => check_max_trades_today,
         UNCHANGED <<switches, worth, day_orders, day_trades, manual_entries>>
  PROVE  AdmissionKept'
<1>1. day_orders \in Seq(DayOrder)
  BY DEF AdmissionKept, AdmissionTyped
<1>2. AdmissionTyped'
  BY DEF AdmissionKept, AdmissionTyped
<1>3. OrdersRemain
  BY DEF OrdersRemain
<1>4. (entry_run # NoEntryRun => RunAddsUp(entry_run))'
  <2>1. RunAddsUp(r)'
    BY <1>1, <1>3, AnswersChangeNoTotal
  <2> QED
    BY <2>1 DEF RunAddsUp
<1>5. DayAddsUp'
  <2>1. Cardinality(DayEntries) \in Nat
    BY <1>1, DaysAreFinite
  <2>2. AboutToSend(r) \in {0, 1} /\ AboutToSend(entry_run) \in {0, 1}
    BY DEF AboutToSend
  <2>3. DayEntries' = DayEntries /\ OnTheirWay' = OnTheirWay
    BY DEF DayEntries, EntryBuys, DayIds, OnTheirWay
  <2>4. AboutToSend(entry_run)' = AboutToSend(r)
    BY DEF AboutToSend
  <2>5. Cardinality(DayEntries) + AboutToSend(r) + Cardinality(OnTheirWay)
          <= max_trades_per_day + Cardinality(ManualRequests)
    <3>1. CASE AboutToSend(r) = 0
      BY <2>1, <2>2, <3>1, RequestsAreFinite DEF AdmissionKept, DayAddsUp
    <3>2. CASE AboutToSend(r) = 1
      BY <1>1, <2>1, <3>2, BelowTheLimit, RequestsAreFinite
    <3> QED
      BY <2>2, <3>1, <3>2
  <2> QED
    BY <2>3, <2>4, <2>5 DEF DayAddsUp
<1> QED
  BY <1>2, <1>4, <1>5 DEF AdmissionKept

LEMMA ReadForEntriesKeepsAdmission ==
  ASSUME AdmissionKept, NEW free \in FreeCash, NEW regime \in Regimes,
         ReadForEntries(free, regime)
  PROVE  AdmissionKept'
<1>1. PICK r : r = entry_run'
  OBVIOUS
<1>2. day_orders \in Seq(DayOrder) /\ worth \in [EntryTickers -> Nat]
  BY DEF AdmissionKept, AdmissionTyped
<1>3. /\ r = [phase |-> "read", seen |-> worth, free |-> free, regime |-> regime,
              first |-> Len(day_orders) + 1, for |-> {}, accepted |-> {},
              value |-> 0, risk |-> 0]
  BY <1>1 DEF ReadForEntries
<1>4. r \in EntryRun
  BY <1>2, <1>3 DEF EntryRun
<1>5. SentSince(r.first) = {}
  BY <1>2, <1>3 DEF SentSince, EntryBuys, DayIds
<1>6. NotionalSince(r.first) = 0 /\ RiskSince(r.first) = 0
  <2>1. DOMAIN [i \in SentSince(r.first) |-> day_orders[i].notional] = {}
        /\ DOMAIN [i \in SentSince(r.first) |-> day_orders[i].risk] = {}
    BY <1>5
  <2> QED
    BY <2>1, SumOfNone, TotalIsSum DEF NotionalSince, RiskSince
<1>7. _regime_run_risk_cap(r.regime) \in Nat
  BY CapsAreNumbers
<1>8. RunAddsUp(r)
  BY <1>3, <1>5, <1>6, <1>7 DEF RunAddsUp
<1>9. AboutToSend(r) = 0
  BY <1>3 DEF AboutToSend
<1>10. UNCHANGED <<switches, worth, day_orders, day_trades, manual_entries>>
  BY DEF ReadForEntries
<1> QED
  BY <1>1, <1>4, <1>8, <1>9, <1>10, AllocatingKeepsAdmission

LEMMA AdmitKeepsAdmission ==
  ASSUME AdmissionKept, NEW entry \in EntryCandidates, Admit(entry) \/ RiskBlock(entry)
  PROVE  AdmissionKept'
<1>1. PICK r : r = entry_run'
  OBVIOUS
<1>2. Signalled(entry) /\ _decide(entry) /\ AdmissionTyped
  BY DEF Admit, RiskBlock, AdmissionKept
<1>3. entry_run # NoEntryRun
  BY <1>2 DEF Signalled, NoEntryRun
<1>4. RunAddsUp(entry_run)
  BY <1>3 DEF AdmissionKept
<1>5. PICK a : a = Allocated(entry)
  OBVIOUS
<1>6. PICK s : s = [a EXCEPT !.phase = "admitted", !.for = {entry}]
  OBVIOUS
<1>7. a \in EntryRun /\ RunAddsUp(a) /\ s \in EntryRun /\ RunAddsUp(s)
  BY <1>2, <1>3, <1>4, <1>5, <1>6, AllocationKeepsCaps
<1>8. a.phase = entry_run.phase
  BY <1>2, <1>3, <1>5 DEF Allocated, AdmissionTyped, EntryRun
<1>9. AboutToSend(a) = 0
  BY <1>2, <1>8 DEF AboutToSend, Signalled
<1>10. r = a \/ (r = s /\ check_max_trades_today)
  BY <1>1, <1>5, <1>6 DEF Admit, RiskBlock, Passes, run_all_checks
<1>11. r \in EntryRun /\ RunAddsUp(r) /\ (AboutToSend(r) = 1 => check_max_trades_today)
  BY <1>7, <1>9, <1>10
<1>12. UNCHANGED <<switches, worth, day_orders, day_trades, manual_entries>>
  BY DEF Admit, RiskBlock
<1> QED
  BY <1>1, <1>11, <1>12, AllocatingKeepsAdmission

\* What was allocated and is not sent leaves what the run adds up to as it is.
LEMMA EntryRefusedKeepsAdmission ==
  ASSUME AdmissionKept, EntryRefused
  PROVE  AdmissionKept'
<1>1. PICK r : r = entry_run
  OBVIOUS
<1>2. PICK s : s = [r EXCEPT !.phase = "read", !.for = {}]
  OBVIOUS
<1>3. day_orders \in Seq(DayOrder) /\ r \in EntryRun /\ r.phase = "admitted" /\ RunAddsUp(r)
  BY <1>1 DEF AdmissionKept, AdmissionTyped, EntryRefused, NoEntryRun
<1>4. /\ entry_run' = s /\ s \in EntryRun /\ s.phase = "read" /\ s.for = {} /\ s.seen = r.seen
      /\ s.regime = r.regime /\ s.first = r.first /\ s.accepted = r.accepted
      /\ s.value = r.value /\ s.risk = r.risk
  BY <1>1, <1>2, <1>3 DEF EntryRefused, EntryRun
<1>5. NotionalSince(r.first) \in Nat /\ RiskSince(r.first) \in Nat
  BY <1>3, DaysAreFinite
<1>6. NotionalSince(r.first) <= r.value /\ RiskSince(r.first) <= r.risk
  <2>1. PICK entry \in EntryCandidates :
          /\ NotionalSince(r.first) + entry.notional <= r.value
          /\ RiskSince(r.first) + entry.risk <= r.risk
    BY <1>3 DEF RunAddsUp
  <2> QED
    BY <1>3, <1>5, <2>1, CandidatesAreTyped DEF EntryRun
<1>7. RunAddsUp(s)
  BY <1>3, <1>4, <1>6 DEF RunAddsUp
<1>8. AboutToSend(s) = 0
  BY <1>4 DEF AboutToSend
<1> QED
  BY <1>4, <1>7, <1>8, AllocatingKeepsAdmission DEF EntryRefused

\* What is placed is one more buy of the day.
PlacedOrder(entry, by) ==
  [ticker |-> entry.ticker, side |-> "buy", notional |-> entry.notional, risk |-> entry.risk,
   by |-> by, status |-> IF check_kill_switch THEN "working" ELSE "ended"]

LEMMA PlacedIsAdded ==
  ASSUME NEW entry \in EntryCandidates, NEW by \in {"runner", "manual"}, Placed(entry, by)
  PROVE  IsAdded(PlacedOrder(entry, by))
<1>1. /\ entry.ticker \in EntryTickers /\ entry.notional \in Nat /\ entry.risk \in Nat
  BY CandidatesAreTyped
<1>2. (IF check_kill_switch THEN "working" ELSE "ended") \in {"working", "filled", "ended"}
  OBVIOUS
<1>3. PlacedOrder(entry, by) \in DayOrder
  BY <1>1, <1>2 DEF PlacedOrder, DayOrder
<1> QED
  BY <1>3 DEF IsAdded, Placed, PlacedOrder

LEMMA SubmitEntryKeepsAdmission ==
  ASSUME AdmissionKept, SubmitEntry
  PROVE  AdmissionKept'
<1>1. PICK r : r = entry_run
  OBVIOUS
<1>2. /\ day_orders \in Seq(DayOrder) /\ r \in EntryRun /\ r.phase = "admitted" /\ RunAddsUp(r)
  BY <1>1 DEF AdmissionKept, AdmissionTyped, SubmitEntry, NoEntryRun
<1>3. PICK entry \in EntryCandidates :
         /\ r.for = {entry} /\ entry.ticker \in r.accepted
         /\ \A i \in SentSince(r.first) : day_orders[i].ticker # entry.ticker
         /\ NotionalSince(r.first) + entry.notional <= r.value
         /\ RiskSince(r.first) + entry.risk <= r.risk
  BY <1>2 DEF RunAddsUp
<1>4. Placed(entry, "runner")
  BY <1>1, <1>3 DEF SubmitEntry
<1>5. PICK o : o = PlacedOrder(entry, "runner")
  OBVIOUS
<1>6. /\ IsAdded(o) /\ o.side = "buy" /\ o.by = "runner" /\ o.ticker = entry.ticker
      /\ o.notional = entry.notional /\ o.risk = entry.risk
  BY <1>4, <1>5, PlacedIsAdded DEF PlacedOrder
<1>7. PICK n : n = Len(day_orders) + 1
  OBVIOUS
<1>8. PICK s : s = [r EXCEPT !.phase = "read", !.for = {}]
  OBVIOUS
<1>9. /\ entry_run' = s /\ s \in EntryRun /\ s.phase = "read" /\ s.for = {} /\ s.seen = r.seen
      /\ s.regime = r.regime /\ s.first = r.first /\ s.accepted = r.accepted
      /\ s.value = r.value /\ s.risk = r.risk
  BY <1>1, <1>2, <1>8 DEF SubmitEntry, EntryRun
<1>10. /\ day_orders' \in Seq(DayOrder) /\ n \notin DayIds /\ day_orders'[n] = o
       /\ \A i \in DayIds : day_orders'[i] = day_orders[i]
  BY <1>2, <1>6, <1>7, OneMoreOrder
<1>11. AdmissionTyped'
  BY <1>9, <1>10 DEF AdmissionKept, AdmissionTyped, SubmitEntry
<1>12. (entry_run # NoEntryRun => RunAddsUp(entry_run))'
  <2>1. /\ SentSince(r.first)' = SentSince(r.first) \union {n}
        /\ NotionalSince(r.first)' = NotionalSince(r.first) + o.notional
        /\ RiskSince(r.first)' = RiskSince(r.first) + o.risk
    <3>1. r.first \in Nat /\ r.first <= Len(day_orders) + 1
      BY <1>2 DEF EntryRun, RunAddsUp
    <3> QED
      BY <1>2, <1>6, <1>7, <3>1, OneMoreEntry
  <2>2. SentSince(r.first) \subseteq DayIds
    BY DEF SentSince, EntryBuys
  <2>3. /\ \A i \in SentSince(r.first)' : day_orders'[i].ticker \in r.accepted
        /\ \A i, j \in SentSince(r.first)' :
             day_orders'[i].ticker = day_orders'[j].ticker => i = j
    BY <1>2, <1>3, <1>6, <1>10, <2>1, <2>2 DEF RunAddsUp
  <2>4. NotionalSince(r.first)' <= r.value /\ RiskSince(r.first)' <= r.risk
    BY <1>3, <1>6, <2>1
  <2>5. r.first <= Len(day_orders') + 1
    BY <1>2, <1>6, OneMoreOrder DEF EntryRun, RunAddsUp
  <2>6. RunAddsUp(s)'
    BY <1>2, <1>9, <2>3, <2>4, <2>5
       DEF RunAddsUp, _gross_exposure, Total, _regime_gross_cap, _regime_run_risk_cap
  <2> QED
    BY <1>9, <2>6 DEF RunAddsUp
<1>13. DayAddsUp'
  <2>1. /\ Cardinality(DayEntries') \in Nat /\ Cardinality(DayEntries) \in Nat
        /\ Cardinality(DayEntries') <= Cardinality(DayEntries) + 1
    BY <1>2, <1>6, OneMoreOfTheDay, DaysAreFinite
  <2>2. AboutToSend(entry_run) = 1 /\ AboutToSend(entry_run)' = 0
    BY <1>1, <1>2, <1>9 DEF AboutToSend
  <2>3. OnTheirWay' = OnTheirWay
    BY DEF OnTheirWay, SubmitEntry
  <2>4. Cardinality(DayEntries') + 0 + Cardinality(OnTheirWay)
          <= max_trades_per_day + Cardinality(ManualRequests)
    BY <2>1, <2>2, RequestsAreFinite DEF AdmissionKept, DayAddsUp
  <2> QED
    BY <2>2, <2>3, <2>4 DEF DayAddsUp
<1> QED
  BY <1>11, <1>12, <1>13 DEF AdmissionKept

\* An order that is not of the runner's keeps what the run adds up to.
LEMMA AnotherKeepsTheRun ==
  ASSUME AdmissionKept, NEW o, IsAdded(o), o.by # "runner", entry_run' = entry_run
  PROVE  (entry_run # NoEntryRun => RunAddsUp(entry_run))'
<1>1. PICK r : r = entry_run
  OBVIOUS
<1>2. day_orders \in Seq(DayOrder) /\ r \in EntryRun \union {NoEntryRun}
  BY <1>1 DEF AdmissionKept, AdmissionTyped
<1>3. r # NoEntryRun => RunAddsUp(r)'
  BY <1>1, <1>2, OneMoreOfAnother DEF AdmissionKept
<1> QED
  BY <1>1, <1>3 DEF RunAddsUp, NoEntryRun

LEMMA ManualSubmitKeepsAdmission ==
  ASSUME AdmissionKept, NEW q \in ManualRequests, ManualSubmit(q)
  PROVE  AdmissionKept'
<1>1. /\ day_orders \in Seq(DayOrder) /\ manual_entries[q] \in ManualEntry
      /\ manual_entries \in [ManualRequests -> ManualEntry \union {NoEntryRun}]
  BY DEF AdmissionKept, AdmissionTyped, ManualSubmit, NoEntryRun
<1>2. PICK entry \in EntryCandidates : Placed(entry, "manual")
  BY <1>1 DEF ManualSubmit, ManualEntry
<1>3. PICK o : o = PlacedOrder(entry, "manual")
  OBVIOUS
<1>4. IsAdded(o) /\ o.side = "buy" /\ o.by # "runner"
  BY <1>2, <1>3, PlacedIsAdded DEF PlacedOrder
<1>5. /\ manual_entries' \in [ManualRequests -> ManualEntry \union {NoEntryRun}]
      /\ OnTheirWay' \subseteq OnTheirWay
      /\ Cardinality(OnTheirWay') = Cardinality(OnTheirWay) - 1
  BY <1>1, OneRequestLess DEF ManualSubmit
<1>6. entry_run' = entry_run
  BY DEF ManualSubmit
<1>7. AdmissionTyped'
  BY <1>1, <1>4, <1>5, OneMoreOrder DEF AdmissionKept, AdmissionTyped, ManualSubmit
<1>8. (entry_run # NoEntryRun => RunAddsUp(entry_run))'
  BY <1>4, <1>6, AnotherKeepsTheRun
<1>9. DayAddsUp'
  <2>1. /\ Cardinality(DayEntries') \in Nat /\ Cardinality(DayEntries) \in Nat
        /\ Cardinality(DayEntries') <= Cardinality(DayEntries) + 1
    BY <1>1, <1>4, OneMoreOfTheDay, DaysAreFinite
  <2>2. Cardinality(OnTheirWay') \in Nat /\ Cardinality(OnTheirWay) \in Nat
    BY <1>5, RequestsAreFinite, FS_Subset, FS_CardinalityType
  <2> QED
    BY <1>5, <1>6, <2>1, <2>2, NoMoreThanBefore
<1> QED
  BY <1>7, <1>8, <1>9 DEF AdmissionKept

LEMMA ManualRefusedKeepsAdmission ==
  ASSUME AdmissionKept, NEW q \in ManualRequests, ManualRefused(q)
  PROVE  AdmissionKept'
<1>1. /\ manual_entries' \in [ManualRequests -> ManualEntry \union {NoEntryRun}]
      /\ OnTheirWay' \subseteq OnTheirWay
  BY OneRequestLess DEF AdmissionKept, AdmissionTyped, ManualRefused
<1>2. AdmissionTyped' /\ entry_run' = entry_run
  BY <1>1 DEF AdmissionKept, AdmissionTyped, ManualRefused
<1>3. OrdersRemain
  BY DEF OrdersRemain, ManualRefused
<1> QED
  BY <1>1, <1>2, <1>3, AnswersKeepAdmission

LEMMA PositionExitsKeepsAdmission ==
  ASSUME AdmissionKept, NEW t \in EntryTickers, NEW loss \in {0, 1}, PositionExits(t, loss)
  PROVE  AdmissionKept'
<1>1. /\ day_orders \in Seq(DayOrder) /\ worth \in [EntryTickers -> Nat]
      /\ day_trades \in Seq([ticker : EntryTickers, loss : {0, 1}])
  BY DEF AdmissionKept, AdmissionTyped
<1>2. PICK o : o = [ticker |-> t, side |-> "sell", notional |-> worth[t],
                    risk |-> 0, by |-> "exit", status |-> "filled"]
  OBVIOUS
<1>3. o \in DayOrder
  BY <1>1, <1>2 DEF DayOrder
<1>4. IsAdded(o) /\ o.side # "buy" /\ o.by # "runner"
  BY <1>2, <1>3 DEF IsAdded, PositionExits
<1>5. day_orders' \in Seq(DayOrder)
  BY <1>1, <1>4, OneMoreOrder
<1>6. day_trades' \in Seq([ticker : EntryTickers, loss : {0, 1}])
  <2>1. PICK closed : closed = [ticker |-> t, loss |-> loss]
    OBVIOUS
  <2>2. closed \in [ticker : EntryTickers, loss : {0, 1}]
    BY <2>1
  <2>3. day_trades' = <<closed>> \o day_trades
    BY <2>1 DEF PositionExits
  <2> QED
    BY <1>1, <2>2, <2>3
<1>7. worth' \in [EntryTickers -> Nat]
  BY <1>1 DEF PositionExits
<1>8. UNCHANGED <<switches, entry_run, manual_entries>>
  BY DEF PositionExits
<1>9. AdmissionTyped'
  BY <1>5, <1>6, <1>7, <1>8 DEF AdmissionKept, AdmissionTyped
<1>10. (entry_run # NoEntryRun => RunAddsUp(entry_run))'
  BY <1>4, <1>8, AnotherKeepsTheRun
<1>11. DayAddsUp'
  <2>1. /\ Cardinality(DayEntries') \in Nat /\ Cardinality(DayEntries) \in Nat
        /\ Cardinality(DayEntries') <= Cardinality(DayEntries)
    <3>1. /\ Cardinality(DayEntries') \in Nat
          /\ Cardinality(DayEntries')
               <= Cardinality(DayEntries) + (IF o.side = "buy" THEN 1 ELSE 0)
      BY <1>1, <1>4, OneMoreOfTheDay
    <3>2. Cardinality(DayEntries) \in Nat
      BY <1>1, DaysAreFinite
    <3>3. (IF o.side = "buy" THEN 1 ELSE 0) = 0
      BY <1>4
    <3> QED
      BY <3>1, <3>2, <3>3
  <2>2. OnTheirWay' = OnTheirWay /\ Cardinality(OnTheirWay) \in Nat
    BY <1>8, RequestsAreFinite DEF OnTheirWay
  <2> QED
    BY <1>8, <2>1, <2>2, NoMoreThanBefore
<1> QED
  BY <1>9, <1>10, <1>11 DEF AdmissionKept

LEMMA AnswerKeepsAdmission ==
  ASSUME AdmissionKept, NEW i \in DayIds, EntryFills(i) \/ CancelOrReject(i)
  PROVE  AdmissionKept'
<1>1. /\ day_orders \in Seq(DayOrder) /\ worth \in [EntryTickers -> Nat]
      /\ i \in DOMAIN day_orders /\ day_orders[i] \in DayOrder
      /\ day_orders[i].status = "working"
  BY DEF AdmissionKept, AdmissionTyped, DayIds, EntryFills, CancelOrReject
<1>2. PICK status \in {"filled", "ended"} :
         day_orders' = [day_orders EXCEPT ![i].status = status]
  BY DEF EntryFills, CancelOrReject
<1>3. PICK o : o = [day_orders[i] EXCEPT !.status = status]
  OBVIOUS
<1>4. /\ o \in DayOrder /\ o.ticker = day_orders[i].ticker /\ o.side = day_orders[i].side
      /\ o.notional = day_orders[i].notional /\ o.risk = day_orders[i].risk
      /\ o.by = day_orders[i].by
  BY <1>1, <1>3 DEF DayOrder
<1>5. day_orders' = [day_orders EXCEPT ![i] = o]
  BY <1>1, <1>2, <1>3
<1>6. day_orders' \in Seq(DayOrder) /\ Len(day_orders') = Len(day_orders)
  BY <1>1, <1>4, <1>5
<1>7. \A j \in DayIds : day_orders'[j] = IF j = i THEN o ELSE day_orders[j]
  BY <1>1, <1>5 DEF DayIds
<1>8. OrdersRemain
  BY <1>1, <1>4, <1>6, <1>7 DEF OrdersRemain
<1>9. worth' \in [EntryTickers -> Nat]
  <2>1. day_orders[i].ticker \in EntryTickers /\ day_orders[i].notional \in Nat
    BY <1>1 DEF DayOrder
  <2>2. worth' = worth \/ worth' = [worth EXCEPT ![o.ticker] = @ + o.notional]
    BY <1>4 DEF EntryFills, CancelOrReject
  <2> QED
    BY <1>1, <1>4, <2>1, <2>2
<1>10. UNCHANGED <<switches, day_trades, entry_run, manual_entries>>
  BY DEF EntryFills, CancelOrReject
<1>11. AdmissionTyped'
  BY <1>6, <1>9, <1>10 DEF AdmissionKept, AdmissionTyped
<1> QED
  BY <1>8, <1>10, <1>11, AnswersKeepAdmission DEF OnTheirWay

LEMMA EndEntryRunKeepsAdmission ==
  ASSUME AdmissionKept, EndEntryRun
  PROVE  AdmissionKept'
<1>1. AdmissionTyped'
  BY DEF AdmissionKept, AdmissionTyped, EndEntryRun
<1>2. entry_run' = NoEntryRun
  BY DEF EndEntryRun
<1>3. DayAddsUp'
  <2>1. Cardinality(DayEntries) \in Nat
    BY DaysAreFinite DEF AdmissionKept, AdmissionTyped
  <2>2. AboutToSend(entry_run) \in {0, 1} /\ AboutToSend(entry_run)' = 0
    BY <1>2 DEF AboutToSend, NoEntryRun
  <2>3. DayEntries' = DayEntries /\ OnTheirWay' = OnTheirWay
    BY DEF DayEntries, EntryBuys, DayIds, OnTheirWay, EndEntryRun
  <2>4. Cardinality(DayEntries) + 0 + Cardinality(OnTheirWay)
          <= max_trades_per_day + Cardinality(ManualRequests)
    BY <2>1, <2>2, RequestsAreFinite DEF AdmissionKept, DayAddsUp
  <2> QED
    BY <2>2, <2>3, <2>4 DEF DayAddsUp
<1> QED
  BY <1>1, <1>2, <1>3 DEF AdmissionKept

\* One request more is on its way: before it passed the day was below its number, and
\* no more than the run and all the requests are on their way.
LEMMA ManualAdmitKeepsAdmission ==
  ASSUME AdmissionKept, NEW q \in ManualRequests, NEW entry \in EntryCandidates,
         NEW free \in FreeCash, ManualAdmit(q, entry, free)
  PROVE  AdmissionKept'
<1>1. PICK m : m = [phase |-> "admitted", for |-> {entry}]
  OBVIOUS
<1>2. m \in ManualEntry /\ manual_entries' = [manual_entries EXCEPT ![q] = m]
  BY <1>1 DEF ManualAdmit, ManualEntry
<1>3. AdmissionTyped'
  BY <1>2 DEF AdmissionKept, AdmissionTyped, ManualAdmit
<1>4. day_orders \in Seq(DayOrder) /\ day_orders' = day_orders /\ entry_run' = entry_run
  BY DEF AdmissionKept, AdmissionTyped, ManualAdmit
<1>5. (entry_run # NoEntryRun => RunAddsUp(entry_run))'
  <2>1. PICK r : r = entry_run
    OBVIOUS
  <2>2. OrdersRemain
    BY <1>4 DEF OrdersRemain
  <2>3. r # NoEntryRun => RunAddsUp(r)'
    BY <1>4, <2>1, <2>2, AnswersChangeNoTotal DEF AdmissionKept
  <2> QED
    BY <1>4, <2>1, <2>3 DEF RunAddsUp, NoEntryRun
<1>6. DayAddsUp'
  <2>1. Cardinality(DayEntries) \in Nat /\ DayEntries' = DayEntries
    BY <1>4, DaysAreFinite DEF DayEntries, EntryBuys, DayIds
  <2>2. Cardinality(DayEntries) + 1 <= max_trades_per_day
    BY <1>4, BelowTheLimit DEF ManualAdmit, run_all_checks
  <2>3. AboutToSend(entry_run)' = AboutToSend(entry_run) /\ AboutToSend(entry_run) \in {0, 1}
    BY <1>4 DEF AboutToSend
  <2>4. /\ IsFiniteSet(ManualRequests) /\ OnTheirWay' \subseteq ManualRequests
        /\ Cardinality(ManualRequests) \in Nat /\ max_trades_per_day \in Nat
    BY RequestsAreFinite, CandidatesAndCaps DEF OnTheirWay
  <2>5. /\ Cardinality(OnTheirWay') \in Nat
        /\ Cardinality(OnTheirWay') <= Cardinality(ManualRequests)
    BY <2>4, FS_Subset, FS_CardinalityType
  <2>6. Cardinality(DayEntries) + AboutToSend(entry_run) + Cardinality(OnTheirWay')
          <= max_trades_per_day + Cardinality(ManualRequests)
    BY <2>1, <2>2, <2>3, <2>4, <2>5
  <2> QED
    BY <2>1, <2>3, <2>6 DEF DayAddsUp
<1> QED
  BY <1>3, <1>5, <1>6 DEF AdmissionKept

LEMMA AdmissionGoesOn ==
  AdmissionKept /\ [AdmissionNext]_admission_vars => AdmissionKept'
<1> SUFFICES ASSUME AdmissionKept, [AdmissionNext]_admission_vars PROVE AdmissionKept'
  OBVIOUS
<1>1. ASSUME NEW free \in FreeCash, NEW regime \in Regimes, ReadForEntries(free, regime)
      PROVE  AdmissionKept'
  BY <1>1, ReadForEntriesKeepsAdmission
<1>2. ASSUME NEW entry \in EntryCandidates, Admit(entry) \/ RiskBlock(entry)
      PROVE  AdmissionKept'
  BY <1>2, AdmitKeepsAdmission
<1>3. ASSUME NEW q \in ManualRequests, NEW entry \in EntryCandidates, NEW free \in FreeCash,
             ManualAdmit(q, entry, free)
      PROVE  AdmissionKept'
  BY <1>3, ManualAdmitKeepsAdmission
<1>4. CASE SubmitEntry
  BY <1>4, SubmitEntryKeepsAdmission
<1>5. CASE EndEntryRun
  BY <1>5, EndEntryRunKeepsAdmission
<1>6. ASSUME NEW q \in ManualRequests, ManualSubmit(q) \/ ManualRefused(q)
      PROVE  AdmissionKept'
  BY <1>6, ManualSubmitKeepsAdmission, ManualRefusedKeepsAdmission
<1>7. ASSUME NEW i \in DayIds, EntryFills(i) \/ CancelOrReject(i)
      PROVE  AdmissionKept'
  BY <1>7, AnswerKeepsAdmission
<1>8. ASSUME NEW t \in EntryTickers, NEW loss \in {0, 1}, PositionExits(t, loss)
      PROVE  AdmissionKept'
  BY <1>8, PositionExitsKeepsAdmission
<1>9. ASSUME NEW kill \in BOOLEAN, NEW auto \in BOOLEAN, SetSwitches(kill, auto)
      PROVE  AdmissionKept'
  <2>1. AdmissionTyped' /\ entry_run' = entry_run
    BY <1>9 DEF AdmissionKept, AdmissionTyped, SetSwitches
  <2>2. OrdersRemain /\ OnTheirWay' \subseteq OnTheirWay
    BY <1>9 DEF OrdersRemain, OnTheirWay, SetSwitches
  <2> QED
    BY <2>1, <2>2, AnswersKeepAdmission
<1>10. CASE UNCHANGED admission_vars
  <2>1. AdmissionTyped' /\ entry_run' = entry_run
    BY <1>10 DEF AdmissionKept, AdmissionTyped, admission_vars
  <2>2. OrdersRemain /\ OnTheirWay' \subseteq OnTheirWay
    BY <1>10 DEF OrdersRemain, OnTheirWay, admission_vars
  <2> QED
    BY <2>1, <2>2, AnswersKeepAdmission
<1>11. CASE EntryRefused
  BY <1>11, EntryRefusedKeepsAdmission
<1> QED
  BY <1>1, <1>2, <1>3, <1>4, <1>5, <1>6, <1>7, <1>8, <1>9, <1>10, <1>11 DEF AdmissionNext

\* A run that reads the account, allocates on its own reading and sends one entry
\* after another, and any number of manual requests beside it and each other, keep
\* the inductive invariant.
THEOREM AdmissionIsKept == AdmissionSpec => []AdmissionKept
<1>1. AdmissionInit => AdmissionKept
  BY AdmissionStarts
<1>2. AdmissionKept /\ [AdmissionNext]_admission_vars => AdmissionKept'
  BY AdmissionGoesOn
<1> QED
  BY <1>1, <1>2, PTL DEF AdmissionSpec

\* Whatever a run sends, together with what it saw to be held, stays within the
\* caps of its regime and goes to each ticker once, although each entry is decided on
\* its own and some are refused once allocated; and a day's entries, which no lock
\* keeps apart, exceed its number by the number of requests served at a time at most.
THEOREM LimitsAlwaysHoldTogether == AdmissionSpec => []LimitsHoldTogether
<1>1. AdmissionKept => LimitsHoldTogether
  <2> SUFFICES ASSUME AdmissionKept PROVE LimitsHoldTogether
    OBVIOUS
  <2>1. AdmissionTypeOK
    <3>1. \A i \in DayIds : day_orders[i] \in DayOrder
      BY DEF AdmissionKept, AdmissionTyped, DayIds
    <3>2. entry_run.phase \in {"none", "read", "admitted"}
      BY DEF AdmissionKept, AdmissionTyped, EntryRun, NoEntryRun
    <3>3. \A q \in ManualRequests : manual_entries[q].phase \in {"none", "admitted"}
      BY DEF AdmissionKept, AdmissionTyped, ManualEntry, NoEntryRun
    <3>4. \A i \in DOMAIN day_trades : day_trades[i] \in [ticker : EntryTickers, loss : {0, 1}]
      <4>1. PICK closed : closed = [ticker : EntryTickers, loss : {0, 1}]
        OBVIOUS
      <4>2. day_trades \in Seq(closed)
        BY <4>1 DEF AdmissionKept, AdmissionTyped
      <4>3. \A i \in DOMAIN day_trades : day_trades[i] \in closed
        BY <4>2
      <4> QED
        BY <4>1, <4>3
    <3> QED
      BY <3>1, <3>2, <3>3, <3>4 DEF AdmissionKept, AdmissionTyped, AdmissionTypeOK, DayOrder
  <2>2. RunStaysWithinCaps
    <3> SUFFICES ASSUME entry_run # NoEntryRun PROVE RunStaysWithinCaps
      BY DEF RunStaysWithinCaps
    <3>1. PICK r : r = entry_run
      OBVIOUS
    <3>2. r \in EntryRun /\ RunAddsUp(r) /\ day_orders \in Seq(DayOrder)
      BY <3>1 DEF AdmissionKept, AdmissionTyped
    <3>3. /\ r.value \in Nat /\ r.risk \in Nat /\ _gross_exposure(r.seen) \in Nat
          /\ _regime_gross_cap(r.regime) \in Nat /\ _regime_run_risk_cap(r.regime) \in Nat
      BY <3>2, ExposureIsNatural, CapsAreNumbers DEF EntryRun
    <3>4. NotionalSince(r.first) \in Nat /\ RiskSince(r.first) \in Nat
      BY <3>2, DaysAreFinite
    <3>5. NotionalSince(r.first) <= r.value /\ RiskSince(r.first) <= r.risk
      <4>1. CASE r.phase = "read"
        BY <3>2, <4>1 DEF RunAddsUp
      <4>2. CASE r.phase = "admitted"
        <5>1. PICK entry \in EntryCandidates :
                /\ NotionalSince(r.first) + entry.notional <= r.value
                /\ RiskSince(r.first) + entry.risk <= r.risk
          BY <3>2, <4>2 DEF RunAddsUp
        <5> QED
          BY <3>3, <3>4, <5>1, CandidatesAreTyped
      <4> QED
        BY <3>2, <4>1, <4>2 DEF EntryRun
    <3>6. /\ NotionalSince(r.first) > 0 =>
               _gross_exposure(r.seen) + NotionalSince(r.first) <= _regime_gross_cap(r.regime)
          /\ RiskSince(r.first) <= _regime_run_risk_cap(r.regime)
      BY <3>2, <3>3, <3>4, <3>5 DEF RunAddsUp
    <3>7. \A i, j \in SentSince(r.first) : day_orders[i].ticker = day_orders[j].ticker => i = j
      BY <3>2 DEF RunAddsUp
    <3> QED
      BY <3>1, <3>6, <3>7 DEF RunStaysWithinCaps, SentSince, NotionalSince, RiskSince
  <2>3. DayStaysWithinTrades
    <3>1. Cardinality(DayEntries) \in Nat
      BY DaysAreFinite DEF AdmissionKept, AdmissionTyped
    <3>2. AboutToSend(entry_run) \in {0, 1}
      BY DEF AboutToSend
    <3>3. Cardinality(DayEntries) <= max_trades_per_day + Cardinality(ManualRequests)
      BY <3>1, <3>2, RequestsAreFinite DEF AdmissionKept, DayAddsUp
    <3> QED
      BY <3>3 DEF DayStaysWithinTrades, DayEntries
  <2> QED
    BY <2>1, <2>2, <2>3 DEF LimitsHoldTogether
<1> QED
  BY <1>1, AdmissionIsKept, PTL

(***************************************************************************)
(* The scheduled purchases.                                                *)
(***************************************************************************)
\* What a plan's rows, a buy on record, a decision and a run may be.
PlanConfig == [enabled : BOOLEAN, cadence : Nat, base : Nat]
PlanState == [last_buy_at : 0 .. NoBuy, total : Nat, count : Nat]
PlanBuy == [on : 0 .. LastPlanDay, amount : Nat, cadence : Nat]

PlanDecision ==
  [code : {"none", "BLOCKED_POLICY", "BLOCKED_LOW_CASH", "SKIP_ALREADY_BOUGHT_THIS_WINDOW",
           "BUY_DUE"},
   amount : Nat]

EvaluatingRun ==
  [phase : {"evaluating"}, todo : SUBSET Plans, now : 0 .. LastPlanDay,
   rows : UNION {[S -> PlanConfig] : S \in SUBSET Plans}, account : Snapshots,
   decided : [Plans -> PlanDecision], failed : {"no", "statement", "flush"}]

EndedRun == [phase : {"ended"}, now : 0 .. LastPlanDay, decided : [Plans -> PlanDecision]]

PlansTyped ==
  /\ dca_config \in [Plans -> PlanConfig]
  /\ dca_state \in [Plans -> PlanState]
  /\ dca_audit \in [Plans -> Seq(PlanBuy)]
  /\ dca_day \in 0 .. LastPlanDay
  /\ dca_run \in EvaluatingRun \union EndedRun \union {NoPlanRun}

\* A decision to buy is still due when the run commits, by the row it was made of.
DecidedIsDue ==
  dca_run.phase = "evaluating" =>
    /\ dca_run.todo \subseteq DOMAIN dca_run.rows
    /\ \A t \in Plans : PlanBought(t) =>
         /\ t \in DOMAIN dca_run.rows
         /\ \/ dca_state[t].last_buy_at = NoBuy
            \/ dca_run.now >= dca_state[t].last_buy_at + dca_run.rows[t].cadence

\* The inductive invariant.
BooksKept == PlansTyped /\ DecidedIsDue /\ BooksAgree /\ OncePerWindow /\ ReportedIsSaved

-----------------------------------------------------------------------------
LEMMA PlanFiguresAreNumbers ==
  /\ LastPlanDay \in Nat /\ NoBuy \in Nat /\ NoBuy = LastPlanDay + 1
  /\ dip_buy_multiplier \in Nat
  /\ \A policy \in PlanPolicies : policy.base \in Nat /\ policy.cadence \in Nat
  BY PlansAndPolicies DEF NoBuy

\* What is spent is spent purchase by purchase.
LEMMA SpentOnNothing == Spent(<<>>) = 0
<1>1. UNION {{i} \X (1 .. <<>>[i].amount) : i \in DOMAIN <<>>} = {}
  OBVIOUS
<1> QED
  BY <1>1, FS_EmptySet DEF Spent

LEMMA SpentOnOneMore ==
  ASSUME NEW buys \in Seq(PlanBuy), NEW b \in PlanBuy
  PROVE  Spent(buys) \in Nat /\ Spent(Append(buys, b)) = Spent(buys) + b.amount
<1>1. PICK S : S = DOMAIN buys
  OBVIOUS
<1>2. PICK more : more = Append(buys, b)
  OBVIOUS
<1>3. PICK n : n = Len(buys) + 1
  OBVIOUS
<1>4. S = 1 .. Len(buys) /\ Len(buys) \in Nat
  BY <1>1
<1>5. /\ more \in Seq(PlanBuy) /\ DOMAIN more = S \union {n} /\ n \notin S
      /\ more[n] = b /\ \A i \in S : more[i] = buys[i]
  BY <1>2, <1>3, <1>4
<1>6. IsFiniteSet(S) /\ IsFiniteSet(S \union {n})
  <2>1. IsFiniteSet(1 .. Len(buys))
    BY <1>4, FS_Interval
  <2>2. IsFiniteSet(S)
    BY <1>4, <2>1
  <2> QED
    BY <2>2, FS_AddElement
<1>7. PICK f : f = [i \in S |-> buys[i].amount]
  OBVIOUS
<1>8. PICK g : g = [i \in S \union {n} |-> more[i].amount]
  OBVIOUS
<1>9. \A i \in S : buys[i] \in PlanBuy
  BY <1>4
<1>10. f \in [S -> Nat]
  BY <1>7, <1>9 DEF PlanBuy
<1>11. b.amount \in Nat
  BY DEF PlanBuy
<1>12. g \in [S \union {n} -> Nat] /\ g[n] = b.amount /\ \A i \in S : g[i] = f[i]
  BY <1>5, <1>7, <1>8, <1>10, <1>11
<1>13. S \ {n} = (S \union {n}) \ {n}
  OBVIOUS
<1>14. Sum(g) = Sum(f) - (IF n \in S THEN f[n] ELSE 0) + (IF n \in S \union {n} THEN g[n] ELSE 0)
  BY <1>6, <1>10, <1>12, <1>13, SumChange
<1>15. Sum(f) \in Nat
  BY <1>6, <1>10, SumIsNatural
<1>16. Sum(g) = Sum(f) + b.amount
  BY <1>5, <1>11, <1>12, <1>14, <1>15
<1>17. Spent(buys) = Sum(f)
  <2>1. {{i} \X (1 .. buys[i].amount) : i \in DOMAIN buys}
          = {{i} \X (1 .. f[i]) : i \in DOMAIN f}
    BY <1>1, <1>7
  <2> QED
    BY <2>1 DEF Spent, Sum
<1>18. Spent(more) = Sum(g)
  <2>1. {{i} \X (1 .. more[i].amount) : i \in DOMAIN more}
          = {{i} \X (1 .. g[i]) : i \in DOMAIN g}
    BY <1>5, <1>8
  <2> QED
    BY <2>1 DEF Spent, Sum
<1> QED
  BY <1>2, <1>15, <1>16, <1>17, <1>18

LEMMA RunsOfPlans ==
  ASSUME PlansTyped
  PROVE  /\ dca_run.phase = "evaluating" => dca_run \in EvaluatingRun
         /\ dca_run.phase = "ended" => dca_run \in EndedRun
         /\ dca_run.phase \in {"none", "evaluating", "ended"}
         /\ NoPlanRun.phase = "none"
         /\ dca_run = NoPlanRun \/ dca_run.phase \in {"evaluating", "ended"}
  BY DEF PlansTyped, EvaluatingRun, EndedRun, NoPlanRun

\* A decision to buy is made only when it is due.
LEMMA DueWhenDecided ==
  ASSUME dca_run \in EvaluatingRun, NEW row \in PlanConfig, NEW plan \in PlanState, NEW market
  PROVE  /\ evaluate_plan(row, plan, market) \in PlanDecision
         /\ evaluate_plan(row, plan, market).code = "BUY_DUE" =>
              plan.last_buy_at = NoBuy \/ dca_run.now >= plan.last_buy_at + row.cadence
<1>1. /\ dca_run.now \in Nat /\ plan.last_buy_at \in Nat
      /\ row.cadence \in Nat /\ row.base \in Nat
  BY PlanFiguresAreNumbers DEF EvaluatingRun, PlanState, PlanConfig
<1>2. row.base * dip_buy_multiplier \in Nat
  BY <1>1, PlanFiguresAreNumbers
<1>3. CASE market = "no price"
  BY <1>3 DEF evaluate_plan, PlanDecision
<1>4. CASE market # "no price" /\ dca_run.account.cash < min_cash_reserve
  BY <1>4 DEF evaluate_plan, PlanDecision
<1>5. CASE market # "no price" /\ ~ (dca_run.account.cash < min_cash_reserve)
  <2>1. PICK d : d = evaluate_plan(row, plan, market)
    OBVIOUS
  <2>2. d = IF plan.last_buy_at # NoBuy /\ dca_run.now - plan.last_buy_at < row.cadence
              THEN [code |-> "SKIP_ALREADY_BOUGHT_THIS_WINDOW", amount |-> 0]
            ELSE IF dca_run.account.value > 0 /\ row.base > dca_run.account.value
              THEN [code |-> "BLOCKED_POLICY", amount |-> 0]
            ELSE [code |-> "BUY_DUE",
                  amount |-> IF market = "dip" THEN row.base * dip_buy_multiplier ELSE row.base]
    BY <1>5, <2>1 DEF evaluate_plan
  <2>3. CASE plan.last_buy_at # NoBuy /\ dca_run.now - plan.last_buy_at < row.cadence
    BY <2>1, <2>2, <2>3 DEF PlanDecision
  <2>4. CASE ~ (plan.last_buy_at # NoBuy /\ dca_run.now - plan.last_buy_at < row.cadence)
    <3>1. plan.last_buy_at = NoBuy \/ dca_run.now >= plan.last_buy_at + row.cadence
      BY <1>1, <2>4
    <3>2. (IF market = "dip" THEN row.base * dip_buy_multiplier ELSE row.base) \in Nat
      BY <1>1, <1>2
    <3>3. d \in PlanDecision
      BY <2>2, <2>4, <3>2 DEF PlanDecision
    <3> QED
      BY <2>1, <3>1, <3>3
  <2> QED
    BY <2>3, <2>4
<1> QED
  BY <1>3, <1>4, <1>5

-----------------------------------------------------------------------------
LEMMA DcaBegins == DcaInit => BooksKept
<1> SUFFICES ASSUME DcaInit PROVE BooksKept
  OBVIOUS
<1>1. NoConfig \in PlanConfig /\ NoState \in PlanState
  BY PlanFiguresAreNumbers DEF NoConfig, NoState, PlanConfig, PlanState
<1>2. PlansTyped
  BY <1>1, PlanFiguresAreNumbers DEF DcaInit, PlansTyped
<1>3. BooksAgree
  BY SpentOnNothing DEF DcaInit, BooksAgree, NoState
<1>4. DecidedIsDue /\ OncePerWindow /\ ReportedIsSaved
  BY DEF DcaInit, DecidedIsDue, OncePerWindow, ReportedIsSaved, NoPlanRun
<1> QED
  BY <1>2, <1>3, <1>4 DEF BooksKept

\* The books are those of the state and the audit trail alone.
LEMMA BooksStay ==
  ASSUME BooksKept, UNCHANGED <<dca_state, dca_audit>>
  PROVE  BooksAgree' /\ OncePerWindow'
<1>1. \A t \in Plans : Spent(dca_audit[t])' = Spent(dca_audit[t]) /\ LastBuy(t)' = LastBuy(t)
  BY DEF Spent, LastBuy
<1> QED
  BY <1>1 DEF BooksKept, BooksAgree, OncePerWindow

LEMMA OperatorKeepsBooks ==
  ASSUME BooksKept, NEW t \in Plans, NEW row \in PlanConfig, ConfigSaved(t, row)
  PROVE  BooksKept'
<1>1. PlansTyped'
  BY DEF BooksKept, PlansTyped, ConfigSaved
<1>2. BooksAgree' /\ OncePerWindow'
  BY BooksStay DEF ConfigSaved
<1>3. DecidedIsDue'
  BY DEF BooksKept, DecidedIsDue, ConfigSaved, PlanBought
<1>4. ReportedIsSaved'
  BY DEF BooksKept, ReportedIsSaved, ConfigSaved, PlanBought, LastBuy
<1> QED
  BY <1>1, <1>2, <1>3, <1>4 DEF BooksKept

LEMMA ConfigureKeepsBooks ==
  ASSUME BooksKept, NEW t \in Plans,
         \/ \E policy \in PlanPolicies :
              create_dca_config(t, policy) \/ update_dca_config(t, policy)
         \/ enable_dca_config(t) \/ disable_dca_config(t)
  PROVE  BooksKept'
<1>1. dca_config[t] \in PlanConfig
  BY DEF BooksKept, PlansTyped
<1>2. ASSUME NEW policy \in PlanPolicies, create_dca_config(t, policy)
      PROVE  BooksKept'
  <2>1. [enabled |-> FALSE, cadence |-> policy.cadence, base |-> policy.base] \in PlanConfig
    BY PlanFiguresAreNumbers DEF PlanConfig
  <2> QED
    BY <1>2, <2>1, OperatorKeepsBooks DEF create_dca_config
<1>3. ASSUME NEW policy \in PlanPolicies, update_dca_config(t, policy)
      PROVE  BooksKept'
  <2>1. [dca_config[t] EXCEPT !.cadence = policy.cadence, !.base = policy.base] \in PlanConfig
    BY <1>1, PlanFiguresAreNumbers DEF PlanConfig
  <2> QED
    BY <1>3, <2>1, OperatorKeepsBooks DEF update_dca_config
<1>4. /\ [dca_config[t] EXCEPT !.enabled = TRUE] \in PlanConfig
      /\ [dca_config[t] EXCEPT !.enabled = FALSE] \in PlanConfig
  BY <1>1 DEF PlanConfig
<1>5. CASE enable_dca_config(t)
  BY <1>4, <1>5, OperatorKeepsBooks DEF enable_dca_config
<1>6. CASE disable_dca_config(t)
  BY <1>4, <1>6, OperatorKeepsBooks DEF disable_dca_config
<1> QED
  BY <1>2, <1>3, <1>5, <1>6

LEMMA NextPlanDayKeepsBooks ==
  ASSUME BooksKept, NextPlanDay
  PROVE  BooksKept'
<1>1. PlansTyped'
  BY PlanFiguresAreNumbers DEF BooksKept, PlansTyped, NextPlanDay
<1>2. BooksAgree' /\ OncePerWindow'
  BY BooksStay DEF NextPlanDay
<1>3. DecidedIsDue'
  BY DEF BooksKept, DecidedIsDue, NextPlanDay, PlanBought
<1>4. ReportedIsSaved'
  BY DEF BooksKept, ReportedIsSaved, NextPlanDay, PlanBought, LastBuy
<1> QED
  BY <1>1, <1>2, <1>3, <1>4 DEF BooksKept

LEMMA StartKeepsBooks ==
  ASSUME BooksKept, NEW account \in Snapshots, StartPlans(account)
  PROVE  BooksKept'
<1>1. /\ dca_run'.phase = "evaluating" /\ dca_run'.todo = list_enabled
      /\ dca_run'.rows = [t \in list_enabled |-> dca_config[t]]
      /\ dca_run'.decided = [t \in Plans |-> Undecided]
  BY DEF StartPlans
<1>2. list_enabled \subseteq Plans
  BY DEF list_enabled
<1>3. Undecided \in PlanDecision /\ Undecided.code = "none"
  BY DEF Undecided, PlanDecision
<1>4. [t \in list_enabled |-> dca_config[t]] \in [list_enabled -> PlanConfig]
  BY <1>2 DEF BooksKept, PlansTyped
<1>5. [t \in list_enabled |-> dca_config[t]] \in UNION {[S -> PlanConfig] : S \in SUBSET Plans}
  BY <1>2, <1>4
<1>6. [t \in Plans |-> Undecided] \in [Plans -> PlanDecision]
  BY <1>3
<1>7. dca_day \in 0 .. LastPlanDay
  BY DEF BooksKept, PlansTyped
<1>8. dca_run' \in EvaluatingRun
  BY <1>2, <1>5, <1>6, <1>7 DEF StartPlans, EvaluatingRun
<1>9. PlansTyped'
  BY <1>8 DEF BooksKept, PlansTyped, StartPlans
<1>10. BooksAgree' /\ OncePerWindow'
  BY BooksStay DEF StartPlans
<1>11. \A t \in Plans : ~ PlanBought(t)'
  BY <1>1, <1>3 DEF PlanBought
<1>12. DecidedIsDue'
  BY <1>1, <1>11 DEF DecidedIsDue
<1>13. ReportedIsSaved'
  BY <1>1 DEF ReportedIsSaved
<1> QED
  BY <1>9, <1>10, <1>12, <1>13 DEF BooksKept

LEMMA EvaluateKeepsBooks ==
  ASSUME BooksKept, NEW t \in Plans, NEW market, EvaluatePlan(t, market)
  PROVE  BooksKept'
<1> DEFINE d == evaluate_plan(dca_run.rows[t], dca_state[t], market)
<1>1. dca_run \in EvaluatingRun /\ dca_run.phase = "evaluating" /\ t \in dca_run.todo
  BY RunsOfPlans DEF BooksKept, EvaluatePlan, ItsTurn
<1>2. t \in DOMAIN dca_run.rows
  BY <1>1 DEF BooksKept, DecidedIsDue
<1>3. dca_run.rows[t] \in PlanConfig
  <2>1. PICK S \in SUBSET Plans : dca_run.rows \in [S -> PlanConfig]
    BY <1>1 DEF EvaluatingRun
  <2> QED
    BY <1>2, <2>1
<1>4. dca_state[t] \in PlanState
  BY DEF BooksKept, PlansTyped
<1>5. /\ d \in PlanDecision
      /\ d.code = "BUY_DUE" =>
           \/ dca_state[t].last_buy_at = NoBuy
           \/ dca_run.now >= dca_state[t].last_buy_at + dca_run.rows[t].cadence
  BY <1>1, <1>3, <1>4, DueWhenDecided
<1> HIDE DEF d
<1>6. dca_run' = [dca_run EXCEPT !.todo = @ \ {t}, !.decided[t] = d]
  BY DEF EvaluatePlan, d
<1>7. /\ dca_run'.phase = "evaluating" /\ dca_run'.todo = dca_run.todo \ {t}
      /\ dca_run'.rows = dca_run.rows /\ dca_run'.now = dca_run.now
      /\ dca_run'.decided = [dca_run.decided EXCEPT ![t] = d]
      /\ dca_run' \in EvaluatingRun
  BY <1>1, <1>5, <1>6 DEF EvaluatingRun
<1>8. PlansTyped'
  BY <1>7 DEF BooksKept, PlansTyped, EvaluatePlan
<1>9. BooksAgree' /\ OncePerWindow'
  BY BooksStay DEF EvaluatePlan
<1>10. ReportedIsSaved'
  BY <1>7 DEF ReportedIsSaved
<1>11. UNCHANGED dca_state
  BY DEF EvaluatePlan
<1>12. dca_run.decided \in [Plans -> PlanDecision]
  BY <1>1 DEF EvaluatingRun
<1>13. ASSUME NEW u \in Plans, PlanBought(u)'
       PROVE  /\ u \in DOMAIN dca_run'.rows
              /\ \/ dca_state'[u].last_buy_at = NoBuy
                 \/ dca_run'.now >= dca_state'[u].last_buy_at + dca_run'.rows[u].cadence
  <2>1. CASE u = t
    BY <1>2, <1>5, <1>7, <1>11, <1>12, <1>13, <2>1 DEF PlanBought
  <2>2. CASE u # t
    <3>1. PlanBought(u)
      BY <1>7, <1>12, <1>13, <2>2 DEF PlanBought
    <3> QED
      BY <1>1, <1>7, <1>11, <3>1 DEF BooksKept, DecidedIsDue
  <2> QED
    BY <2>1, <2>2
<1>14. dca_run'.todo \subseteq DOMAIN dca_run'.rows
  BY <1>1, <1>7 DEF BooksKept, DecidedIsDue
<1>15. NoBuy' = NoBuy
  BY DEF NoBuy
<1>16. DecidedIsDue'
  BY <1>13, <1>14, <1>15 DEF DecidedIsDue
<1> QED
  BY <1>8, <1>9, <1>10, <1>16 DEF BooksKept

LEMMA PlanFailsKeepsBooks ==
  ASSUME BooksKept, NEW t \in Plans, NEW failed \in {"no", "statement", "flush"},
         PlanFails(t, failed)
  PROVE  BooksKept'
<1>1. dca_run \in EvaluatingRun /\ dca_run.phase = "evaluating" /\ t \in dca_run.todo
  BY RunsOfPlans DEF BooksKept, PlanFails, ItsTurn
<1>2. /\ dca_run'.phase = "evaluating" /\ dca_run'.todo = dca_run.todo \ {t}
      /\ dca_run'.rows = dca_run.rows /\ dca_run'.now = dca_run.now
      /\ dca_run'.decided = dca_run.decided
      /\ dca_run' \in EvaluatingRun
  BY <1>1 DEF PlanFails, EvaluatingRun
<1>3. UNCHANGED <<dca_config, dca_state, dca_audit, dca_day>>
  BY DEF PlanFails
<1>4. PlansTyped'
  BY <1>2, <1>3 DEF BooksKept, PlansTyped
<1>5. BooksAgree' /\ OncePerWindow'
  BY <1>3, BooksStay
<1>6. ReportedIsSaved'
  BY <1>2 DEF ReportedIsSaved
<1>7. DecidedIsDue'
  BY <1>1, <1>2, <1>3 DEF BooksKept, DecidedIsDue, PlanBought
<1> QED
  BY <1>4, <1>5, <1>6, <1>7 DEF BooksKept

\* A plan that is bought has its state and its audit trail carried on by the same buy.
LEMMA BuyIsBooked ==
  ASSUME BooksKept, dca_run \in EvaluatingRun, NEW t \in Plans, PlanBought(t),
         dca_state'[t] = PlanUpdated(t), dca_audit'[t] = PlanAudited(t)
  PROVE  /\ dca_state'[t] \in PlanState /\ dca_audit'[t] \in Seq(PlanBuy)
         /\ dca_state'[t].count = Len(dca_audit'[t])
         /\ dca_state'[t].total = Spent(dca_audit'[t])
         /\ dca_audit'[t] # <<>> /\ LastBuy(t)'.on = dca_run.now
         /\ dca_state'[t].last_buy_at = dca_run.now
         /\ \A i \in DOMAIN dca_audit'[t] :
              i > 1 => dca_audit'[t][i].on >= dca_audit'[t][i - 1].on + dca_audit'[t][i].cadence
<1> DEFINE b == [on |-> dca_run.now, amount |-> dca_run.decided[t].amount,
                 cadence |-> dca_run.rows[t].cadence]
           n == Len(dca_audit[t])
<1>1. /\ t \in DOMAIN dca_run.rows
      /\ \/ dca_state[t].last_buy_at = NoBuy
         \/ dca_run.now >= dca_state[t].last_buy_at + dca_run.rows[t].cadence
  BY DEF BooksKept, DecidedIsDue, EvaluatingRun
<1>2. dca_run.rows[t] \in PlanConfig
  <2>1. PICK S \in SUBSET Plans : dca_run.rows \in [S -> PlanConfig]
    BY DEF EvaluatingRun
  <2> QED
    BY <1>1, <2>1
<1>3. /\ dca_run.now \in 0 .. LastPlanDay /\ dca_run.decided[t].amount \in Nat
      /\ dca_run.rows[t].cadence \in Nat
  BY <1>2 DEF EvaluatingRun, PlanDecision, PlanConfig
<1>4. b \in PlanBuy /\ b.on = dca_run.now /\ b.amount = dca_run.decided[t].amount
      /\ b.cadence = dca_run.rows[t].cadence
  BY <1>3 DEF PlanBuy
<1>5. dca_audit[t] \in Seq(PlanBuy) /\ dca_state[t] \in PlanState /\ n \in Nat
  BY DEF BooksKept, PlansTyped
<1>6. dca_audit'[t] = Append(dca_audit[t], b)
  BY DEF PlanAudited
<1>7. /\ dca_state'[t].last_buy_at = dca_run.now
      /\ dca_state'[t].total = dca_state[t].total + b.amount
      /\ dca_state'[t].count = dca_state[t].count + 1
      /\ dca_state'[t] = [last_buy_at |-> dca_run.now,
                          total |-> dca_state[t].total + b.amount,
                          count |-> dca_state[t].count + 1]
  BY DEF PlanUpdated
<1> HIDE DEF b
<1>8. /\ dca_audit'[t] \in Seq(PlanBuy) /\ Len(dca_audit'[t]) = n + 1
      /\ dca_audit'[t][n + 1] = b /\ DOMAIN dca_audit'[t] = 1 .. n + 1
      /\ DOMAIN dca_audit[t] = 1 .. n
      /\ \A i \in 1 .. n : dca_audit'[t][i] = dca_audit[t][i]
  BY <1>4, <1>5, <1>6
<1>9. /\ dca_state[t].count = n /\ dca_state[t].total = Spent(dca_audit[t])
      /\ dca_state[t].last_buy_at = IF dca_audit[t] = <<>> THEN NoBuy ELSE dca_audit[t][n].on
  BY DEF BooksKept, BooksAgree, LastBuy
<1>10. Spent(Append(dca_audit[t], b)) = Spent(dca_audit[t]) + b.amount
  BY <1>4, <1>5, SpentOnOneMore
<1>11. dca_state[t].total \in Nat /\ dca_state[t].count \in Nat
  BY <1>5 DEF PlanState
<1>12. b.amount \in Nat /\ dca_run.now \in 0 .. NoBuy
  BY <1>3, <1>4, PlanFiguresAreNumbers
<1>13. dca_state'[t] \in PlanState
  BY <1>7, <1>11, <1>12 DEF PlanState
<1>14. dca_state'[t].count = Len(dca_audit'[t]) /\ dca_state'[t].total = Spent(dca_audit'[t])
  BY <1>6, <1>7, <1>8, <1>9, <1>10
<1>15. dca_audit'[t] # <<>> /\ LastBuy(t)'.on = dca_run.now
  BY <1>4, <1>5, <1>8 DEF LastBuy
<1>16. ASSUME NEW i \in DOMAIN dca_audit'[t], i > 1
       PROVE  dca_audit'[t][i].on >= dca_audit'[t][i - 1].on + dca_audit'[t][i].cadence
  <2>1. CASE i \in 1 .. n
    <3>1. i \in DOMAIN dca_audit[t] /\ i - 1 \in 1 .. n
      BY <1>5, <1>8, <1>16, <2>1
    <3>2. dca_audit[t][i].on >= dca_audit[t][i - 1].on + dca_audit[t][i].cadence
      BY <1>16, <3>1 DEF BooksKept, OncePerWindow
    <3> QED
      BY <1>8, <2>1, <3>1, <3>2
  <2>2. CASE i = n + 1
    <3>1. n \in 1 .. n /\ i - 1 = n /\ dca_audit[t] # <<>>
      BY <1>5, <1>16, <2>2
    <3>2. dca_audit[t][n] \in PlanBuy
      BY <1>5, <3>1
    <3>3. dca_state[t].last_buy_at = dca_audit[t][n].on /\ dca_audit[t][n].on \in 0 .. LastPlanDay
      BY <1>9, <3>1, <3>2 DEF PlanBuy
    <3>4. dca_state[t].last_buy_at # NoBuy
      BY <3>3, PlanFiguresAreNumbers
    <3>5. dca_run.now >= dca_audit[t][n].on + dca_run.rows[t].cadence
      BY <1>1, <3>3, <3>4
    <3> QED
      BY <1>4, <1>8, <2>2, <3>1, <3>5
  <2> QED
    BY <1>5, <1>8, <2>1, <2>2
<1> QED
  BY <1>7, <1>8, <1>13, <1>14, <1>15, <1>16

LEMMA CommitKeepsBooks ==
  ASSUME BooksKept, CommitPlans
  PROVE  BooksKept'
<1>1. dca_run \in EvaluatingRun /\ dca_run.phase = "evaluating"
  BY RunsOfPlans DEF BooksKept, CommitPlans
<1>2. /\ dca_run'.phase = "ended" /\ dca_run'.now = dca_run.now
      /\ dca_run'.decided = dca_run.decided /\ dca_run' \in EndedRun
  BY <1>1 DEF CommitPlans, EvaluatingRun, EndedRun
<1>3. UNCHANGED <<dca_config, dca_day>>
  BY DEF CommitPlans
<1>4. \A t \in Plans : PlanBought(t)' = PlanBought(t)
  BY <1>2 DEF PlanBought
<1>5. DecidedIsDue'
  BY <1>2 DEF DecidedIsDue
<1>6. CASE dca_run.failed # "no"
  <2>1. UNCHANGED <<dca_state, dca_audit>>
    BY <1>6 DEF CommitPlans
  <2>2. \A t \in Plans : dca_run.decided[t] = Undecided
    BY <1>1, <1>6 DEF CommitPlans, CommitRaises, EvaluatingRun
  <2>3. \A t \in Plans : ~ PlanBought(t)'
    BY <1>4, <2>2 DEF PlanBought, Undecided
  <2>4. ReportedIsSaved'
    BY <2>3 DEF ReportedIsSaved
  <2>5. PlansTyped'
    BY <1>2, <1>3, <2>1 DEF BooksKept, PlansTyped
  <2>6. BooksAgree' /\ OncePerWindow'
    BY <2>1, BooksStay
  <2> QED
    BY <1>5, <2>4, <2>5, <2>6 DEF BooksKept
<1>7. CASE dca_run.failed = "no"
  <2>1. /\ dca_state' = [t \in Plans |-> PlanUpdated(t)]
        /\ dca_audit' = [t \in Plans |-> PlanAudited(t)]
    BY <1>7 DEF CommitPlans
  <2>2. ASSUME NEW t \in Plans, PlanBought(t)
        PROVE  /\ dca_state'[t] \in PlanState /\ dca_audit'[t] \in Seq(PlanBuy)
               /\ dca_state'[t].count = Len(dca_audit'[t])
               /\ dca_state'[t].total = Spent(dca_audit'[t])
               /\ dca_audit'[t] # <<>> /\ LastBuy(t)'.on = dca_run.now
               /\ dca_state'[t].last_buy_at = dca_run.now
               /\ \A i \in DOMAIN dca_audit'[t] :
                    i > 1 => dca_audit'[t][i].on
                               >= dca_audit'[t][i - 1].on + dca_audit'[t][i].cadence
    BY <1>1, <2>1, <2>2, BuyIsBooked
  <2>3. ASSUME NEW t \in Plans, ~ PlanBought(t)
        PROVE  dca_state'[t] = dca_state[t] /\ dca_audit'[t] = dca_audit[t]
               /\ LastBuy(t)' = LastBuy(t)
    BY <2>1, <2>3 DEF PlanUpdated, PlanAudited, LastBuy
  <2>4. /\ \A t \in Plans : dca_state'[t] \in PlanState /\ dca_audit'[t] \in Seq(PlanBuy)
        /\ DOMAIN dca_state' = Plans /\ DOMAIN dca_audit' = Plans
    BY <2>1, <2>2, <2>3 DEF BooksKept, PlansTyped
  <2>5. dca_state' \in [Plans -> PlanState] /\ dca_audit' \in [Plans -> Seq(PlanBuy)]
    BY <2>1, <2>4
  <2>6. PlansTyped'
    BY <1>2, <1>3, <2>5 DEF BooksKept, PlansTyped
  <2>7. ASSUME NEW t \in Plans
        PROVE  /\ dca_state'[t].count = Len(dca_audit'[t])
               /\ dca_state'[t].total = Spent(dca_audit'[t])
               /\ dca_state'[t].last_buy_at
                    = IF dca_audit'[t] = <<>> THEN NoBuy ELSE LastBuy(t)'.on
    <3>1. CASE PlanBought(t)
      BY <2>2, <3>1
    <3>2. CASE ~ PlanBought(t)
      BY <2>3, <3>2 DEF BooksKept, BooksAgree
    <3> QED
      BY <3>1, <3>2
  <2>8. BooksAgree'
    BY <2>7 DEF BooksAgree, Spent, NoBuy
  <2>9. OncePerWindow'
    BY <2>2, <2>3 DEF BooksKept, OncePerWindow
  <2>10. ReportedIsSaved'
    BY <1>2, <1>4, <2>2 DEF ReportedIsSaved
  <2> QED
    BY <1>5, <2>6, <2>8, <2>9, <2>10 DEF BooksKept
<1> QED
  BY <1>6, <1>7

LEMMA RunEndKeepsBooks ==
  ASSUME BooksKept, ReturnSummary \/ PlansDie
  PROVE  BooksKept'
<1>1. dca_run' = NoPlanRun /\ UNCHANGED <<dca_config, dca_state, dca_audit, dca_day>>
  BY DEF ReturnSummary, PlansDie
<1>2. PlansTyped'
  BY <1>1 DEF BooksKept, PlansTyped
<1>3. BooksAgree' /\ OncePerWindow'
  BY <1>1, BooksStay
<1>4. DecidedIsDue' /\ ReportedIsSaved'
  BY <1>1 DEF DecidedIsDue, ReportedIsSaved, NoPlanRun
<1> QED
  BY <1>2, <1>3, <1>4 DEF BooksKept

(* The inductive invariant of the scheduled purchases: what a run has      *)
(* decided to buy is still due by the plan's state when it commits, and    *)
(* state and audit trail are carried on together or not at all.            *)
THEOREM PlansStayBooked == DcaSpec => []BooksKept
<1>1. ASSUME BooksKept, DcaNext PROVE BooksKept'
  <2>1. ASSUME NEW t \in Plans, NEW policy \in PlanPolicies,
               create_dca_config(t, policy) \/ update_dca_config(t, policy)
        PROVE  BooksKept'
    BY <1>1, <2>1, ConfigureKeepsBooks
  <2>2. ASSUME NEW t \in Plans, enable_dca_config(t) \/ disable_dca_config(t)
        PROVE  BooksKept'
    BY <1>1, <2>2, ConfigureKeepsBooks
  <2>3. ASSUME NEW account \in Snapshots, StartPlans(account) PROVE BooksKept'
    BY <1>1, <2>3, StartKeepsBooks
  <2>4. ASSUME NEW t \in Plans, NEW market \in {"no price", "usual", "dip"},
               EvaluatePlan(t, market)
        PROVE  BooksKept'
    BY <1>1, <2>4, EvaluateKeepsBooks
  <2>5. ASSUME NEW t \in Plans, NEW failed \in {"no", "statement", "flush"},
               PlanFails(t, failed)
        PROVE  BooksKept'
    BY <1>1, <2>5, PlanFailsKeepsBooks
  <2>6. CASE CommitPlans
    BY <1>1, <2>6, CommitKeepsBooks
  <2>7. CASE ReturnSummary \/ PlansDie
    BY <1>1, <2>7, RunEndKeepsBooks
  <2>8. CASE NextPlanDay
    BY <1>1, <2>8, NextPlanDayKeepsBooks
  <2> QED
    BY <1>1, <2>1, <2>2, <2>3, <2>4, <2>5, <2>6, <2>7, <2>8 DEF DcaNext
<1>2. ASSUME BooksKept, UNCHANGED dca_vars PROVE BooksKept'
  <2>1. UNCHANGED <<dca_config, dca_state, dca_audit, dca_day, dca_run>>
    BY <1>2 DEF dca_vars
  <2>2. BooksAgree' /\ OncePerWindow'
    BY <1>2, <2>1, BooksStay
  <2>3. PlansTyped'
    BY <1>2, <2>1 DEF BooksKept, PlansTyped
  <2>4. DecidedIsDue' /\ ReportedIsSaved'
    BY <1>2, <2>1 DEF BooksKept, DecidedIsDue, ReportedIsSaved, PlanBought, LastBuy
  <2> QED
    BY <2>2, <2>3, <2>4 DEF BooksKept
<1> QED
  BY <1>1, <1>2, DcaBegins, PTL DEF DcaSpec

(* A plan's state is the sum of its audit trail, no window is bought twice, *)
(* and a run that returns has saved what it reports.                       *)
THEOREM PlanAlwaysKeepsItsBooks == DcaSpec => []PlanKeepsItsBooks
<1>1. BooksKept => PlanKeepsItsBooks
  <2> SUFFICES ASSUME BooksKept PROVE PlanKeepsItsBooks
    OBVIOUS
  <2>1. PlansTypeOK
    BY RunsOfPlans DEF BooksKept, PlansTyped, PlansTypeOK, PlanConfig, PlanState
  <2> QED
    BY <2>1 DEF BooksKept, PlanKeepsItsBooks
<1> QED
  BY <1>1, PlansStayBooked, PTL
=============================================================================
