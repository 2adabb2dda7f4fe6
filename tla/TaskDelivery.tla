---------------------------- MODULE TaskDelivery ----------------------------
(***************************************************************************)
(* How a periodic task is delivered and run by one owner at a time         *)
(* (workers/celery_app.py, run_monitored_task of workers/tasks.py,         *)
(* core/redis.py task_lock, workers/dead_letter.py), over Celery.          *)
(*                                                                         *)
(* Beat publishes one message a period.  A message is acknowledged when    *)
(* its task has ended; if the worker is lost first, it is delivered again. *)
(* The body runs under a lock in Redis that is a lease, and a delivery     *)
(* that finds it held is skipped, unless it is a redelivery: that one may  *)
(* have met the lock of its own dead run, and is retried after the lease.  *)
(***************************************************************************)
EXTENDS Naturals, FiniteSets

CONSTANTS
    Periods,    \* the periods beat publishes for
    Messages,   \* places for messages
    Workers,    \* worker processes
    max_retries,
    time_limit, \* the hard limit of the task, in ticks
    exclusive_ttl_seconds,              \* the lease of the lock
    REDELIVERY_RETRY_MARGIN_SECONDS,
    NoOne

(* "The lease must outlive the task's hard time limit" (run_monitored_task). *)
ASSUME LeaseOutlivesLimit ==
    /\ {time_limit, exclusive_ttl_seconds, REDELIVERY_RETRY_MARGIN_SECONDS, max_retries}
         \subseteq Nat
    /\ time_limit < exclusive_ttl_seconds

ASSUME NoOneIsNobody == NoOne \notin Workers

VARIABLES
    message,    \* the messages: of which period, how often retried, whether
                \* redelivered, and the ticks until they may be delivered
    worker,     \* what each worker runs
    lock,       \* the lock of the task, its lease, and the period it is for
    published,  \* the periods beat has published
    fate        \* history: what became known of each period's run

task_vars == <<message, worker, lock, published, fate>>

NoMessage == [of |-> NoOne]
Idle == [phase |-> "idle"]
Free == [holder |-> NoOne, lease |-> 0, of |-> NoOne]

TaskInit ==
    /\ message = [m \in Messages |-> NoMessage]
    /\ worker = [w \in Workers |-> Idle]
    /\ lock = Free
    /\ published = {}
    /\ fate = [p \in Periods |-> {}]

At(w) == worker[w].at
RunOf(w) == message[At(w)].of
Known(p, what) == fate' = [fate EXCEPT ![p] = @ \union {what}]
Phase(w, phase) == worker' = [worker EXCEPT ![w].phase = phase]

(***************************************************************************)
(* The message broker.                                                     *)
(***************************************************************************)
(* beat_schedule.                                                          *)
Publish(p) ==
    /\ p \notin published
    /\ \E m \in Messages :
          /\ message[m] = NoMessage
          /\ message' = [message EXCEPT ![m] =
                 [of |-> p, retries |-> 0, redelivered |-> FALSE, eta |-> 0, taken |-> FALSE]]
    /\ published' = published \union {p}
    /\ UNCHANGED <<worker, lock, fate>>

Deliver(w) ==
    /\ worker[w] = Idle
    /\ \E m \in Messages :
          /\ message[m] # NoMessage
          /\ ~message[m].taken /\ message[m].eta = 0
          /\ message' = [message EXCEPT ![m].taken = TRUE]
          /\ worker' = [worker EXCEPT ![w] = [phase |-> "starting", at |-> m, elapsed |-> 0]]
    /\ UNCHANGED <<lock, published, fate>>

(* task_acks_late: the message goes when its task has ended.               *)
Acknowledged(w) ==
    /\ message' = [message EXCEPT ![At(w)] = NoMessage]
    /\ worker' = [worker EXCEPT ![w] = Idle]

(* A mutant of WorkerIsLost: the redelivery is not marked as one.           *)
RequeuedAsNew(w) ==
    /\ worker[w] # Idle
    /\ message' = [message EXCEPT ![At(w)].taken = FALSE]
    /\ worker' = [worker EXCEPT ![w] = Idle]
    /\ UNCHANGED <<lock, published, fate>>

(* task_reject_on_worker_lost: the message is queued again; what the run    *)
(* had not committed is rolled back, and its lock stays.                   *)
WorkerIsLost(w) ==
    /\ worker[w] # Idle
    /\ message' = [message EXCEPT ![At(w)].taken = FALSE, ![At(w)].redelivered = TRUE]
    /\ worker' = [worker EXCEPT ![w] = Idle]
    /\ UNCHANGED <<lock, published, fate>>

(***************************************************************************)
(* run_monitored_task.                                                     *)
(***************************************************************************)
(* task_lock yields True.                                                  *)
Acquire(w) ==
    /\ worker[w].phase = "starting"
    /\ lock = Free
    /\ lock' = [holder |-> w, lease |-> exclusive_ttl_seconds, of |-> RunOf(w)]
    /\ Phase(w, "body")
    /\ UNCHANGED <<message, published, fate>>

(* It yields False, because somebody holds the lock or because Redis did   *)
(* not answer.                                                             *)
NotGranted(w, why) ==
    /\ worker[w].phase = "starting"
    /\ why = "held" => lock # Free

(* "tasks.skipped_locked": a first delivery is dropped.                    *)
SkippedLocked(w, why) ==
    /\ NotGranted(w, why)
    /\ ~message[At(w)].redelivered
    /\ IF why = "unavailable" THEN Known(RunOf(w), "redis was not there")
       ELSE IF lock.of # RunOf(w) THEN Known(RunOf(w), "another run was there")
       ELSE UNCHANGED fate
    /\ Acknowledged(w)
    /\ UNCHANGED <<lock, published>>

(* The redelivered run waits out the lease.                                *)
Countdown == exclusive_ttl_seconds + REDELIVERY_RETRY_MARGIN_SECONDS

(* task.retry publishes a new message; the old one is acknowledged after.  *)
Retry(w, why) ==
    /\ NotGranted(w, why)
    /\ message[At(w)].redelivered
    /\ message[At(w)].retries < max_retries
    /\ \E m \in Messages :
          /\ message[m] = NoMessage
          /\ message' = [message EXCEPT ![m] =
                 [message[At(w)] EXCEPT !.retries = @ + 1, !.redelivered = FALSE,
                                        !.eta = Countdown, !.taken = FALSE]]
    /\ Phase(w, "ended")
    /\ UNCHANGED <<lock, published, fate>>

(* MaxRetriesExceededError: a failure after the last retry.                *)
RetriesExceeded(w, why) ==
    /\ NotGranted(w, why)
    /\ message[At(w)].redelivered
    /\ message[At(w)].retries >= max_retries
    /\ Known(RunOf(w), "dead letter")
    /\ Acknowledged(w)
    /\ UNCHANGED <<lock, published>>

(* The release script deletes only one's own lock.                         *)
Released(w) == IF lock.holder = w THEN Free ELSE lock

(* The body has committed.                                                 *)
Complete(w) ==
    /\ worker[w].phase = "body"
    /\ lock' = Released(w)
    /\ Known(RunOf(w), "done")
    /\ Phase(w, "ended")
    /\ UNCHANGED <<message, published>>

End(w) ==
    /\ worker[w].phase = "ended"
    /\ Acknowledged(w)
    /\ UNCHANGED <<lock, published, fate>>

(* handle_task_failure for an exception of the body.                       *)
DeadLettered(w) ==
    IF message[At(w)].retries >= max_retries THEN {"dead letter"} ELSE {}

(* The body raises, by itself or at its soft limit: the failure heartbeat   *)
(* is saved if the database lets it, and the task is not retried.          *)
Raise(w, heartbeat) ==
    /\ worker[w].phase = "body"
    /\ lock' = Released(w)
    /\ fate' = [fate EXCEPT ![RunOf(w)] =
           @ \union heartbeat \union DeadLettered(w) \union {"raised"}]
    /\ Acknowledged(w)
    /\ UNCHANGED published

(* The hard limit: the main process kills the worker's process and reports  *)
(* the failure, which is final.  The lock stays.                           *)
HardLimit(w) ==
    /\ worker[w] # Idle
    /\ worker[w].elapsed = time_limit
    /\ Known(RunOf(w), "dead letter")
    /\ Acknowledged(w)
    /\ UNCHANGED <<lock, published>>

Shortened(lease) == IF lease > 0 THEN lease - 1 ELSE 0

(* Nobody runs past the hard limit.                                        *)
TaskTick ==
    /\ \E w \in Workers : worker[w] # Idle \/ lock # Free \/ \E m \in Messages :
          message[m] # NoMessage /\ message[m].eta > 0
    /\ \A w \in Workers : worker[w] # Idle => worker[w].elapsed < time_limit
    /\ worker' = [w \in Workers |->
           IF worker[w] = Idle THEN Idle ELSE [worker[w] EXCEPT !.elapsed = @ + 1]]
    /\ lock' = IF Shortened(lock.lease) = 0 THEN Free ELSE [lock EXCEPT !.lease = Shortened(@)]
    /\ message' = [m \in Messages |-> IF message[m] = NoMessage THEN NoMessage
           ELSE [message[m] EXCEPT !.eta = IF @ > 0 THEN @ - 1 ELSE 0]]
    /\ UNCHANGED <<published, fate>>

TaskNext ==
    \/ \E p \in Periods : Publish(p)
    \/ \E w \in Workers :
          \/ Deliver(w) \/ WorkerIsLost(w) \/ Acquire(w) \/ Complete(w) \/ End(w) \/ HardLimit(w)
          \/ \E why \in {"held", "unavailable"} :
                SkippedLocked(w, why) \/ Retry(w, why) \/ RetriesExceeded(w, why)
          \/ \E heartbeat \in {{}, {"failure heartbeat"}} : Raise(w, heartbeat)
    \/ TaskTick

TaskSpec == TaskInit /\ [][TaskNext]_task_vars

(***************************************************************************)
(* Properties.                                                             *)
(***************************************************************************)
Fates == {"done", "dead letter", "failure heartbeat", "raised", "another run was there",
          "redis was not there"}

(* The type invariant; a message is with one worker at most.                *)
TaskTypeOK ==
    /\ \A m \in Messages : message[m] = NoMessage \/ message[m] \in
          [of : published, retries : 0 .. max_retries, redelivered : BOOLEAN,
           eta : 0 .. Countdown, taken : BOOLEAN]
    /\ \A w \in Workers : worker[w] = Idle \/
          /\ worker[w] \in [phase : {"starting", "body", "ended"}, at : Messages,
                            elapsed : 0 .. time_limit]
          /\ message[At(w)] # NoMessage /\ message[At(w)].taken
    /\ \A v, w \in Workers : v # w /\ worker[v] # Idle /\ worker[w] # Idle => At(v) # At(w)
    /\ lock \in [holder : Workers \union {NoOne}, lease : 0 .. exclusive_ttl_seconds,
                 of : Periods \union {NoOne}]
    /\ published \subseteq Periods /\ fate \in [Periods -> SUBSET Fates]

(* Two runs of the task never overlap, although the lock is a lease and      *)
(* the runs of dead workers leave it behind.                               *)
OneBodyAtATime ==
    \A v, w \in Workers : worker[v].phase = "body" /\ worker[w].phase = "body" => v = w

(* A period's run is not lost with its worker: until it is done, its message *)
(* is there, or its end is on record as a dead letter or a heartbeat, or it *)
(* came while another period's run had the lock.  Two exceptions are the    *)
(* code's: Redis does not answer, and a body that raises while its task has *)
(* retries left that nobody makes, when the heartbeat cannot be saved.      *)
NoRunIsLost ==
    \A p \in published :
        \/ \E m \in Messages : message[m].of = p
        \/ fate[p] \intersect {"done", "dead letter", "failure heartbeat",
                               "another run was there", "redis was not there"} # {}
        \/ "raised" \in fate[p] /\ max_retries > 0

(* A periodic task has one run at a time and none is lost with a worker.    *)
RunsAreKept == TaskTypeOK /\ OneBodyAtATime /\ NoRunIsLost
=============================================================================
