----------------------------- MODULE DemoSchedule -----------------------------
(***************************************************************************)
(* When the demo worker runs (services/demo_reconciliation_scheduler.py),  *)
(* and the settings row in which the scheduler, the worker, the market     *)
(* monitor and the heartbeats each keep an entry of one JSON value, which   *)
(* every one of them reads as a whole and writes as a whole.  What the     *)
(* worker does to orders is DemoReconciliation.                            *)
(*                                                                         *)
(* A session sees what was committed when it reads.  The flush takes the   *)
(* row's lock, the commit releases it.  A heartbeat reads under the lock,   *)
(* but not that of a task whose session holds the row since it began       *)
(* (check_eod_flatten), as a locking read does not refresh it.             *)
(*                                                                         *)
(* A time that is not set is 0.  An entry that is not the scheduler's is a  *)
(* bit that every writing of it turns.  What the record says only of the   *)
(* last tick, its outcome and its duration, is left out.                   *)
(***************************************************************************)
EXTENDS Naturals

CONSTANTS
    Ticks,      \* sessions that tick: the background loop's and operators'
    Loop,       \* the first of these, which respects the interval
    Writers,    \* sessions that write one of the other entries
    EntryOf,    \* which one
    Locking,    \* the writers that read under the row's lock
    Interval,   \* DEMO_RECONCILIATION_SCHEDULER_INTERVAL_SECONDS, in time units
    Backoff,    \* DEMO_RECONCILIATION_SCHEDULER_BACKOFF_SECONDS
    LastTime, MaxRuns,  \* bounds of the model
    Nobody

ScheduleSessions == Ticks \union Writers

ASSUME SessionsAndTimes ==
    /\ Ticks \cap Writers = {} /\ Nobody \notin ScheduleSessions
    /\ EntryOf \in [Writers -> {"worker", "monitor", "heartbeats"}]
    /\ Locking \subseteq Writers
    /\ Interval \in Nat /\ Backoff \in Nat \ {0}

VARIABLES
    sch_now,
    sch_extra,      \* the JSON value of the settings row, as committed
    sch_row_lock,   \* the session that has the row locked
    sch_run_lock,   \* _RUN_LOCK of the process
    sch_session,    \* the sessions
    sch_meant,      \* history: until then, the entries as each writing would have
                \* left them had it followed the one before it
    sch_raced       \* history: a writing has met an older reading

schedule_vars ==
    <<sch_now, sch_extra, sch_row_lock, sch_run_lock, sch_session, sch_meant, sch_raced>>

AtRest == [phase |-> "idle"]
NoRecord ==
    [runs |-> 0, successful |-> 0, failed |-> 0, rate_limited |-> 0,
     failures |-> 0, rate_limits |-> 0, next_run_at |-> 0, not_before |-> 0]
NoEntries == [scheduler |-> NoRecord, worker |-> 0, monitor |-> 0, heartbeats |-> 0]

ScheduleInit ==
    /\ sch_now = 0 /\ sch_extra = NoEntries /\ sch_meant = NoEntries /\ sch_raced = FALSE
    /\ sch_row_lock = Nobody /\ sch_run_lock = Nobody
    /\ sch_session = [s \in ScheduleSessions |-> AtRest]

Is(s, phases) == sch_session[s].phase \in phases

(***************************************************************************)
(* The record of a run.                                                    *)
(***************************************************************************)
(* _record_skipped_run                                                     *)
Skipped(r) == r

(* _record_failed_run                                                      *)
FailedRun(r, finished) ==
    [r EXCEPT !.runs = @ + 1, !.failed = @ + 1, !.failures = @ + 1,
              !.rate_limits = 0, !.next_run_at = finished + Interval, !.not_before = 0]

(* record_run_summary                                                      *)
Summary(r, outcome, finished) ==
    IF outcome = "rate_limited"
    THEN [r EXCEPT !.runs = @ + 1, !.rate_limited = @ + 1,
                   !.failures = 0, !.rate_limits = @ + 1,
                   !.next_run_at = finished + Backoff, !.not_before = finished + Backoff]
    ELSE [r EXCEPT !.runs = @ + 1, !.successful = @ + 1,
                   !.failures = 0, !.rate_limits = 0,
                   !.next_run_at = finished + Interval, !.not_before = 0]

Result(r, outcome, finished) ==
    CASE outcome = "skipped" -> Skipped(r)
      [] outcome = "failed" -> FailedRun(r, finished)
      [] OTHER -> Summary(r, outcome, finished)

(***************************************************************************)
(* A tick.                                                                 *)
(***************************************************************************)
Ended(t, outcome) ==
    sch_session' = [sch_session EXCEPT ![t] = [phase |-> "ended", outcome |-> outcome]]

(* Whether to wait, by the record as it is read.                           *)
Waits(t) ==
    \/ sch_extra.scheduler.not_before > sch_now
    \/ t = Loop /\ sch_extra.scheduler.next_run_at > sch_now

should_run_now(t) ==
    /\ sch_session[t] = AtRest
    /\ sch_meant.scheduler.runs < MaxRuns
    /\ IF sch_run_lock # Nobody \/ Waits(t) THEN Ended(t, "skipped")
       ELSE sch_session' = [sch_session EXCEPT ![t] = [phase |-> "due"]]
    /\ UNCHANGED <<sch_now, sch_extra, sch_row_lock, sch_run_lock, sch_meant, sch_raced>>

(* The lock is looked at again, and taken; the run of another may be saved   *)
(* and not yet committed.                                                  *)
Begin(t) ==
    /\ Is(t, {"due"})
    /\ IF sch_run_lock # Nobody
       THEN Ended(t, "skipped") /\ UNCHANGED <<sch_run_lock, sch_raced>>
       ELSE /\ sch_session' = [sch_session EXCEPT ![t] = [phase |-> "run"]]
            /\ sch_run_lock' = t
            /\ sch_raced' = (sch_raced \/ \E s \in Ticks \ {t} :
                                     sch_row_lock = s /\ sch_session[s].entry = "scheduler")
    /\ UNCHANGED <<sch_now, sch_extra, sch_row_lock, sch_meant>>

(* The worker's owner lock is another's: nothing ran.                       *)
Busy(t) ==
    /\ Is(t, {"run"})
    /\ Ended(t, "skipped")
    /\ UNCHANGED <<sch_now, sch_extra, sch_row_lock, sch_run_lock, sch_meant, sch_raced>>

(* An exception in the worker or the scheduler's limit, at any time until    *)
(* the worker's answer: what is not committed is rolled back.              *)
TickRaises(t) ==
    /\ \/ Is(t, {"run"})
       \/ Is(t, {"read", "flushed"}) /\ sch_session[t].entry = "worker"
       \/ Is(t, {"ended"}) /\ sch_session[t].outcome \in {"completed", "rate_limited"}
    /\ Ended(t, "failed")
    /\ sch_row_lock' = IF sch_row_lock = t THEN Nobody ELSE sch_row_lock
    /\ UNCHANGED <<sch_now, sch_extra, sch_run_lock, sch_meant, sch_raced>>

ReadPrevious(t) ==
    /\ Is(t, {"ended"})
    /\ sch_session' = [sch_session EXCEPT
          ![t] = [phase |-> "told", outcome |-> sch_session[t].outcome,
                  previous |-> sch_extra.scheduler, finished |-> sch_now]]
    /\ UNCHANGED <<sch_now, sch_extra, sch_row_lock, sch_run_lock, sch_meant, sch_raced>>

(***************************************************************************)
(* Writing an entry: read, flush, commit.                                  *)
(***************************************************************************)
Reading(s, entry, outcome, finished, copy) ==
    [phase |-> "read", entry |-> entry, outcome |-> outcome, finished |-> finished,
     copy |-> copy]

Turned(entries, entry) == [entries EXCEPT ![entry] = 1 - @]

(* _persist_latest_summary, in the run that the worker is about to end.      *)
PersistSummary(t) ==
    /\ Is(t, {"run"})
    /\ \E outcome \in {"completed", "rate_limited"} :
          sch_session' = [sch_session EXCEPT ![t] =
                        Reading(t, "worker", outcome, 0, Turned(sch_extra, "worker"))]
    /\ UNCHANGED <<sch_now, sch_extra, sch_row_lock, sch_run_lock, sch_meant, sch_raced>>

PersistResult(t) ==
    /\ Is(t, {"told"})
    /\ LET s == sch_session[t]
           result == Result(s.previous, s.outcome, s.finished)
       IN  sch_session' = [sch_session EXCEPT ![t] =
                         Reading(t, "scheduler", s.outcome, s.finished,
                                 [sch_extra EXCEPT !.scheduler = result])]
    /\ UNCHANGED <<sch_now, sch_extra, sch_row_lock, sch_run_lock, sch_meant, sch_raced>>

(* A mutant of ReadsUnderLock: no reading takes the row's lock.             *)
NeverLocks(w) == FALSE

ReadsUnderLock(w) == w \in Locking

(* A worker run of an operator, the monitor, or the heartbeat of a task.    *)
ReadEntry(w) ==
    LET reading == Reading(w, EntryOf[w], Nobody, 0, Turned(sch_extra, EntryOf[w]))
    IN  /\ sch_session[w] = AtRest
        /\ IF ReadsUnderLock(w)
           THEN /\ sch_row_lock = Nobody
                /\ sch_row_lock' = w
                /\ sch_session' = [sch_session EXCEPT ![w] = [reading EXCEPT !.phase = "flushed"]]
           ELSE /\ sch_session' = [sch_session EXCEPT ![w] = reading]
                /\ UNCHANGED sch_row_lock
        /\ UNCHANGED <<sch_now, sch_extra, sch_run_lock, sch_meant, sch_raced>>

(* The scheduler's own lock ends with the flush of its result.              *)
Flush(s) ==
    /\ Is(s, {"read"})
    /\ sch_row_lock = Nobody
    /\ sch_row_lock' = s
    /\ sch_session' = [sch_session EXCEPT ![s].phase = "flushed"]
    /\ sch_run_lock' = IF sch_run_lock = s /\ sch_session[s].entry = "scheduler"
                       THEN Nobody ELSE sch_run_lock
    /\ UNCHANGED <<sch_now, sch_extra, sch_meant, sch_raced>>

(* What another session has read, and will write or go by, is outdated.     *)
Outdates(s, t) ==
    \/ Is(t, {"read", "flushed"}) /\ t \notin Locking
    \/ sch_session[s].entry = "scheduler" /\ Is(t, {"due", "told"})

Commit(s) ==
    LET m == sch_session[s]
    IN  /\ Is(s, {"flushed"})
        /\ sch_extra' = m.copy
        /\ sch_row_lock' = Nobody
        /\ sch_raced' = (sch_raced \/ \E t \in ScheduleSessions \ {s} : Outdates(s, t))
        /\ sch_meant' = IF sch_raced' THEN sch_extra'
                    ELSE IF m.entry = "scheduler"
                    THEN [sch_meant EXCEPT !.scheduler = Result(@, m.outcome, m.finished)]
                    ELSE Turned(sch_meant, m.entry)
        /\ IF s \in Ticks /\ m.entry = "worker" THEN Ended(s, m.outcome)
           ELSE sch_session' = [sch_session EXCEPT ![s] = AtRest]
        /\ UNCHANGED <<sch_now, sch_run_lock>>

(* An error elsewhere, a cancellation or a shutdown: nothing is saved.      *)
Abort(s) ==
    /\ sch_session[s] # AtRest
    /\ sch_session' = [sch_session EXCEPT ![s] = AtRest]
    /\ sch_row_lock' = IF sch_row_lock = s THEN Nobody ELSE sch_row_lock
    /\ sch_run_lock' = IF sch_run_lock = s THEN Nobody ELSE sch_run_lock
    /\ UNCHANGED <<sch_now, sch_extra, sch_meant, sch_raced>>

Pass ==
    /\ sch_now < LastTime
    /\ sch_now' = sch_now + 1
    /\ UNCHANGED <<sch_extra, sch_row_lock, sch_run_lock, sch_session, sch_meant, sch_raced>>

ScheduleNext ==
    \/ \E t \in Ticks : \/ should_run_now(t) \/ Begin(t) \/ Busy(t) \/ TickRaises(t)
                        \/ ReadPrevious(t) \/ PersistSummary(t) \/ PersistResult(t)
    \/ \E w \in Writers : ReadEntry(w)
    \/ \E s \in ScheduleSessions : Flush(s) \/ Commit(s) \/ Abort(s)
    \/ Pass

ScheduleSpec == ScheduleInit /\ [][ScheduleNext]_schedule_vars

(***************************************************************************)
(* Properties.                                                             *)
(***************************************************************************)
(* The record agrees with itself, whatever was lost of it: every run is      *)
(* counted once, and there is a time to wait for just after a run that was  *)
(* told to wait.                                                           *)
RecordAddsUp ==
    LET r == sch_extra.scheduler
    IN  /\ r.runs = r.successful + r.failed + r.rate_limited
        /\ r.failures <= r.failed /\ r.rate_limits <= r.rate_limited
        /\ r.failures = 0 \/ r.rate_limits = 0
        /\ r.rate_limits > 0 <=> r.not_before > 0
        /\ r.not_before > 0 => r.next_run_at = r.not_before

(* While no writing has met an older reading by a session that had not      *)
(* locked the row, every entry is what its writers have made of it: a       *)
(* locked reading, a rollback or a skipped tick loses nothing.             *)
EntriesAreKept == ~sch_raced => sch_extra = sch_meant

(* One run at a time in the process, and its lock is not left behind.       *)
RunsAlone ==
    /\ \A t \in Ticks : Is(t, {"run"}) => sch_run_lock = t
    /\ sch_run_lock # Nobody => sch_session[sch_run_lock] # AtRest

(* Unless readings were outdated, no run is due or at work before the       *)
(* broker, by all that has been recorded, may be asked again.              *)
BackoffIsHeeded ==
    ~sch_raced =>
        \A t \in Ticks : Is(t, {"due", "run"}) => sch_now >= sch_meant.scheduler.not_before

ScheduleIsTrue == RecordAddsUp /\ EntriesAreKept /\ RunsAlone /\ BackoffIsHeeded
=============================================================================
