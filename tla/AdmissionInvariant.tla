------------------------- MODULE AdmissionInvariant --------------------------
(***************************************************************************)
(* The inductive invariant of the admission of entries (EntryAdmission):   *)
(* what a run has allocated and not sent, and the places of the day that   *)
(* its orders and the requests between their checks and their order take.  *)
(* ScheduledTasksProofs proves it and what follows from it.                *)
(***************************************************************************)
EXTENDS EntryAdmission

\* The orders of a day, and what a run or a manual request has.
DayOrder ==
  [ticker : EntryTickers, side : {"buy", "sell"}, notional : Nat, risk : Nat,
   by : {"runner", "manual", "exit"}, status : {"working", "filled", "ended"}]

EntryRun ==
  [phase : {"read", "admitted"}, seen : [EntryTickers -> Nat], free : FreeCash,
   regime : Regimes, first : Nat, for : SUBSET EntryCandidates,
   accepted : SUBSET EntryTickers, value : Nat, risk : Nat]

ManualEntry == [phase : {"admitted"}, for : {{entry} : entry \in EntryCandidates}]

AdmissionTyped ==
  /\ switches \in [kill : BOOLEAN, auto : BOOLEAN]
  /\ worth \in [EntryTickers -> Nat]
  /\ day_orders \in Seq(DayOrder)
  /\ day_trades \in Seq([ticker : EntryTickers, loss : {0, 1}])
  /\ entry_run \in EntryRun \union {NoEntryRun}
  /\ manual_entries \in [ManualRequests -> ManualEntry \union {NoEntryRun}]

\* What a run has sent, and what that adds up to.
SentSince(first) == {i \in EntryBuys("runner") : i >= first}
NotionalSince(first) == Total([i \in SentSince(first) |-> day_orders[i].notional])
RiskSince(first) == Total([i \in SentSince(first) |-> day_orders[i].risk])

\* The entry a run is about to send is of the part it allocated and did not send.
RunAddsUp(r) ==
  /\ r.first <= Len(day_orders) + 1
  /\ r.value > 0 => _gross_exposure(r.seen) + r.value <= _regime_gross_cap(r.regime)
  /\ r.risk <= _regime_run_risk_cap(r.regime)
  /\ \A i \in SentSince(r.first) : day_orders[i].ticker \in r.accepted
  /\ \A i, j \in SentSince(r.first) : day_orders[i].ticker = day_orders[j].ticker => i = j
  /\ r.phase = "read" =>
       r.for = {} /\ NotionalSince(r.first) <= r.value /\ RiskSince(r.first) <= r.risk
  /\ r.phase = "admitted" =>
       \E entry \in EntryCandidates :
         /\ r.for = {entry} /\ entry.ticker \in r.accepted
         /\ \A i \in SentSince(r.first) : day_orders[i].ticker # entry.ticker
         /\ NotionalSince(r.first) + entry.notional <= r.value
         /\ RiskSince(r.first) + entry.risk <= r.risk

\* The day's entries that did not end, and those that are about to be sent.
DayEntries ==
  {i \in EntryBuys("runner") \union EntryBuys("manual") : day_orders[i].status # "ended"}
AboutToSend(r) == IF r.phase = "admitted" THEN 1 ELSE 0
OnTheirWay == {q \in ManualRequests : manual_entries[q].phase = "admitted"}

DayAddsUp ==
  Cardinality(DayEntries) + AboutToSend(entry_run) + Cardinality(OnTheirWay)
    <= max_trades_per_day + Cardinality(ManualRequests)

\* The inductive invariant.
AdmissionKept ==
  /\ AdmissionTyped
  /\ entry_run # NoEntryRun => RunAddsUp(entry_run)
  /\ DayAddsUp

=============================================================================
