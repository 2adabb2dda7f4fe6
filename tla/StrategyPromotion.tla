------------------------- MODULE StrategyPromotion -------------------------
(***************************************************************************)
(* From dry runs to demo orders to live orders: the promotion of one       *)
(* strategy (app/services/strategy_promotion.py) beside everything else    *)
(* that writes its row: the routes that edit and enable it, the morning    *)
(* scan, a manual dry run, the runner and the portfolio execution.         *)
(*                                                                         *)
(* The promotion is kept in the strategy's params, a JSON column that is   *)
(* written as a whole by whoever changes anything in it. The promotion     *)
(* flow and the edit lock the row when they read it; the others write what *)
(* they read earlier, and the version of the row decides. A time is the    *)
(* number of decisions before it; zero is never. What else the checklists  *)
(* ask for (days, configuration, the readiness of the whole program) is    *)
(* left open.                                                              *)
(***************************************************************************)
EXTENDS Naturals, Sequences, FiniteSets

CONSTANTS
  Sessions,               \* database sessions without a row lock
  DecisionOutcomes,       \* of a decision: risk blocked, or what became of its order
  MIN_DRY_RUN_SIGNALS, MIN_DEMO_ORDERS,
  MIN_DEMO_FILL_RATE,     \* per cent
  MAX_DEMO_ERROR_RATE, MAX_DEMO_RISK_BLOCK_RATE,
  MaxDecisions            \* bound

ASSUME EvidenceIsCounted == MIN_DEMO_ORDERS \in Nat

VARIABLES
  strategy_row,   \* as it is committed
  activity,       \* its signals, each with its order unless risk blocked it
  mode,           \* of the process
  copies,         \* what a session is doing, the row as it read it, whether it still is so
  decided         \* history: the row as the promotion flow and the edits left it

promotion_vars == <<strategy_row, activity, mode, copies, decided>>

NotBusy == [doing |-> "idle"]
Now == Len(activity) + 1

PromotionInit ==
  /\ strategy_row = [enabled |-> FALSE, is_live |-> FALSE, dry_run_reviewed |-> FALSE,
                 demo_promoted_at |-> 0, demo_reviewed |-> FALSE, live_approved_at |-> 0]
  /\ activity = <<>>
  /\ mode = "demo"
  /\ copies = [s \in Sessions |-> NotBusy]
  /\ decided = strategy_row

-----------------------------------------------------------------------------
(* The evidence. *)

dry_phase ==
  {i \in DOMAIN activity :
     strategy_row.demo_promoted_at = 0 \/ i < strategy_row.demo_promoted_at}

demo_phase ==
  {i \in DOMAIN activity :
     /\ strategy_row.demo_promoted_at # 0 /\ i >= strategy_row.demo_promoted_at
     /\ strategy_row.live_approved_at = 0 \/ i < strategy_row.live_approved_at}

Real(phase) == {i \in phase : ~ activity[i].is_dry_run /\ activity[i].outcome # "blocked"}
With(phase, outcome) == {i \in phase : activity[i].outcome = outcome}

PerCent(rate, phase) == rate * Cardinality(phase)

eligible_for_demo ==
  /\ Cardinality(dry_phase) >= MIN_DRY_RUN_SIGNALS
  /\ strategy_row.dry_run_reviewed
  /\ mode # "live"

eligible_for_live ==
  /\ strategy_row.demo_promoted_at # 0 /\ strategy_row.demo_reviewed
  /\ Cardinality(Real(demo_phase)) >= MIN_DEMO_ORDERS
  /\ Real(demo_phase) # {}
  /\ PerCent(100, With(Real(demo_phase), "filled"))
       >= PerCent(MIN_DEMO_FILL_RATE, Real(demo_phase))
  /\ PerCent(100, With(Real(demo_phase), "rejected"))
       <= PerCent(MAX_DEMO_ERROR_RATE, Real(demo_phase))
  /\ PerCent(100, With(demo_phase, "blocked")) <= PerCent(MAX_DEMO_RISK_BLOCK_RATE, demo_phase)

execution_gate(row) ==
  /\ mode = "demo" => row.demo_promoted_at # 0
  /\ mode = "live" => row.live_approved_at # 0

-----------------------------------------------------------------------------
(* Writes of the row.  A new version of it makes every copy read earlier stale. *)

Stale ==
  [s \in Sessions |->
     IF copies[s] = NotBusy THEN NotBusy ELSE [copies[s] EXCEPT !.fresh = FALSE]]

Decide(row) ==
  /\ strategy_row' = row
  /\ decided' = row
  /\ copies' = Stale
  /\ UNCHANGED <<activity, mode>>

\* A mutant of MayWrite: the last writer wins.
LastWriterWins(s) == copies[s] # NotBusy

MayWrite(s) == copies[s].fresh

\* The session writes its columns, and goes on with the row as it is now, or ends.
Write(s, row, goes_on) ==
  /\ MayWrite(s)
  /\ strategy_row' = row
  /\ copies' = [Stale EXCEPT ![s] =
       IF goes_on THEN [copies[s] EXCEPT !.row = row, !.fresh = TRUE] ELSE NotBusy]

-----------------------------------------------------------------------------
(* The promotion flow and the edits: the row is locked from its reading. *)

record_dry_run_review ==
  /\ dry_phase # {}
  /\ Decide([strategy_row EXCEPT !.dry_run_reviewed = TRUE])

promote_to_demo ==
  /\ eligible_for_demo
  /\ Decide([strategy_row EXCEPT !.is_live = TRUE, !.demo_promoted_at = Now])

record_demo_review ==
  /\ Real(demo_phase) # {}
  /\ Decide([strategy_row EXCEPT !.demo_reviewed = TRUE])

promote_to_live ==
  /\ eligible_for_live
  /\ Decide([strategy_row EXCEPT !.is_live = TRUE, !.live_approved_at = Now])

demote_to_dry_run == Decide([strategy_row EXCEPT !.is_live = FALSE])

revoke_live_promotion == Decide([strategy_row EXCEPT !.live_approved_at = 0])

\* An edit keeps the stored promotion and may take is_live back, never set it.
update_strategy(is_live) ==
  /\ is_live => strategy_row.is_live
  /\ Decide([strategy_row EXCEPT !.is_live = is_live])

-----------------------------------------------------------------------------
(* Sessions that read the row without locking it. *)

IsBusy(s, doing) == copies[s].doing \in doing

ReadRow(s, doing) ==
  /\ copies[s] = NotBusy
  /\ doing = "scan" => strategy_row.enabled /\ strategy_row.is_live
  /\ doing \in {"run", "plan"} => strategy_row.enabled
  /\ doing \in {"run", "plan"} /\ strategy_row.is_live => execution_gate(strategy_row)
  /\ copies' = [copies EXCEPT ![s] = [doing |-> doing, row |-> strategy_row, fresh |-> TRUE]]
  /\ UNCHANGED <<strategy_row, activity, mode, decided>>

\* The params as the session read them, with what it has to say put into them.
ParamsAsRead(s) ==
  [copies[s].row EXCEPT !.enabled = strategy_row.enabled, !.is_live = strategy_row.is_live]

morning_scan(s) ==
  /\ IsBusy(s, {"scan"})
  /\ Write(s, ParamsAsRead(s), FALSE)
  /\ UNCHANGED <<activity, mode, decided>>

run_strategy_dry(s) ==
  /\ IsBusy(s, {"dry run"})
  /\ Write(s, ParamsAsRead(s), FALSE)
  /\ UNCHANGED <<activity, mode, decided>>

enable_strategy(s, enabled) ==
  /\ IsBusy(s, {"enable"})
  /\ Write(s, [strategy_row EXCEPT !.enabled = enabled], FALSE)
  /\ decided' = [decided EXCEPT !.enabled = enabled]
  /\ UNCHANGED <<activity, mode>>

EntryDecision(row, outcome) ==
  [is_dry_run |-> ~ row.is_live, outcome |-> outcome, mode |-> mode,
   permitted |->
     /\ strategy_row.enabled
     /\ row.is_live => strategy_row.is_live /\ execution_gate(strategy_row)]

Recorded(s, outcome) ==
  /\ Len(activity) < MaxDecisions
  /\ activity' = Append(activity, EntryDecision(copies[s].row, outcome))
  /\ UNCHANGED <<mode, decided>>

\* An entry of the runner is committed together with its mark on the strategy's row.
Entry(s, outcome) ==
  /\ IsBusy(s, {"run"})
  /\ Write(s, strategy_row, TRUE)
  /\ Recorded(s, outcome)

\* The first order of a portfolio's plan is, with what the run has put into the params.
PlanEntry(s, outcome) ==
  /\ IsBusy(s, {"plan"})
  /\ Write(s, ParamsAsRead(s), FALSE)
  /\ Recorded(s, outcome)

\* The version check refuses, the process dies, or there is nothing left to do.
Leave(s) ==
  /\ copies[s] # NotBusy
  /\ copies' = [copies EXCEPT ![s] = NotBusy]
  /\ UNCHANGED <<strategy_row, activity, mode, decided>>

\* The mode is a setting of the process.
Restart(new_mode) ==
  /\ mode' = new_mode
  /\ copies' = [s \in Sessions |-> NotBusy]
  /\ UNCHANGED <<strategy_row, activity, decided>>

PromotionNext ==
  \/ record_dry_run_review \/ promote_to_demo \/ record_demo_review
  \/ promote_to_live \/ demote_to_dry_run \/ revoke_live_promotion
  \/ \E is_live \in BOOLEAN : update_strategy(is_live)
  \/ \E s \in Sessions :
       \/ \E doing \in {"scan", "dry run", "enable", "run", "plan"} : ReadRow(s, doing)
       \/ morning_scan(s) \/ run_strategy_dry(s)
       \/ \E enabled \in BOOLEAN : enable_strategy(s, enabled)
       \/ \E outcome \in DecisionOutcomes : Entry(s, outcome) \/ PlanEntry(s, outcome)
       \/ Leave(s)
  \/ \E new_mode \in {"demo", "live"} : Restart(new_mode)

PromotionSpec == PromotionInit /\ [][PromotionNext]_promotion_vars

-----------------------------------------------------------------------------

(* No write that rests on an earlier reading brings back a promotion that  *)
(* was taken away, or loses one: the row is as it was decided.             *)
NothingIsRevived == strategy_row = decided

(* An entry is committed only while the strategy is enabled and, when it   *)
(* is for the broker, promoted for the mode the program runs in, whatever  *)
(* was decided since the run read the strategy.                            *)
EntriesArePermitted == \A i \in DOMAIN activity : activity[i].permitted

(* A live approval stands only after enough orders placed in demo mode,    *)
(* none of them a dry run, and after both reviews.                         *)
ApprovalRestsOnDemo ==
  strategy_row.live_approved_at # 0 =>
    /\ Cardinality({i \in DOMAIN activity :
          i < strategy_row.live_approved_at /\ ~ activity[i].is_dry_run
          /\ activity[i].mode = "demo" /\ activity[i].outcome # "blocked"}) >= MIN_DEMO_ORDERS
    /\ strategy_row.dry_run_reviewed /\ strategy_row.demo_reviewed

PromotionHolds == NothingIsRevived /\ EntriesArePermitted /\ ApprovalRestsOnDemo
=============================================================================
