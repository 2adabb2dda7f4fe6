----------------------------- MODULE DcaSchedule -----------------------------
(***************************************************************************)
(* The daily paper accumulation of coins (workers/tasks_dca.py, the        *)
(* decisions of strategies/kraken_dca_planner.py, the configurations of    *)
(* routes/dca.py and the two repositories).                                *)
(*                                                                         *)
(* One run evaluates every enabled plan in one database session: it takes  *)
(* the configurations, the date and the account's values once, then each   *)
(* plan's state and market at its turn, and commits once.  A plan's error  *)
(* is caught where it happens and the run goes on, with whatever the error *)
(* did to the session.  A database statement that fails leaves the         *)
(* transaction aborted: what follows fails too, and the commit rolls back  *)
(* without saying so.  A flush that fails makes the commit raise.          *)
(*                                                                         *)
(* Runs do not overlap (the lock's 900 s outlive the task's 120 s).        *)
(* Percentages are taken out: the cap of one buy is the account's value.   *)
(***************************************************************************)
EXTENDS Naturals, Sequences, FiniteSets

CONSTANTS
    Plans,          \* tickers, as numbers: list_enabled has them in their order
    PlanPolicies,   \* what an operator sets: [base, cadence]
    Snapshots,      \* the account's [cash, value], both 0 when there is no snapshot
    min_cash_reserve,
    dip_buy_multiplier,
    LastPlanDay

ASSUME PlansAndPolicies ==
    /\ Plans \subseteq Nat
    /\ PlanPolicies \subseteq [base : Nat, cadence : Nat]
    /\ dip_buy_multiplier \in Nat /\ LastPlanDay \in Nat

VARIABLES
    dca_config,     \* dca_configs
    dca_state,      \* dca_plan_states
    dca_audit,      \* the BUY_DUE decisions of the audit log, a sequence per plan
    dca_day,
    dca_run         \* the run under way, with what it decided so far

dca_vars == <<dca_config, dca_state, dca_audit, dca_day, dca_run>>

NoConfig == [enabled |-> FALSE, cadence |-> 0, base |-> 0]
NoBuy == LastPlanDay + 1
NoState == [last_buy_at |-> NoBuy, total |-> 0, count |-> 0]
Undecided == [code |-> "none", amount |-> 0]
NoPlanRun == [phase |-> "none"]

DcaInit ==
    /\ dca_config = [t \in Plans |-> NoConfig]
    /\ dca_state = [t \in Plans |-> NoState]
    /\ dca_audit = [t \in Plans |-> <<>>]
    /\ dca_day = 0
    /\ dca_run = NoPlanRun

(***************************************************************************)
(* The operator (routes/dca.py).                                           *)
(***************************************************************************)
Configured(t) == dca_config[t] # NoConfig
ConfigSaved(t, row) ==
    /\ dca_config[t] # row
    /\ dca_config' = [dca_config EXCEPT ![t] = row]
    /\ UNCHANGED <<dca_state, dca_audit, dca_day, dca_run>>

create_dca_config(t, policy) ==
    /\ ~Configured(t)
    /\ ConfigSaved(t, [enabled |-> FALSE, cadence |-> policy.cadence, base |-> policy.base])

update_dca_config(t, policy) ==
    /\ Configured(t)
    /\ ConfigSaved(t, [dca_config[t] EXCEPT !.cadence = policy.cadence, !.base = policy.base])

enable_dca_config(t) ==
    Configured(t) /\ ConfigSaved(t, [dca_config[t] EXCEPT !.enabled = TRUE])
disable_dca_config(t) ==
    Configured(t) /\ ConfigSaved(t, [dca_config[t] EXCEPT !.enabled = FALSE])

NextPlanDay ==
    /\ dca_day < LastPlanDay
    /\ dca_day' = dca_day + 1
    /\ UNCHANGED <<dca_config, dca_state, dca_audit, dca_run>>

(***************************************************************************)
(* evaluate_due_plans.                                                     *)
(***************************************************************************)
list_enabled == {t \in Plans : dca_config[t].enabled}

StartPlans(account) ==
    /\ dca_run = NoPlanRun
    /\ list_enabled # {}
    /\ dca_run' = [phase |-> "evaluating", todo |-> list_enabled, now |-> dca_day,
               rows |-> [t \in list_enabled |-> dca_config[t]],
               account |-> account, decided |-> [t \in Plans |-> Undecided],
               failed |-> "no"]
    /\ UNCHANGED <<dca_config, dca_state, dca_audit, dca_day>>

(* KrakenDCAPlanner.evaluate_plan; the market is a price of zero, a usual   *)
(* one or a dip.                                                           *)
evaluate_plan(row, plan, market) ==
    CASE market = "no price" -> [code |-> "BLOCKED_POLICY", amount |-> 0]
      [] market # "no price" /\ dca_run.account.cash < min_cash_reserve ->
            [code |-> "BLOCKED_LOW_CASH", amount |-> 0]
      [] OTHER ->
            IF plan.last_buy_at # NoBuy /\ dca_run.now - plan.last_buy_at < row.cadence
              THEN [code |-> "SKIP_ALREADY_BOUGHT_THIS_WINDOW", amount |-> 0]
            ELSE IF dca_run.account.value > 0 /\ row.base > dca_run.account.value
              THEN [code |-> "BLOCKED_POLICY", amount |-> 0]
            ELSE [code |-> "BUY_DUE",
                  amount |-> IF market = "dip" THEN row.base * dip_buy_multiplier ELSE row.base]

ItsTurn(t) ==
    /\ dca_run.phase = "evaluating"
    /\ t \in dca_run.todo /\ \A u \in dca_run.todo : t <= u

(* The upsert flushes the state's updates; the audit row is only added.    *)
EvaluatePlan(t, market) ==
    /\ ItsTurn(t)
    /\ dca_run.failed = "no"
    /\ dca_run' = [dca_run EXCEPT !.todo = @ \ {t},
                       !.decided[t] = evaluate_plan(dca_run.rows[t], dca_state[t], market)]
    /\ UNCHANGED <<dca_config, dca_state, dca_audit, dca_day>>

(* Except: the provider fails, a statement fails, the upsert's flush fails, *)
(* or the session fails since it has done so before.                       *)
PlanFails(t, failed) ==
    /\ ItsTurn(t)
    /\ IF dca_run.failed = "no" THEN failed \in {"no", "statement", "flush"}
       ELSE failed = dca_run.failed
    /\ dca_run' = [dca_run EXCEPT !.todo = @ \ {t}, !.failed = failed]
    /\ UNCHANGED <<dca_config, dca_state, dca_audit, dca_day>>

(* A mutant of CommitRaises: audit rows are flushed as they are added.      *)
OnlyAfterAFailedFlush == dca_run.failed = "flush"

(* The last plan's audit row is still to be flushed, which the aborted      *)
(* transaction refuses; with none, the commit only rolls back.             *)
CommitRaises ==
    \/ dca_run.failed = "flush"
    \/ dca_run.failed = "statement" /\ \E t \in Plans : dca_run.decided[t] # Undecided

PlanBought(t) == dca_run.decided[t].code = "BUY_DUE"

(* _updates_for_decision.                                                  *)
PlanUpdated(t) ==
    IF ~PlanBought(t) THEN dca_state[t]
    ELSE [last_buy_at |-> dca_run.now, total |-> dca_state[t].total + dca_run.decided[t].amount,
          count |-> dca_state[t].count + 1]

(* _audit_decision.                                                        *)
PlanAudited(t) ==
    IF ~PlanBought(t) THEN dca_audit[t]
    ELSE Append(dca_audit[t], [on |-> dca_run.now, amount |-> dca_run.decided[t].amount,
                           cadence |-> dca_run.rows[t].cadence])

CommitPlans ==
    /\ dca_run.phase = "evaluating" /\ dca_run.todo = {}
    /\ ~CommitRaises
    /\ IF dca_run.failed = "no"
       THEN /\ dca_state' = [t \in Plans |-> PlanUpdated(t)]
            /\ dca_audit' = [t \in Plans |-> PlanAudited(t)]
       ELSE UNCHANGED <<dca_state, dca_audit>>
    /\ dca_run' = [phase |-> "ended", now |-> dca_run.now, decided |-> dca_run.decided]
    /\ UNCHANGED <<dca_config, dca_day>>

(* The summary is the task's result.                                       *)
ReturnSummary ==
    /\ dca_run.phase = "ended"
    /\ dca_run' = NoPlanRun
    /\ UNCHANGED <<dca_config, dca_state, dca_audit, dca_day>>

(* The commit raises, the hard limit comes or the worker is lost: nothing   *)
(* that is not committed stays.  A redelivery is another Start.            *)
PlansDie ==
    /\ dca_run # NoPlanRun
    /\ dca_run' = NoPlanRun
    /\ UNCHANGED <<dca_config, dca_state, dca_audit, dca_day>>

DcaNext ==
    \/ \E t \in Plans, policy \in PlanPolicies :
          create_dca_config(t, policy) \/ update_dca_config(t, policy)
    \/ \E t \in Plans : enable_dca_config(t) \/ disable_dca_config(t)
    \/ \E account \in Snapshots : StartPlans(account)
    \/ \E t \in Plans : \/ \E market \in {"no price", "usual", "dip"} : EvaluatePlan(t, market)
                      \/ \E failed \in {"no", "statement", "flush"} : PlanFails(t, failed)
    \/ CommitPlans \/ ReturnSummary \/ PlansDie \/ NextPlanDay

DcaSpec == DcaInit /\ [][DcaNext]_dca_vars

(***************************************************************************)
(* Properties.                                                             *)
(***************************************************************************)
(* The type invariant.                                                     *)
PlansTypeOK ==
    /\ dca_config \in [Plans -> [enabled : BOOLEAN, cadence : Nat, base : Nat]]
    /\ dca_state \in [Plans -> [last_buy_at : 0 .. NoBuy, total : Nat, count : Nat]]
    /\ dca_day \in 0 .. LastPlanDay
    /\ dca_run.phase \in {"none", "evaluating", "ended"}

(* The sum of what some purchases amount to.                               *)
Spent(buys) == Cardinality(UNION {{i} \X (1 .. buys[i].amount) : i \in DOMAIN buys})

LastBuy(t) == dca_audit[t][Len(dca_audit[t])]

(* A plan's totals are those of the decisions on record, although the two   *)
(* are written by different flushes of a run that goes on after errors.    *)
BooksAgree ==
    \A t \in Plans :
        /\ dca_state[t].count = Len(dca_audit[t])
        /\ dca_state[t].total = Spent(dca_audit[t])
        /\ dca_state[t].last_buy_at = IF dca_audit[t] = <<>> THEN NoBuy ELSE LastBuy(t).on

(* No window is bought twice, whatever is repeated or rolled back.          *)
OncePerWindow ==
    \A t \in Plans : \A i \in DOMAIN dca_audit[t] :
        i > 1 => dca_audit[t][i].on >= dca_audit[t][i - 1].on + dca_audit[t][i].cadence

(* A run that returns has saved the buys it counts in its summary.         *)
ReportedIsSaved ==
    dca_run.phase = "ended" => \A t \in Plans : PlanBought(t) =>
        dca_audit[t] # <<>> /\ LastBuy(t).on = dca_run.now

(* A plan's state, its audit trail and what is said of it are the same.     *)
PlanKeepsItsBooks == PlansTypeOK /\ BooksAgree /\ OncePerWindow /\ ReportedIsSaved
=============================================================================
