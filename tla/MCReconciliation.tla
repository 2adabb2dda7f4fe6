-------------------------- MODULE MCReconciliation --------------------------
(***************************************************************************)
(* Two connections to an account each, one order at the first and two at   *)
(* the second.  One order and the second connection may have been made     *)
(* before their account was kept on record.                                *)
(***************************************************************************)
EXTENDS Reconciliation

CONSTANTS o1, o2, o3

MCConnections == <<"c1", "c2">>
MCAccountOf == [x \in {"c1", "c2", o1, o2, o3} |-> IF x \in {"c1", o1} THEN "a" ELSE "b"]
MCSteps == <<1, 2>>
=============================================================================
