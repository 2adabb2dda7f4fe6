------------------------- MODULE MCCashReservation -------------------------
(* A small instance of CashReservation: one clock tick is one minute or so. *)
EXTENDS CashReservation, TLC

CONSTANTS a1, r1, r2, k1, k2, none

CostOf == [k \in Keys |-> IF k = k1 THEN 1 ELSE 2]

Symmetric == Permutations({r1, r2})
===========================================================================
