------------------------ MODULE MCOrderCancellation ------------------------
(* A small instance of OrderCancellation. *)
EXTENDS OrderCancellation, TLC

CONSTANTS o1, o2, batch1, batch2, single, none

SymmetricOrders == Permutations({o1, o2})
SymmetricBatches == SymmetricOrders \cup Permutations({batch1, batch2})

\* One order that works at the broker, and one that never was sent.
OneWorks ==
  /\ Init
  /\ row[o1].status # "submission_unknown"
  /\ Acknowledged(o1)
  /\ Prepared(o2)

LiveSpec == OneWorks /\ [][Next]_vars /\ Fairness
===========================================================================
