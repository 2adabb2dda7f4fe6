SPECIFICATION Spec
CONSTANTS
  o1 = o1
  o2 = o2
  batch1 = batch1
  batch2 = batch2
  single = single
  none = none
  Orders = {o1, o2}
  Sessions = {batch1, single}
  Singles = {single}
  Qty = 2
  None = none
SYMMETRY SymmetricOrders
CHECK_DEADLOCK FALSE
INVARIANTS NoLiveOrderIsHidden ReportIsTrue NobodyAsksTwice
