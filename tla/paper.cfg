SPECIFICATION Spec
CONSTANTS
  r1 = r1
  r2 = r2
  r3 = r3
  none = none
  Requests = {r1, r2, r3}
  Operations = {1}
  Bodies <- MCBodies
  StartingCash = 18
  Quote = 2
  Spread = 1
  MinFee = 3
  FeePart = 4
  MaxQuantity = 5
  Limits = {FALSE}
  None = none
CONSTRAINT FewAtOnce
SYMMETRY SymmetricRequests
CHECK_DEADLOCK FALSE
INVARIANTS LedgerAddsUp RefusalIsOnRecord
PROPERTIES HaltStopsFills TakesEffectOnce
