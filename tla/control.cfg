SPECIFICATION Spec
CONSTANTS
  r1 = r1
  r2 = r2
  r3 = r3
  p1 = p1
  p2 = p2
  eod = eod
  none = none
  Requests = {r1, r2, r3}
  Tickers = {p1, p2}
  Other = eod
  Kept = {p1}
  Asks <- MCAsks
  None = none
CONSTRAINT FewAtOnce
SYMMETRY Symmetric
CHECK_DEADLOCK FALSE
INVARIANTS HaltIsHeeded CompleteIsTrue ConfirmationsAreTrue
