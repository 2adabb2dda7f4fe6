SPECIFICATION Spec
CONSTANTS
  a1 = a1
  r1 = r1
  r2 = r2
  k1 = k1
  k2 = k2
  none = none
  Accounts = {a1}
  Runs = {r1, r2}
  Keys = {k1, k2}
  Cost <- CostOf
  Highest = 2
  Funds = 2
  Tolerance = 1
  Skew = 1
  ReadLag = 0
  UndatedAge = 1
  MaxNow = 2
  None = none
SYMMETRY Symmetric
CHECK_DEADLOCK FALSE
INVARIANTS PromisesAreCovered TurnIsKeptForARow
