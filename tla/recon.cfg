SPECIFICATION Spec
CONSTANTS
  o1 = o1
  o2 = o2
  o3 = o3
  Connections <- MCConnections
  Orders = {o1, o2, o3}
  AccountOf <- MCAccountOf
  Legacy = {"c2", o2}
  Unknowns = {o2}
  Outcomes = {"settled", "unchanged", "unresolved", "rate_limited", "broker_read_failed"}
  RetryAfters = {0, 9}
  Steps <- MCSteps
  RaiseAgain = 1
  BatchLimit = 2
  RunBudget = 2
  MaxFailedReads = 1
  None = None
INVARIANTS SettledAtHome AttemptsAreKept
PROPERTIES NothingIsOverlooked KeepsAsking
