SPECIFICATION Spec
CONSTANTS
  o1 = o1
  o2 = o2
  o3 = o3
  o4 = o4
  s1 = s1
  s2 = s2
  s3 = s3
  c1 = c1
  c2 = c2
  b1 = b1
  b2 = b2
  b3 = b3
  outsider = outsider
  none = none
  Orders = {o1, o2, o3, o4}
  Sessions = {s1, s2, s3}
  Clerks = {c1, c2}
  BrokerIds = {b1, b2}
  Outside = outsider
  None = none
  DryRun = {o2}
  Buys = {o1, o3}
  LookAlikes = {o3, o4, outsider}
  Qty = 2
SYMMETRY SymmetricWorkers
CONSTRAINT FewAtOnce
CHECK_DEADLOCK FALSE
INVARIANTS TransmittedOnceOnRecord OutcomesAreTrue UnknownIsAlarmed WrongIdentityShows
PROPERTIES KnownOnEvidence
