SPECIFICATION Spec
CONSTANTS
  s1 = s1
  s2 = s2
  w1 = w1
  w2 = w2
  none = none
  Strategies = {s1, s2}
  Workers = {w1, w2}
  LastDay = 2
  Most = 2
  ByHand = 1
  None = none
SYMMETRY SymmetricWorkers
CONSTRAINT FewBehaviours
CHECK_DEADLOCK FALSE
INVARIANTS SoldOncePerSession UnresolvedBlocksLater
PROPERTIES FollowsTheRecords
