\* Two returns of one order, made at once or one after the other, and two
\* merchant sessions that change their statuses, with a pool that has a
\* connection to spare and with one that has none.
SPECIFICATION FairSpec
CONSTANTS
  Request = {q1, q2}
  Editor = {m1, m2}
  Item = {i1, i2}
  i1 = i1
  i2 = i2
  Bought <- TwoAndOne
  Baskets <- ThreeBaskets
  PoolSizes = {2, 3}
  Nobody = Nobody
CHECK_DEADLOCK FALSE
INVARIANTS
  TypeOK
  OverReturnNeedsOverlap
  StatusWasEarned
PROPERTIES
  StepsFollowTable
  ReturnsEndUnlessExhausted
