\* Three cashiers and a merchant, with more connections than sales.
SPECIFICATION FairSpec
CONSTANTS
  tea = tea
  mug = mug
  cup = cup
  Sale = {s1, s2, s3}
  Row = {tea, mug, cup}
  Options = {cup}
  Baskets <- CrossingBaskets
  Quantities = {0, 2}
  NoOne = NoOne
  PoolSize = 4
  MaxRetries = 2
CHECK_DEADLOCK FALSE
INVARIANTS
  TypeOK
  TakenIsCovered
PROPERTIES
  ImplementsInventory
  EverySaleEnds
