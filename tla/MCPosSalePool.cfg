\* As many concurrent sales as the pool has connections.
SPECIFICATION FairSpec
CONSTANTS
  tea = tea
  mug = mug
  cup = cup
  Sale = {s1, s2}
  Row = {tea, mug, cup}
  Options = {cup}
  Baskets <- SingleItem
  Quantities = {0, 2}
  NoOne = NoOne
  PoolSize = 2
  MaxRetries = 2
CHECK_DEADLOCK FALSE
PROPERTIES
  EverySaleEnds
