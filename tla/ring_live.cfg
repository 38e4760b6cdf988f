CONSTANTS
  Pollers = {p1, p2}
  Readers = {r1, r2}
  Dispatchers = {d1, d2}
  None = None
  MaxSize = 1
  MaxWrites = 2
  MaxClears = 0
SPECIFICATION FairSpec
PROPERTIES StartsAtKey RefinesGopFeed ReadersServed
CHECK_DEADLOCK FALSE
