CONSTANTS
  Loop = loop
  User = user
  Servers = {main}
  Addresses = {a1, a2}
  Tries = 2
SPECIFICATION FairSpec
INVARIANTS ClientTold SessionTold
PROPERTIES NothingStale AllEnds
CHECK_DEADLOCK FALSE
