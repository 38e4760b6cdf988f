SPECIFICATION FairScenes
CONSTANTS
  s1 = s1  s2 = s2  p1 = p1  p2 = p2  r1 = r1  r2 = r2
  i1 = i1  i2 = i2  a1 = a1  a2 = a2  d1 = d1  d2 = d2
  None = None
  Sources = {s1, s2}  Sessions = {p1, p2}  Requests = {r1, r2}
  Streams = {i1, i2}  Addresses = {a1, a2}  Dispatchers = {d1, d2}
  StreamOf <- OneStream  SessionOf <- TwoSessions  Address <- TwoAddresses
  MaxRegists = 2
INVARIANTS TypeOK LatestIsFound AnsweredIsDeaf
PROPERTIES HeardInTime EveryoneAnswered
CHECK_DEADLOCK FALSE
