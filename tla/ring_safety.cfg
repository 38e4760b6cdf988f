CONSTANTS
  Pollers = {p1, p2}
  Readers = {r1, r2}
  Dispatchers = {d1, d2, d3}
  None = None
  MaxSize = 2
  MaxWrites = 3
  MaxClears = 1
SPECIFICATION Spec
SYMMETRY Symmetry
INVARIANTS TypeOK GaplessFeed NoStrandedReader CountIsExact
PROPERTIES DetachIsLast
CHECK_DEADLOCK FALSE
