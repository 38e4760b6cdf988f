CONSTANTS
  Callers = {c1}
  Jobs = {j1, j2}
  Timers = {t1, t2}
  Delays = {1}
  Horizon = 2
  None = None
SPECIFICATION FairSpec
INVARIANTS TypeOK RunInOrder ArmedIsScheduled NothingLeftBehind
PROPERTIES EarliestFirst EveryoneServed TimersFire
CHECK_DEADLOCK FALSE
