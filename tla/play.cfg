CONSTANTS
  Tracks = 2
  MaxSource = 1
  Scenes <- AllPlays
  MaxDelta = 10
  SyncSpan = 50
  MaxBody = 2
  Https <- AllHttps
SPECIFICATION AllSpec
INVARIANTS ViewersInStep PlayInStep HttpInStep
PROPERTIES TruthIsTold ViewersServed
CHECK_DEADLOCK FALSE
