SPECIFICATION Spec
CONSTANTS
    WaitReady = 3
    WaitAdd = 1
    MergeMS = 1
    CacheLimit = 3
    BackJump = 5
    NoneReader = 2
    MaxTime = 5
    Scenes <- MixedScenes
    Homes <- OneHome
INVARIANTS FramesGoOut PlayersCanStart DemandFollows
CHECK_DEADLOCK FALSE
