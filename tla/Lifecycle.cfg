SPECIFICATION FairSpec
CONSTANTS
    NumWorkers = 2
    MaxDevices = 3
    MaxWork = 2
INVARIANTS
    TypeOK
    VisitsOpenDevices
    WorkersFindParts
    NothingLeft
PROPERTIES
    CleanupReturns
    InitReturnsUnlessMissed
