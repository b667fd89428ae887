SPECIFICATION FairSpec
CONSTANTS
    NumWorkers = 2
    MaxDevices = 1
    MaxWork = 1
PROPERTY
    InitReturns
