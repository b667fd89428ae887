SPECIFICATION Spec
CONSTANTS
    k1 = k1
    k2 = k2
    small = small
    mid = mid
    odd = odd
    huge = huge
    Threads = {t1, t2}
    Keys = {k1}
    Values = {small, mid, odd, huge}
    NoValue = NoValue
    Hash <- MCHash
    Size <- MCSize
    RetrieveSize = 4
    MaxValueLength = 10
    LengthUnit = 4
    InitialDevices = 1
    MaxDevices = 2
    MaxCalls = 3
    DeviceErrors = {"KVS_ERR_SYS_IO"}
    AllocFaults = TRUE
    StatsResets = TRUE
    RetrieveDeletes = {0}
    MaxRestarts = 1
SYMMETRY Symmetry
INVARIANTS
    TypeOK
    RoutedHome
    SecondAttemptSuffices
PROPERTY
    Linearizable
