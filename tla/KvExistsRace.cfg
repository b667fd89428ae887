SPECIFICATION Spec
CONSTANTS
    k1 = k1
    k2 = k2
    small = small
    mid = mid
    odd = odd
    huge = huge
    Threads = {t1, t2}
    Keys = {k1, k2}
    Values = {small, mid, odd, huge}
    NoValue = NoValue
    Hash <- MCHash
    Size <- MCSize
    RetrieveSize = 4
    MaxValueLength = 10
    LengthUnit = 4
    InitialDevices = 1
    MaxDevices = 2
    MaxCalls = 3
    DeviceErrors = {}
    AllocFaults = FALSE
    StatsResets = FALSE
    RetrieveDeletes = {0}
    MaxRestarts = 0
INVARIANT
    ExistsAccurate
