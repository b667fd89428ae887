SPECIFICATION Spec
CONSTANTS
    small = small
    large = large
    Callers = {t1, t2, t3}
    Keys = {k1}
    Values <- MCValues
    NoValue = NoValue
    Size <- MCSize
    KeySize = 1
    Rooms = {1}
    PoolSize = 2
    QueueDepth = 1
    MaxCalls = 3
INVARIANTS
    TypeOK
    ContextsOwned
    SpaceNotUnderstated
PROPERTIES
    ImplementsAtomicDevice
    CallsReturn
    CloseReturns
