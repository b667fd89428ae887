SPECIFICATION AsyncFairSpec
CONSTANTS
    Workers = {w1, w2}
    Clients = {c1}
    Items = {1, 2, 3, 4, 5, 6}
    None = None
    QueueDepth = 2
    MaxFailures = 1
    CallbacksSubmit = TRUE
    ClientsQuiesce = TRUE
    NullCallbacks = {3}
INVARIANTS
    AsyncTypeOK
    QueueBounded
    ExitMeansDrained
    NoLostWork
    NoLostSlot
    PoolOutlivesCalls
    ContextOwned
    CallbackContract
PROPERTIES
    ImplementsWorkQueue
    DestroyReturns
    AcceptedCompletes
