SPECIFICATION FairSpec
CONSTANTS
    Workers = {w1, w2}
    Clients = {c1}
    Items = {1, 2, 3, 4, 5}
    None = None
    QueueDepth = 1
    MaxFailures = 1
    CallbacksSubmit = TRUE
    ClientsQuiesce = TRUE
PROPERTY
    QueuedItemsRun
