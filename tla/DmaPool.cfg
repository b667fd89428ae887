SPECIFICATION Spec
CONSTANTS
    Clients = {c1, c2, c3, c4}
    Count = 3
    AllocFaults = TRUE
    None = None
    Heap = Heap
    Garbage = Garbage
INVARIANTS
    TypeOK
    BuffersConserved
    HeapBalanced
