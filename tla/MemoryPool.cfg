SPECIFICATION Spec
CONSTANTS
    SizeMod = 96
    Alignment = 8
    PoolSize = 36
    MaxBlocks = 3
    Sizes = {0, 1, 4, 7, 8, 9, 16, 20, 24, 37, 72, 80, 88, 89, 95}
INVARIANTS
    TypeOK
    BlocksDisjoint
