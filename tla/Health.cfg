SPECIFICATION FairSpec
CONSTANTS
    Threads = {t1, t2}
    MaxConsecutive = 2
    RecoveryThreshold = 2
    MaxOps = 6
    MaxMonitoredOps = 3
INVARIANTS
    TypeOK
    CrossingNotDropped
    OvershootBounded
    StreakStartsAtZero
    SnapshotPlausible
PROPERTY
    Recovers
