SPECIFICATION Spec
CONSTANTS
    ClusterCount = 5
    FatCount = 2
    WordSize = 9
    t1 = t1
    t2 = t2
    Thread = {t1, t2}
    Locking = "allocations"
    HasFsInfo = TRUE
    DebugAssertions = TRUE
    BadClusters = {}
    MaxFaults = 0
    MaxCrashes = 0
SYMMETRY ThreadSymmetry
INVARIANTS
    NoPanic
    FreeCountExact
PROPERTY
    PoolUntilTorn
