SPECIFICATION FairSpec
CONSTANTS
    ClusterCount = 6
    FatCount = 2
    WordSize = 9
    t1 = t1
    t2 = t2
    Thread = {t1}
    Locking = "calls"
    HasFsInfo = TRUE
    DebugAssertions = TRUE
    BadClusters = {4}
    MaxFaults = 1
    MaxCrashes = 1
INVARIANTS
    TypeOK
    ChainsWellFormed
    NoPanic
    FreeCountExact
    InfoCurrent
    MirrorsAgree
    NoSpaceLeftIsRight
PROPERTIES
    PoolUntilTorn
    CallsReturn
