SPECIFICATION FormatSpec
CONSTANTS
    ClusterCount = 40
    FatCount = 2
    OldTables <- MCOldTables
    Touched <- MCTouched
    Stored <- MCStored
    Sizes <- MCSizes
    Followed <- MCFollowed
    StaleCounts <- MCStale
    MaxFailures = 1
INVARIANTS
    FormatTypeOK
    EntriesIndependentOrShifted
    ShiftedKeepsUpperBits
    CopiesAgree
    LayoutFits
    MountCounts
    RootSound
CHECK_DEADLOCK FALSE
