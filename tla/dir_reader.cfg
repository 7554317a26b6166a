SPECIFICATION ReaderSpec
CONSTANTS
    f1 = f1
    f2 = f2
    f3 = f3
    File <- MCFile
    Name <- MCName
    Old = "old"
    Dot = "dot"
    EntriesPerBlock = 4
    RootBlocks = 2
    ClusterCount = 4
    ClusterSizes = {1, 2}
    MaxFaults = 1
    Filters <- MCFilters
    MaxCalls = 3
SYMMETRY Symmetry
CONSTRAINTS
    Placed
    Roomy
CHECK_DEADLOCK FALSE
INVARIANTS
    ReaderTypeOK
    ListingExact
    FilesListed
    UnwrapSafe
    ReaderExact
    CountAgrees
