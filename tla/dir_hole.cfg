SPECIFICATION Spec
CONSTANTS
    f1 = f1
    f2 = f2
    f3 = f3
    File <- MCFile
    Name <- MCName
    Old = "old"
    Dot = "dot"
    EntriesPerBlock = 4
    RootBlocks = 2
    ClusterCount = 4
    ClusterSizes = {1}
    MaxFaults = 0
CHECK_DEADLOCK FALSE
INVARIANTS
    NamesFound
