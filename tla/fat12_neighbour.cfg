SPECIFICATION Spec
CONSTANTS
    ClusterCount = 40
    FatCount = 2
    OldTables <- MCOldTables
    Touched <- MCTouched
    Stored <- MCStored
INVARIANT EntriesIndependent
