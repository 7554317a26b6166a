SPECIFICATION Spec
CONSTANTS
    a = a
    b = b
    f = f
    g = g
    Thread <- MCThread
    Slot <- MCSlot
    ClusterCount = 5
    ClusterSize = 2
    MaxSize = 5
    MaxFaults = 1
SYMMETRY Symmetry
CONSTRAINT Untorn
INVARIANTS
    TypeOK
    FilesDisjoint
    SizesCovered
    NothingLost
    
PROPERTY PoolUntilTorn
