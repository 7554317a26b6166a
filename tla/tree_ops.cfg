SPECIFICATION Spec
CONSTANTS
    a = a
    b = b
    o1 = o1
    o2 = o2
    o3 = o3
    Thread <- MCThread
    Object <- MCObject
    Name = {"a", "long name"}
    LongName = {"long name"}
    RootSlots = 5
    Capacity = 3
    ClusterCount = 6
    MaxCalls = 4
    MaxFaults = 1
SYMMETRY Symmetry
CONSTRAINT Undamaged
CHECK_DEADLOCK FALSE
INVARIANTS
    TypeOK
    OneOwner
    NothingLost
    NothingLeaked
    DotDotLeadsUp
