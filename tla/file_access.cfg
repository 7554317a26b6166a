SPECIFICATION Spec
CONSTANTS
    ClusterCount = 5
    BlockSize = 2
    BlocksPerCluster = 2
    MaxOffset = 12
    MaxBuffer = 9
INVARIANTS
    TypeOK
    SoundAccessExact
    SoundAccessComplete
    ReadPanicsOnOddBuffersOnly
