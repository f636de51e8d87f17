CONSTANTS
    BlockSize = 8
    BlockHeaderSize = 3
    ChunkHeaderSize = 4
    MaxBegin = 26
    MaxSpan = 24
SPECIFICATION Spec
INVARIANTS
    WalkComputes
    DistanceInvertsAdd
PROPERTY WalkTerminates
