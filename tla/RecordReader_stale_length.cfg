CONSTANTS
    BlockSize = 8
    BlockHeaderSize = 2
    ChunkHeaderSize = 2
    Files <- MCFiles
    Recoveries = {TRUE}
    Addresses = {}
    Indices = {}
    Numerics = {}
    MaxSeeks = 0
    MaxIoErrors = 0
    Shape <- PlainShape
    Kinds = {"header"}
    MaxDamage = 1
    Cuts = {11}
    MoreCuts = {}
    Growing = {TRUE}
SPECIFICATION Spec
PROPERTIES
    RegionsEndAtResync
