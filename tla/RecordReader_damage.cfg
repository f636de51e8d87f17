CONSTANTS
    BlockSize = 8
    BlockHeaderSize = 2
    ChunkHeaderSize = 2
    Files <- MCFiles
    Recoveries = {TRUE, FALSE}
    Addresses = {4}
    Indices = {4}
    Numerics = {17, 50}
    MaxSeeks = 1
    MaxIoErrors = 1
    Shape <- PlainShape
    Kinds = {"header", "data", "decode", "block"}
    MaxDamage = 2
    Cuts = {17}
    MoreCuts = {0, 5}
    Growing = {TRUE, FALSE}
SPECIFICATION Spec
INVARIANTS
    TypeOK
    ReadsExactly
    RegionsCoverDamage
    NeverPassesDamage
PROPERTIES
    ReturnsInOrder
    RegionsAdvance
