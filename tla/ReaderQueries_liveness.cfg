CONSTANTS
    BlockSize = 8
    BlockHeaderSize = 2
    ChunkHeaderSize = 2
    Files <- MCFiles
    Recoveries = {TRUE}
    Addresses = {}
    Indices = {0}
    Numerics = {}
    MaxSeeks = 0
    MaxIoErrors = 0
    Shape <- PlainShape
    Kinds = {"claim", "lie"}
    MaxDamage = 1
    Cuts = {18}
    MoreCuts = {}
    Growing = {TRUE}
    Queries = {"search", "seek_back", "size"}
    Targets = {17}
    MaxQueries = 1
    Sequels = {}
SPECIFICATION QSpec
PROPERTIES
    QueriesReturn
    ReachesEnd
