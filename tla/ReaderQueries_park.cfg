CONSTANTS
    BlockSize = 8
    BlockHeaderSize = 2
    ChunkHeaderSize = 2
    Files <- MCFiles
    Recoveries = {TRUE}
    Addresses = {}
    Indices = {}
    Numerics = {}
    MaxSeeks = 0
    MaxIoErrors = 0
    Shape <- TailShape
    Kinds = {}
    MaxDamage = 0
    Cuts = {17, 18}
    MoreCuts = {}
    Growing = {TRUE}
    Queries = {"search"}
    Targets = {40}
    MaxQueries = 1
    Sequels = {}
SPECIFICATION QSpec
INVARIANTS
    ParkedBetweenChunks
