CONSTANTS
    BlockSize = 8
    BlockHeaderSize = 2
    ChunkHeaderSize = 2
    Files <- MCFiles
    Recoveries = {TRUE}
    Addresses = {7, 14}
    Indices = {0}
    Numerics = {}
    MaxSeeks = 1
    MaxIoErrors = 1
    Shape <- TailShape
    Kinds = {"header", "data", "block"}
    MaxDamage = 1
    Cuts = {18}
    MoreCuts = {}
    Growing = {TRUE}
    Queries = {"search", "seek_back", "size", "metadata", "check"}
    Targets = {7, 17}
    MaxQueries = 2
    Sequels = {"seek_back"}
SPECIFICATION QSpec
INVARIANTS
    SearchComplete
    SeekBackStepsBack
    SizeCounts
    MetadataNotHidden
    CheckDecides
    ReadsExactlyAfter
