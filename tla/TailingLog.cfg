CONSTANTS
    BlockSize = 8
    BlockHeaderSize = 2
    ChunkHeaderSize = 1
    ChunkSize = 24
    FinalPadding = 0
    WithMetadata = TRUE
    RecordSizes = {1}
    DataSizes = {0, 7}
    MaxRecords = 2
SPECIFICATION LogSpec
INVARIANTS
    ReadsLog
PROPERTIES
    PublishedIsRead
