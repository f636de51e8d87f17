CONSTANTS
    BlockSize = 8
    BlockHeaderSize = 2
    ChunkHeaderSize = 2
    ChunkSize = 16
    FinalPadding = 5
    WithMetadata = TRUE
    RecordSizes = {0}
    DataSizes = {0, 1}
    MaxRecords = 1
SPECIFICATION Spec
PROPERTY NoWriteAfterError
