CONSTANTS
    BlockSize = 8
    BlockHeaderSize = 4
    ChunkHeaderSize = 2
    ChunkSize = 34
    FinalPadding = 2
    WithMetadata = TRUE
    RecordSizes = {0, 27}
    DataSizes = {0, 5}
    MaxRecords = 5
SPECIFICATION Spec
INVARIANTS
    PositionTracksStream
    ChunksTile
    BlockHeadersLead
    RecordPositionsDisjoint
    RecordsConserved
    ChunkSizeRespected
    FlushPublishesAll
PROPERTIES
    NoWriteAfterError
    OperationsReturn
    ImplementsLog
