SPECIFICATION Spec
CONSTANTS
    LastCluster = 4
    SectorsPerCluster = 2
    BytesPerSector = 2
    FILE_MAX_SIZE = 14
    PlainCalls = {"write", "seek", "seekPast", "fsync"}
    AppendCalls = {"write", "shrink", "grow", "fsync"}
    OpenModes = {"plain", "O_TRUNC", "O_APPEND"}
    MaxExtend = 12
    IoErrors = FALSE
INVARIANTS TypeOK WritesHitFile EraseSpares PositionAgrees AppendAgrees ChainFitsSize ClosedFileIsFound StopsOnlyWhenFull
