SPECIFICATION FairSpec
CONSTANTS
    LastCluster = 4
    SectorsPerCluster = 2
    BytesPerSector = 2
    FILE_MAX_SIZE = 13
    PlainCalls = {"read", "seek", "seekPast", "fsync"}
    AppendCalls = {"write", "grow"}
    OpenModes = {"plain", "O_APPEND"}
    MaxExtend = 13
    IoErrors = TRUE
INVARIANTS ReadsHitFile
PROPERTY CallsReturn
