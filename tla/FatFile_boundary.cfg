SPECIFICATION Spec
CONSTANTS
    LastCluster = 4
    SectorsPerCluster = 2
    BytesPerSector = 2
    FILE_MAX_SIZE = 8
    PlainCalls = {"read", "write"}
    AppendCalls = {}
    OpenModes = {"plain"}
    MaxExtend = 8
    IoErrors = FALSE
INVARIANT ReadsHitFile
