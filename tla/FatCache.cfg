CONSTANTS
    NumberOfPages = 2
    SectorsPerPage = 2
    EndOfPartition = 5
    BytesPerSector = 1
    ByteValues = {0, 1}
    FirstBytes = {1}
    AccessMax = 1
    CACHE_FREE = 99
    CallSectors = {1, 4}
    MaxTransfer = 2
    TornReads = FALSE
SPECIFICATION FairSpec
INVARIANTS TypeOK PagesDisjoint CleanPagesMatchDisc TransfersAgree FlushedIsDurable
PROPERTIES ImplementsBlockStore CallsReturn
