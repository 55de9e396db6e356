SPECIFICATION StatSpec
CONSTANTS
    LastCluster = 4
    CLUSTER_EOF = 15
    CLUSTER_ERROR = 255
    Files = {f1, f2}
    TotalClusters = 7
    FilesysType = "FS_FAT32"
    SlackEntry = 15
    InfoPage = {2, 3}
    IoErrors = FALSE
INVARIANTS StatvfsCountsFreeClusters
