SPECIFICATION FairSpec
CONSTANTS
    LastCluster = 4
    CLUSTER_EOF = 15
    CLUSTER_ERROR = 255
    Files = {f1, f2}
    TotalClusters = 6
    FilesysType = "FS_FAT32"
    SlackEntry = 0
    InfoPage = {2}
    IoErrors = FALSE
INVARIANTS TypeOK NoCrossLinks NoLostClusters RefusedOnlyWhenFull FreeCountIsExact
PROPERTIES ImplementsClusterPool LoopsEnd
