SPECIFICATION Spec
CONSTANTS
    total_clust = 5
    BlockSize = 2
    ClusterBlocks = 2
    EightBlocks = 2
    ChainInfos = 3
    MaxClusters = 4
    MaxLen = 9
INVARIANT ReadsHitFile
