SPECIFICATION Spec
CONSTANTS
    total_clust = 4
    BlockSize = 2
    ClusterBlocks = 4
    EightBlocks = 2
    ChainInfos = 2
    MaxClusters = 4
    MaxLen = 13
INVARIANTS RunsExpandToChain AdjacentReadsHitFile ReadAdvances
