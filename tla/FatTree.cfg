SPECIFICATION Spec
CONSTANTS
    Names = {a, b}
    DataClusters = {c1, c2}
    RootCluster = root
    CLUSTER_EOF = CLUSTER_EOF
    SlotsPerCluster = 4
    Handles = {h1, h2}
    MaxFileClusters = 2
    CallPaths <- MCCallPaths
INVARIANTS OneOwner HandlesKeepTheirEntry WalkAgrees
PROPERTY ImplementsFileTree
SYMMETRY MCSymmetry
