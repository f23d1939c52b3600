CONSTANTS
    Keys = {k1, k2, k3, k4}
    MAX_NUM_CHILD_NODES = 3
    Capacity = 7
    MaxResets = 1
    MaxLateWrites = 1
SPECIFICATION LoadSpec
SYMMETRY Symmetry
INVARIANTS
    TypeOK
    NodesFormTree
    GrowthNodeIsLast
    OneGrowthNode
    LatestIsLoaded
    LoadMissesOnlyEdited
PROPERTY BitsOnlyCleared
