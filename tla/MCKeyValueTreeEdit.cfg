CONSTANTS
    Keys = {k1, k2, k3, k4, k5}
    MAX_NUM_CHILD_NODES = 4
    Capacity = 11
    MaxResets = 0
SPECIFICATION Spec
SYMMETRY Symmetry
INVARIANT EditTakesEffect
