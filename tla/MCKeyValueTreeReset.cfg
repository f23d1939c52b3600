CONSTANTS
    Keys = {k1, k2}
    MAX_NUM_CHILD_NODES = 3
    Capacity = 4
    MaxResets = 1
SPECIFICATION Spec
SYMMETRY Symmetry
INVARIANT SurvivesReset
