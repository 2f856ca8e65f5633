SPECIFICATION Spec
CONSTANTS
    Keys <- MCKeys
    Subpaths <- MCSubpaths
    Chains <- MCChains
    Arity = 1
    MaxDepth = 2
    MaxEntries = 2
    MaxMeta = 1
    Nodes = {n1, n2, n3}
    Root = n1
    MaxItems = 2
    Prefix = 2
    Sizes = {0, 1, 3}
    HighWater = 4
    MaxFrames = 3
INVARIANTS CallsAreHandled DataArrives NodeIsWhole
CHECK_DEADLOCK FALSE
