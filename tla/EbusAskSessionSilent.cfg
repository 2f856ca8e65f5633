SPECIFICATION FairSpec
CONSTANTS
    Buses = {"r", "a", "b", "c"}
    Root = "r"
    ParentOf <- MCParentOf
    Nodes = {"nr", "nb", "nc"}
    HomeOf <- MCHomeOf
    MaxTroubles = 0
PROPERTY
    AskAlwaysCompletes
CHECK_DEADLOCK FALSE
