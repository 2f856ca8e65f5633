SPECIFICATION FairSpec
CONSTANTS
    Buses = {"r", "a", "b", "c"}
    Root = "r"
    ParentOf <- MCParentOf
    Nodes = {"nr", "nb", "nc"}
    HomeOf <- MCHomeOf
    MaxTroubles = 1
INVARIANTS CompleteMeansAll ResultsAddUp
PROPERTIES AskSettles
CHECK_DEADLOCK FALSE
