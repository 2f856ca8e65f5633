SPECIFICATION FairSpec
CONSTANTS
    Buses = {"r", "a", "c"}
    Root = "r"
    ParentOf <- MCParentOf
    Nodes = {"n1", "n2"}
    Places <- MCPlaces
    MaxCalls = 3
    MaxTroubles = 1
INVARIANTS TablesAgree
PROPERTIES JoinTellsAll CallsSettle
CHECK_DEADLOCK FALSE
