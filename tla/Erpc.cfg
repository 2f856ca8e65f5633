SPECIFICATION ErpcSpec
CONSTANTS
    Capacity = 2
    Chunks = 6
    Troubles = {"write", "link", "node"}
    Clients <- MCClients
    Calls <- MCCalls
    ClientOf <- MCClientOf
    MayBreak = TRUE
INVARIANTS
    ChunksAreKept
    PendingIsSomewhere
    PinsAreKept
PROPERTIES
    NobodyIsLeft
    CallsSettle
CHECK_DEADLOCK FALSE
