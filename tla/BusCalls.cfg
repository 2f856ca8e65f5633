SPECIFICATION Spec
CONSTANTS
    Buses = {"r", "a", "c"}
    Root = "r"
    ParentOf <- MCParentOf
    Nodes = {"n1", "n2"}
    HomeOf <- MCHomeOf
    GroupSets = {{"x"}, {"y"}}
    FirstGroups <- MCFirstGroups
    Calls = {"c1"}
    MaxJoins = 1
    MaxTroubles = 1
INVARIANTS
    AnswersAreTrue
    NothingGoesInCircles
PROPERTIES
    AsksSettle
CHECK_DEADLOCK FALSE
