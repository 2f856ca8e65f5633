SPECIFICATION FairSpec
CONSTANTS
    Names = {"app", "lib", "base"}
    Versions = {1, 2}
    Plugins <- MCPlugins
    Requires <- MCRequires
    Prereleases = {2}
    MaxCalls = 2
    MaxFailures = 1
INVARIANTS RunsWhatIsEnabled ResolutionComplete
PROPERTIES PlansAreRun
CHECK_DEADLOCK FALSE
