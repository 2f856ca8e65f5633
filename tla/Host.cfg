SPECIFICATION Spec
CONSTANTS
    BootPlugins = {p1, p2}
    Containers = {c1}
    HomeOf <- MCHomeOf
    MaxStarts = 2
    MaxChanges = 1
    Runs = {r1, r2}
    Stops = {s1, s2}
    NoRun = NoRun
    MaxPages = 2
    MaxPackets = 2
    Tokens <- MCTokens
    Asked <- MCAsked
    ProdConfigs <- MCProd
    DevConfigs <- MCDev
    Html <- MCHtml
    Dotted <- MCDotted
INVARIANTS RegistryIsTrue NothingIsForgotten PagesHearTheirOwn ServesOneFile
PROPERTIES QuitEnds
CHECK_DEADLOCK FALSE
