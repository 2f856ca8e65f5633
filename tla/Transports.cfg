SPECIFICATION Spec
CONSTANTS
    Ctl = ctl
    ClientStreams = {c}
    ServerStreams = {s}
    MaxTroubles = 1
    Ids = {i}
    OpenerOf <- MCOpenerOf
    MaxSends = 3
    MaxGiven = 2
    FromBridge = fb
    FromProxy = fp
    Tunneled <- MCTunneled
    OriginOf <- MCOriginOf
    Targets = {t1, t2}
    MaxChunks = 2
    MaxWrites = 2
INVARIANTS StreamsAreMatched OrderIsKept SharedStreamsAgree
PROPERTIES OpensSettle EverythingEnds MemDropsUnheard
CHECK_DEADLOCK FALSE
