SPECIFICATION FairSpec
CONSTANTS
    k1 = k1
    k2 = k2
    h1 = h1
    h2 = h2
    w1 = w1
    w2 = w2
    v1 = v1
    AnyHost = AnyHost
    Keys = {k1, k2}
    Hosts = {h1, h2}
    HostOf <- TwoKeyHost
    Workers = {w1, w2}
    Walkers = {v1}
    Commands <- HostCommands
    TTL = 1
    MaxTime = 0
    MaxGen = 3
    MaxWalks = 1
    MaxCrashes = 0
    IOFaults = FALSE
INVARIANTS
    NoStranded
    NoCrossTalk
PROPERTIES
    PurgeKeepsOtherHosts
    RequestsEnd
    WalksEnd
