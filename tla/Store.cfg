SPECIFICATION Spec
CONSTANTS
    k1 = k1
    k2 = k2
    h1 = h1
    h2 = h2
    w1 = w1
    w2 = w2
    v1 = v1
    AnyHost = AnyHost
    Keys = {k1}
    Hosts = {h1}
    HostOf <- OneKeyHost
    Workers = {w1, w2}
    Walkers = {v1}
    Commands <- OneKeyCommands
    TTL = 1
    MaxTime = 1
    MaxGen = 3
    MaxWalks = 1
    MaxCrashes = 1
    IOFaults = TRUE
SYMMETRY WorkerSymmetry
INVARIANTS
    TypeOK
    HeaderAfterBody
    TempsAccounted
    PurgedStaysGone
    StoreInv
