SPECIFICATION FairSpec
CONSTANTS
    t1 = t1
    t2 = t2
    p1 = p1
    NoThread = NoThread
    Threads = {t1, t2}
    Paths = {p1}
    Versions = {1, 2}
    Size <- Sizes
    Broken = {}
    MaxEdits = 2
    DistinctStamps = TRUE
INVARIANTS
    TypeOK
    OneEntryPerPath
    CacheIsCurrent
    ResultIsRecent
    RulesInv
PROPERTIES
    CacheIsInvisible
    CallsReturn
    ParsingSettles
