SPECIFICATION FairSpec
CONSTANTS
    t1 = t1
    t2 = t2
    f1 = f1
    f2 = f2
    NoThread = NoThread
    NoValue = NoValue
    Thrown = Thrown
    Threads <- MCThreads
    Fingerprints <- MCFingerprints
    EnableCaching = TRUE
    ThreadSafe = TRUE
    Lifetime = 1
    MaxClock = 3
    MaxCalls = 2
INVARIANTS
    TypeOK
    IInv
    Fresh
    NoRedundantProbe
    StatsAccount
    StatsSnapshot
    ClearTakesEffect
    CheckedStaysTrue
PROPERTIES
    Linearizable
    CallsReturn
\* The callers stop calling once their calls are spent.
CHECK_DEADLOCK FALSE
