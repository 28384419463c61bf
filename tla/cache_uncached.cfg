SPECIFICATION Spec
CONSTANTS
    t1 = t1
    t2 = t2
    f1 = f1
    f2 = f2
    NoThread = NoThread
    NoValue = NoValue
    Thrown = Thrown
    Threads <- MCThreads
    Fingerprints <- MCFingerprints
    EnableCaching = FALSE
    ThreadSafe = TRUE
    Lifetime = 1
    MaxClock = 3
    MaxCalls = 2
SYMMETRY MCSymmetry
INVARIANTS
    MissesBounded
\* The callers stop calling once their calls are spent.
CHECK_DEADLOCK FALSE
