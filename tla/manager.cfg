SPECIFICATION Spec
CONSTANTS
    t1 = t1
    t2 = t2
    m1 = m1
    m2 = m2
    c1 = c1
    c2 = c2
    a = a
    b = b
    Nothing = Nothing
    Threads <- MCThreads
    Documents <- MCDocuments
    Machines <- MCMachines
    DefaultConfig = c1
    Configs <- MCConfigs
    HardwareIds <- MCHardwareIds
    Features <- MCOneFeature
    Ops <- MCAllOps
    MemoryRunsOut = TRUE
    Lifetime = 0
    MaxClock = 2
    MaxCalls = 3
SYMMETRY MCSymmetry
INVARIANTS
    TypeOK
    InForceIsLatest
    RejectionChangesNothing
    AcceptedHere
    FeatureProvenance
\* The callers stop calling once their calls are spent.
CHECK_DEADLOCK FALSE
