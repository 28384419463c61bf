SPECIFICATION Spec
CONSTANTS
    t1 = t1
    t2 = t2
    m1 = m1
    m2 = m2
    c1 = c1
    c2 = c2
    a = a
    b = b
    Nothing = Nothing
    Threads <- MCThreads
    Documents <- MCGood
    Machines <- MCMachines
    DefaultConfig = c1
    Configs <- MCOneConfig
    HardwareIds <- MCHardwareIds
    Features <- MCFeatures
    Ops <- MCLoads
    MemoryRunsOut = FALSE
    Lifetime = 1
    MaxClock = 2
    MaxCalls = 2
INVARIANTS
    Whole
\* The callers stop calling once their calls are spent.
CHECK_DEADLOCK FALSE
