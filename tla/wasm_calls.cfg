SPECIFICATION FairSpec
CONSTANTS
    u1 = u1
    u2 = u2
    h1 = h1
    h2 = h2
    NoText = NoText
    Users <- MCUsers
    Hwids <- MCHwids
    Timeout = 2
    MaxCalls = 3
INVARIANTS
    TypeOK
    WrongOnlyIfAbandoned
    OneRequestPerCall
    MatchedDuringCall
PROPERTIES
    CallEnds
\* The page stops calling once its calls are spent.
CHECK_DEADLOCK FALSE
