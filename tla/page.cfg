SPECIFICATION Spec
CONSTANTS
    MaxLicenses = 2
    Iterations = 2
    MaxClicks = 4
    MaxHour = 1
INVARIANTS
    TypeOK
    LimitUpToOverlap
    VerdictHolds
    ShownAgrees
    TipHolds
\* The clicks are bounded.
CHECK_DEADLOCK FALSE
