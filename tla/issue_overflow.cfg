SPECIFICATION Spec
CONSTANTS
    Keys = {"mine", "other", "short"}
    ShortKeys = {"short"}
    Key = "mine"
    Hwids <- MCHwids
    TicksPerSecond = 3
    HalfRange = 13
    TicksPerHour = 2
    HourRange = 13
    VersionRange = 2
    LongRange = 4
    Lists <- MCLists
    Validities = {2}
    Drafts <- MCDrafts
    Alterations <- MCAlterations
    MaxClock = 5
    MaxSigned = 2
    MaxChanges = 1
INVARIANTS
    NeverLate
\* The clock, the signatures and the alterations are bounded.
CHECK_DEADLOCK FALSE
