SPECIFICATION Spec
CONSTANTS
    p1 = p1
    p2 = p2
    a = a
    b = b
    Absent = Absent
    Processes <- MCProcesses
    Hosts <- MCHosts
    Values <- MCValues
    Endings <- MCEndings
    Changeable <- MCSources
    MaxChanges = 2
    MaxBoots = 2
    MaxProbes = 2
SYMMETRY MCSymmetry
INVARIANTS
    TypeOK
    AtomicUpToOneChange
    SameFingerprintSameComponents
    Reproducible
    AcrossBoots
    GettersAgree
\* The processes stop probing once the probes are spent.
CHECK_DEADLOCK FALSE
