-------------------------- MODULE MCLicenseManager --------------------------
\* Small instances of LicenseManager: two callers, two machines, and
\* documents that differ in machine, configuration, features and expiry, or fail
\* one of the checks.
EXTENDS LicenseManager, TLC

CONSTANTS t1, t2, m1, m2, c1, c2, a, b

MCThreads == {t1, t2}
MCMachines == {m1, m2}
MCConfigs == {c1, c2}
MCOneConfig == {c1}
MCFeatures == {a, b}
MCOneFeature == {a}
MCHardwareIds == {<<m1, c1>>}

Document(m, c, fs, e) ==
    [defect |-> "none", signed |-> TRUE, expiry |-> e,
     hardware_hash |-> <<m, c>>, features |-> fs]

Good == {Document(m1, c1, {a}, 1), Document(m2, c1, {b}, 2)}
Forged == [Document(m1, c1, {a}, 2) EXCEPT !.signed = FALSE]
Garbled == [Document(m1, c1, {a}, 2) EXCEPT !.defect = "syntax"]

MCDocuments == {Document(m1, c1, {a}, 1), Document(m2, c2, {}, 2),
                Forged, Garbled}
MCGood == Good \cup {Document(m1, c1, {a, b}, 3)}

MCAllOps == {"load", "validate", "has", "require", "expired",
             "available", "hwid", "config", "strict"}
MCLoads == {"load"}
MCSymmetry == Permutations(Threads)
=============================================================================
