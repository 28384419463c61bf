------------------------- MODULE MCFingerprintCache -------------------------
\* Small instances of FingerprintCache.
EXTENDS FingerprintCacheRefinement, TLC

CONSTANTS t1, t2, f1, f2

MCOneThread == {t1}
MCThreads == {t1, t2}
MCFingerprints == {f1, f2}

\* Callers are interchangeable, and so are fingerprints.
MCSymmetry == Permutations(Threads) \cup Permutations(Fingerprints)
=============================================================================
