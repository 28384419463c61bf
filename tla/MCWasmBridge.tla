---------------------------- MODULE MCWasmBridge ----------------------------
\* Small instances of WasmBridge.
EXTENDS WasmBridge, TLC

CONSTANTS u1, u2, h1, h2
MCUsers == {u1, u2}
MCHwids == {h1, h2}
MCSymmetry == Permutations(MCUsers) \cup Permutations(MCHwids)
=============================================================================
