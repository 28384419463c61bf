-------------------------- MODULE MCHardwareProbe --------------------------
\* A small instance of HardwareProbe.
EXTENDS HardwareProbe

CONSTANTS p1, p2, a, b

MCProcesses == {p1, p2}
MCValues == {a, b}

\* One suffix for a string that returns, another for one that is new.
MCEndings == {1, 2}

\* A machine like most, with a Linux that names no processor, and one that names
\* it.
Usual == [s \in Sources |-> IF s = "cpuinfo" THEN Absent ELSE a]
Named == [Usual EXCEPT !["cpuinfo"] = a]

\* The default configuration, one whose components could be confused, one that can
\* fail, and the test of a component that is not enabled.
MCHosts ==
    {[platform |-> "linux", config |-> {"cpu", "mac", "volume"}, shown |-> m] : m \in {Usual, Named}}
    \cup {[platform |-> "linux", config |-> {"mac", "mobo"}, shown |-> Usual],
          [platform |-> "linux", config |-> {"volume"}, shown |-> Usual],
          [platform |-> "windows", config |-> {"cpu", "mac", "volume"}, shown |-> Usual],
          [platform |-> "windows", config |-> {"mac", "volume", "mobo"}, shown |-> Usual],
          [platform |-> "macos", config |-> {"cpu", "mac", "volume"}, shown |-> Usual]}

MCSources == {"ifaddrs", "board_serial", "adapters"}
MCSymmetry == Permutations(Processes)
=============================================================================
