--------------------------- MODULE HardwareProbe ---------------------------
(***************************************************************************)
(* Collecting the hardware components on Linux, Windows and macOS            *)
(* (src/src/hardware_fingerprint.cpp lines 88-166, 231-703): processes read  *)
(* one component of the machine after the other, and join what they read, or *)
(* ask for a single component.  A source may change, fail to open, or be     *)
(* replaced by a fallback, between any two reads.  SHA-256 does not fail and *)
(* is injective, and no component contains the separator: a fingerprint is   *)
(* what was joined.                                                         *)
(***************************************************************************)
EXTENDS Integers, FiniteSets, SequencesExt

CONSTANTS
    Processes,
    Hosts,          \* the systems: their platform, configuration and contents
    Values,         \* what a source may contain
    Absent,         \* the source does not exist, is empty, or is a placeholder
    Endings,        \* what may follow the prefix of a fallback
    Changeable,     \* bound: the sources that change while the system runs
    MaxChanges,     \* bound: changes of a source
    MaxBoots,       \* bound: boots of the machine
    MaxProbes       \* bound: calls

Order == <<"cpu", "mac", "volume", "mobo">>
Components == {"cpu", "mac", "volume", "mobo"}

\* The ways to each component on each system, in the order they are tried.  Every
\* source of a way must yield something, and the last one is the value.
\* On Linux the device of the root file system is found, and then not used.
RootVolume_Device == <<<<"mounts">>>>   \* defective variant: it is used
RootVolume == <<<<"mounts", "boot_id">>>>
Linux   == [cpu    |-> <<<<"cpuinfo">>, <<"machine-id">>>>,
            mac    |-> <<<<"ifaddrs">>>>,
            volume |-> RootVolume,
            mobo   |-> <<<<"board_serial">>>>]
Windows == [cpu    |-> <<<<"cpuid">>>>,
            mac    |-> <<<<"adapters">>>>,
            volume |-> <<<<"C:">>>>,
            mobo   |-> <<>>]
MacOS   == [cpu    |-> <<<<"hw.uuid">>, <<"hw.model">>>>,
            mac    |-> <<<<"ifaddrs">>>>,
            volume |-> <<<<"statfs">>>>,
            mobo   |-> <<>>]

Platforms == {"linux", "windows", "macos"}
WaysOn(p, c) == CASE p = "linux"   -> Linux[c]
                  [] p = "windows" -> Windows[c]
                  [] p = "macos"   -> MacOS[c]
SourcesOn(p, c) == UNION {Range(WaysOn(p, c)[i]) : i \in DOMAIN WaysOn(p, c)}
Sources == (UNION {SourcesOn(p, c) : p \in Platforms, c \in Components}) \ {"boot_id"}

ASSUME HostsAssumption ==
    Hosts \subseteq [platform : Platforms, config : SUBSET Components,
                     shown : [Sources -> Values \cup {Absent}]]
ASSUME AbsentAssumption == Absent \notin Values \cup Nat
ASSUME EndingsAssumption == Endings # {}
ASSUME ChangeableAssumption == Changeable \subseteq Sources
ASSUME BoundsAssumption ==
    MaxChanges \in Nat /\ MaxBoots \in Nat \ {0} /\ MaxProbes \in Nat

VARIABLES
    platform,
    config,     \* the components config_ enables, the same in every process
    shown,      \* what each source contains
    boot,       \* /proc/sys/kernel/random/boot_id, a new one at each boot
    changes,    \* source changes so far, for the bound
    \* one call of compute_hash per process
    pc,
    readings,   \* what each component read so far yielded, failures included
    combined,   \* the stringstream, as the sequence of joined strings
    slipped,    \* some source existed and could not be opened
    seen,       \* the machines there were since the call began
    \* history
    reports     \* the calls that returned a fingerprint or a component

machine == [shown |-> shown, boot |-> boot]
installation == <<platform, config>>
environment == <<platform, config, shown, boot, changes>>
vars == <<platform, config, shown, boot, changes, pc, readings, combined,
          slipped, seen, reports>>

Init ==
    /\ \E h \in Hosts : platform = h.platform /\ config = h.config /\ shown = h.shown
    /\ boot = 1
    /\ changes = 0
    /\ pc = [p \in Processes |-> "idle"]
    /\ readings = [p \in Processes |-> <<>>]
    /\ combined = [p \in Processes |-> <<>>]
    /\ slipped = [p \in Processes |-> FALSE]
    /\ seen = [p \in Processes |-> {}]
    /\ reports = <<>>

-----------------------------------------------------------------------------
(* The environment.                                                         *)

Watched(m) == [p \in Processes |-> IF pc[p] = "idle" THEN {} ELSE seen[p] \cup {m}]

SourcesOf(c) == SourcesOn(platform, c)

\* An interface is plugged in before the others, a board is replaced, ...
SourceChange ==
    /\ changes < MaxChanges
    /\ changes' = changes + 1
    /\ \E s \in Changeable \cap UNION {SourcesOf(c) : c \in config} :
       \E v \in (Values \cup {Absent}) \ {shown[s]} :
          shown' = [shown EXCEPT ![s] = v]
    /\ seen' = Watched([shown |-> shown', boot |-> boot])
    /\ UNCHANGED <<installation, boot, pc, readings, combined, slipped, reports>>

\* No call survives a reboot.
Reboot ==
    /\ boot < MaxBoots
    /\ boot' = boot + 1
    /\ pc' = [p \in Processes |-> "idle"]
    /\ readings' = [p \in Processes |-> <<>>]
    /\ combined' = [p \in Processes |-> <<>>]
    /\ slipped' = [p \in Processes |-> FALSE]
    /\ seen' = [p \in Processes |-> {}]
    /\ UNCHANGED <<installation, shown, changes, reports>>

-----------------------------------------------------------------------------
(* One component, given the files and system calls that succeed.             *)

\* An exception or an empty string.
Missing == <<"missing">>
\* A volume serial never has the form of another component.
Value(c, v) == <<IF c = "volume" THEN "serial" ELSE "value", v>>

\* Defective variant: an empty string is returned.
generate_secure_fallback_Empty(prefix) == {Missing}

\* prefix-xxxxxxxxxxxx, 48 bits of the hash of the time, the process, the thread,
\* the host and 16 random bytes, or prefix-fallback- and the time.  Nothing rules
\* out a string that was returned before.
generate_secure_fallback(prefix) == {<<prefix, n>> : n \in Endings}

IsFallback(v) == v[1] \in Components

\* What a block adds to the stream.
Piece(v) == IF v = Missing THEN <<>> ELSE <<v>>

\* Only the volume serial has no fallback, and the Windows call for the adapters
\* throws at once, unless it fails three times because the list grows.
Otherwise(c, opened) ==
    CASE c = "volume" -> {Missing}
      [] c = "mac" /\ platform = "windows" /\ "adapters" \notin opened ->
            {Missing} \cup generate_secure_fallback(c)
      [] OTHER -> generate_secure_fallback(c)

Content(m, s) == IF s = "boot_id" THEN m.boot ELSE m.shown[s]
Yields(m, way, opened) == \A s \in Range(way) : s \in opened /\ Content(m, s) # Absent

Good(m, c, opened) ==
    {i \in DOMAIN WaysOn(platform, c) : Yields(m, WaysOn(platform, c)[i], opened)}

\* What get_*_impl may return for component c of machine m.
Read(m, c, opened) ==
    LET good == Good(m, c, opened)
    IN  IF good # {} THEN {Value(c, Content(m, Last(WaysOn(platform, c)[Min(good)])))}
                     ELSE Otherwise(c, opened)

\* A component that config_ disables is not read.
Block(m, c, opened) == IF c \in config THEN Read(m, c, opened) ELSE {Missing}

\* The instruction cpuid always works.
Openings(c) == {opened \in SUBSET SourcesOf(c) : SourcesOf(c) \cap {"cpuid"} \subseteq opened}

-----------------------------------------------------------------------------
(* The calls.                                                               *)

Budget == Len(reports) + Cardinality({q \in Processes : pc[q] # "idle"}) < MaxProbes

Begin(p) ==
    /\ pc[p] = "idle"
    /\ Budget
    /\ pc' = [pc EXCEPT ![p] = "collect"]
    /\ seen' = [seen EXCEPT ![p] = {machine}]
    /\ UNCHANGED <<environment, readings, combined, slipped, reports>>

Finished(p) == Len(readings[p]) = Len(Order)
Component(p) == Order[Len(readings[p]) + 1]

\* One of the four blocks: what cannot be read is skipped.
Collect(p) ==
    /\ pc[p] = "collect"
    /\ ~Finished(p)
    /\ \E opened \in Openings(Component(p)) : \E v \in Block(machine, Component(p), opened) :
          /\ readings' = [readings EXCEPT ![p] = Append(@, v)]
          /\ combined' = [combined EXCEPT ![p] = @ \o Piece(v)]
          /\ slipped' = [slipped EXCEPT ![p] = @ \/ opened # SourcesOf(Component(p))]
    /\ UNCHANGED <<environment, pc, seen, reports>>

\* The locals die, the stream among them.
Ends(p) ==
    /\ pc' = [pc EXCEPT ![p] = "idle"]
    /\ readings' = [readings EXCEPT ![p] = <<>>]
    /\ slipped' = [slipped EXCEPT ![p] = FALSE]
    /\ seen' = [seen EXCEPT ![p] = {}]

Report(p) == [of |-> "all", fingerprint |-> combined[p], readings |-> readings[p],
              seen |-> seen[p], slipped |-> slipped[p]]

\* Defective variant: has_any_data is not tested.
Hash_Unchecked(p) ==
    /\ pc[p] = "collect"
    /\ Finished(p)
    /\ reports' = Append(reports, Report(p))
    /\ Ends(p)
    /\ combined' = [combined EXCEPT ![p] = <<>>]
    /\ UNCHANGED environment

\* Defective variant: the stream is a member and is not cleared.
Hash_KeepsStream(p) ==
    /\ pc[p] = "collect"
    /\ Finished(p)
    /\ reports' = IF combined[p] # <<>> THEN Append(reports, Report(p)) ELSE reports
    /\ Ends(p)
    /\ UNCHANGED <<environment, combined>>

\* Without any data HardwareDetectionException leaves the call.
Hash(p) ==
    /\ pc[p] = "collect"
    /\ Finished(p)
    /\ reports' = IF combined[p] # <<>> THEN Append(reports, Report(p)) ELSE reports
    /\ Ends(p)
    /\ combined' = [combined EXCEPT ![p] = <<>>]
    /\ UNCHANGED environment

Answers(c, v, opened) ==
    reports' = Append(reports, [of |-> c, fingerprint |-> <<v>>, readings |-> <<v>>,
                                seen |-> {machine}, slipped |-> opened # SourcesOf(c)])

\* Defective variant: a disabled component is read all the same.
GetOne_Disabled(p, c) ==
    /\ pc[p] = "idle"
    /\ Budget
    /\ \E opened \in Openings(c) : \E v \in Read(machine, c, opened) : Answers(c, v, opened)
    /\ UNCHANGED <<environment, pc, readings, combined, slipped, seen>>

\* get_cpu_id, get_mac_address, ...: an empty string if the component is disabled,
\* an exception (from the _safe variants another empty string) if it is missing.
GetOne(p, c) ==
    /\ pc[p] = "idle"
    /\ Budget
    /\ \E opened \in Openings(c) : \E v \in Block(machine, c, opened) : Answers(c, v, opened)
    /\ UNCHANGED <<environment, pc, readings, combined, slipped, seen>>

Next ==
    \/ SourceChange
    \/ Reboot
    \/ \E p \in Processes :
          \/ Begin(p) \/ Collect(p) \/ Hash(p)
          \/ \E c \in Components : GetOne(p, c)

Spec == Init /\ [][Next]_vars
-----------------------------------------------------------------------------
Strings == ({"value", "serial"} \X (Values \cup 1..boot)) \cup (Components \X Endings)
Machines == [shown : [Sources -> Values \cup {Absent}], boot : 1..boot]

TypeOK ==
    /\ platform \in Platforms
    /\ config \subseteq Components
    /\ shown \in [Sources -> Values \cup {Absent}]
    /\ boot \in 1..MaxBoots
    /\ changes \in 0..MaxChanges
    /\ pc \in [Processes -> {"idle", "collect"}]
    /\ readings \in [Processes -> Seq(Strings \cup {Missing})]
    /\ combined \in [Processes -> Seq(Strings)]
    /\ \A p \in Processes : Len(readings[p]) <= Len(Order)
    /\ slipped \in [Processes -> BOOLEAN]
    /\ seen \in [Processes -> SUBSET Machines]
    /\ \A p \in Processes : IsFiniteSet(seen[p])
    /\ \A i \in DOMAIN reports : Len(reports[i].fingerprint) \in 1..Len(Order)

Whole == {i \in DOMAIN reports : reports[i].of = "all"}
WithFallback(r) == \E i \in DOMAIN r.readings : IsFallback(r.readings[i])

\* A fallback stands for all fallbacks of its component.
BlurOne(v) == IF IsFallback(v) THEN <<v[1], 0>> ELSE v
Blur(f) == [i \in DOMAIN f |-> BlurOne(f[i])]

\* What component c of machine m yields at one instant, every source open, and the
\* fingerprint of that instant.
Clear(m, c) == BlurOne(CHOOSE v \in Block(m, c, SourcesOf(c)) : TRUE)
Ideal(m) == Piece(Clear(m, "cpu")) \o Piece(Clear(m, "mac")) \o Piece(Clear(m, "volume"))
                \o Piece(Clear(m, "mobo"))

\* FingerprintCache reads a fingerprint at one instant, compute_hash component by
\* component (cpp:236-290).  The difference does not show while at most one source
\* changes during the call: the fingerprint is one the machine had at some instant
\* of it.
AtomicUpToOneChange ==
    \A i \in Whole :
        LET r == reports[i]
        IN  ~r.slipped /\ Cardinality(r.seen) <= 2 =>
                \E m \in r.seen : Blur(r.fingerprint) = Ideal(m)

\* Under one configuration equal fingerprints mean equal components, the missing
\* ones included, though the joined strings carry no tags: what can be missing is
\* the volume serial and, on Windows, the address, and these look different.
SameFingerprintSameComponents ==
    \A i, j \in Whole :
        reports[i].fingerprint = reports[j].fingerprint
            => reports[i].readings = reports[j].readings

Steady(r) == Cardinality(r.seen) = 1 /\ ~r.slipped

\* An unchanged machine gives every process the same fingerprint, within a boot
\* and as long as no component needs its fallback.
Reproducible ==
    \A i, j \in Whole :
        LET r == reports[i]  s == reports[j]
        IN  Steady(r) /\ Steady(s) /\ r.seen = s.seen /\ ~WithFallback(r)
            => r.fingerprint = s.fingerprint

\* What a reboot changes when nothing else does: on Linux the volume serial is the
\* kernel's boot_id, so the fingerprint, and every license bound to it, is void as
\* soon as a file system is found mounted; elsewhere, and without a serial, it is
\* the same.
AcrossBoots ==
    \A i, j \in Whole :
        LET r == reports[i]  s == reports[j]
        IN  /\ Steady(r) /\ Steady(s) /\ ~WithFallback(r)
            /\ \E m \in r.seen, n \in s.seen : m.shown = n.shown /\ m.boot # n.boot
            => (r.fingerprint = s.fingerprint
                    <=> platform # "linux" \/ r.readings[3] = Missing)

\* The getter of one component and the fingerprint, asked of the same machine, do
\* not contradict each other: an enabled component is what the fingerprint has in
\* its place, a disabled one is empty.
GettersAgree ==
    \A i \in Whole, j \in DOMAIN reports \ Whole :
        LET r == reports[i]  s == reports[j]
        IN  Steady(r) /\ Steady(s) /\ r.seen = s.seen =>
                \A k \in DOMAIN Order : Order[k] = s.of =>
                    /\ Blur(s.readings) = Blur(<<r.readings[k]>>)
                    /\ s.of \notin config => s.readings = <<Missing>>

-----------------------------------------------------------------------------
(* Why it is so: an invariant that every step preserves, and that implies the *)
(* properties.  Proved in HardwareProbeProofs.                                *)

\* What the readings so far have put into the stream.
Part(rs, k) == IF k \in DOMAIN rs THEN Piece(rs[k]) ELSE <<>>
Joined(rs) == ((Part(rs, 1) \o Part(rs, 2)) \o Part(rs, 3)) \o Part(rs, 4)

\* What the block of component c can yield: only a serial or, on Windows, an address
\* is missing, and a serial looks like nothing else.
Fits(c, v) ==
    IF c \notin config THEN v = Missing
    ELSE IF c = "volume" THEN v = Missing \/ v[1] = "serial"
    ELSE v[1] \in {"value", c} \/ (c = "mac" /\ platform = "windows" /\ v = Missing)

\* Machines that differ in one source, if at all.
Near(m, n) ==
    /\ m.boot = n.boot
    /\ \E s \in Sources : \A t \in Sources \ {s} : m.shown[t] = n.shown[t]

Sound(r) ==
    /\ r.readings \in Seq(Strings \cup {Missing}) /\ Len(r.readings) <= Len(Order)
    /\ r.fingerprint = Joined(r.readings)
    /\ \A k \in DOMAIN r.readings : Fits(Order[k], r.readings[k])
    /\ ~r.slipped => \A k \in DOMAIN r.readings : \E m \in r.seen :
                        BlurOne(r.readings[k]) = Clear(m, Order[k])
    /\ IsFiniteSet(r.seen) /\ r.seen \subseteq Machines
    /\ Cardinality(r.seen) <= 2 => \A m, n \in r.seen : Near(m, n)

Single(r) ==
    /\ r.of \in Components
    /\ r.readings = <<r.readings[1]>> /\ r.fingerprint = r.readings
    /\ Fits(r.of, r.readings[1])
    /\ ~r.slipped => \A m \in r.seen : BlurOne(r.readings[1]) = Clear(m, r.of)

Calls ==
    \A p \in Processes :
        /\ Sound(Report(p))
        /\ IF pc[p] = "idle" THEN readings[p] = <<>> ELSE machine \in seen[p]

Reports ==
    /\ reports \in Seq(Range(reports))
    /\ \A i \in DOMAIN reports :
          IF i \in Whole THEN Sound(reports[i]) /\ Len(reports[i].readings) = Len(Order)
                         ELSE Single(reports[i])

IInv == TypeOK /\ Calls /\ Reports
=============================================================================
