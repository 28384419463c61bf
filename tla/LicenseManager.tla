--------------------------- MODULE LicenseManager ---------------------------
(***************************************************************************)
(* Class LicenseManager (src/src/license_manager.cpp): a license document is *)
(* checked in a fixed order and, if it passes, copied into current_license_, *)
(* which the feature queries read.  The class has no mutex: threads sharing  *)
(* a manager interleave between any two accesses to its members.  Accesses   *)
(* to a bool or a time_point are single loads and stores; two accesses to    *)
(* the same string, vector or object at the same time, one of them a write,  *)
(* are undefined behaviour, after which nothing is said of the process.      *)
(*                                                                          *)
(* A document is what its parse yields: a defect, or the fields the checks   *)
(* and queries depend on.  A fingerprint is a machine seen through a         *)
(* HardwareConfig.  The HardwareFingerprint object behaves as AtomicCache    *)
(* promises (its default configuration: caching, with the mutex).            *)
(***************************************************************************)
EXTENDS Integers, Sequences

CONSTANTS
    Threads,        \* callers that share the manager
    Documents,      \* license documents in circulation
    Machines,       \* machines the process may run on, or become
    Configs,        \* values of HardwareConfig
    DefaultConfig,  \* HardwareConfig()
    HardwareIds,    \* ids handed to validate_license
    Features,
    Lifetime,       \* cache_lifetime
    Ops,            \* the methods the callers use
    MemoryRunsOut,  \* whether an allocation may fail
    MaxClock,       \* bound: last tick of the clock
    MaxCalls,       \* bound: calls of all threads
    Nothing         \* no license, no fingerprint, no document

Fingerprints == Machines \X Configs

\* What the constructor, a missing field, a bad number or a bad date make of a
\* document, in the order load_and_validate finds them.
Defects == {"none", "syntax", "field", "empty", "version", "date"}

DocumentType == [defect : Defects, signed : BOOLEAN, expiry : Nat,
                 hardware_hash : Fingerprints, features : SUBSET Features]

ASSUME DocumentAssumption == Documents \subseteq DocumentType
ASSUME ConfigAssumption == DefaultConfig \in Configs
ASSUME HardwareIdAssumption == HardwareIds \subseteq Fingerprints
ASSUME LifetimeAssumption == Lifetime \in Nat
ASSUME NothingAssumption == Nothing \notin Fingerprints \cup Documents
ASSUME MemoryAssumption == MemoryRunsOut \in BOOLEAN
ASSUME BoundAssumption == MaxClock \in Nat /\ MaxCalls \in Nat
ASSUME OpsAssumption ==
    Ops \subseteq {"load", "validate", "has", "require", "expired",
                   "available", "hwid", "config", "strict"}

VARIABLES
    \* members of LicenseManager::Impl
    current,        \* current_license_
    strict,         \* strict_validation_
    config,         \* hardware_config_
    detector,       \* *hardware_fingerprint_: its config and its cache
    \* the environment
    clock, machine, lastSeen,
    \* one call per thread
    pc,
    call,           \* the method and its arguments
    hwid,           \* the local current_hwid
    seen,           \* the features the query read
    outcome,        \* what the call returns or throws
    calls,
    \* history
    began,          \* when the call was made
    before,         \* current_license_ as the call found it and others wrote it since
    served,         \* the configurations in force during the call
    copy,           \* its copy into current_license_: alone, shared with another, failed
    mixed,          \* the last copy to end was not alone or failed
    accepted,       \* the documents that passed every check
    latest,         \* the last of them to be installed
    wanted,         \* the config of the last set_hardware_config to succeed
    undefined       \* a data race was executed

members == <<current, strict, config, detector>>
environment == <<clock, machine, lastSeen>>
locals == <<call, hwid, seen, outcome>>
licensing == <<before, copy, mixed, accepted, latest>>
configuring == <<served, wanted>>
history == <<began, licensing, configuring, undefined>>
vars == <<current, strict, config, detector, clock, machine, lastSeen, pc, call,
          hwid, seen, outcome, calls, began, before, served, copy, mixed,
          accepted, latest, wanted, undefined>>

NoLicense == [valid |-> FALSE, hardware_hash |-> Nothing, features |-> {}, expiry |-> 0]
LicenseOf(d) == [valid |-> TRUE, hardware_hash |-> d.hardware_hash,
                 features |-> d.features, expiry |-> d.expiry]

NoCall == [op |-> "none"]
NewDetector(c) == [config |-> c, value |-> Nothing, stamp |-> 0]

Init ==
    /\ current = NoLicense
    /\ strict = FALSE
    /\ config = DefaultConfig
    /\ detector = NewDetector(config)
    /\ clock = 1
    /\ machine \in Machines
    /\ lastSeen = [m \in Machines |-> IF m = machine THEN 1 ELSE 0]
    /\ pc = [t \in Threads |-> "idle"]
    /\ call = [t \in Threads |-> NoCall]
    /\ hwid = [t \in Threads |-> Nothing]
    /\ seen = [t \in Threads |-> {}]
    /\ outcome = [t \in Threads |-> "none"]
    /\ calls = 0
    /\ began = [t \in Threads |-> 0]
    /\ before = [t \in Threads |-> NoLicense]
    /\ served = [t \in Threads |-> {}]
    /\ copy = [t \in Threads |-> "none"]
    /\ mixed = FALSE
    /\ accepted = {}
    /\ latest = Nothing
    /\ wanted = config
    /\ undefined = FALSE

-----------------------------------------------------------------------------
(* The environment: time passes; a disk, a board or the host is replaced.   *)

Tick ==
    /\ clock < MaxClock
    /\ clock' = clock + 1
    /\ lastSeen' = [lastSeen EXCEPT ![machine] = clock + 1]
    /\ UNCHANGED <<members, machine, pc, locals, calls, history>>

MachineChange ==
    /\ \E m \in Machines \ {machine} :
          /\ machine' = m
          /\ lastSeen' = [lastSeen EXCEPT ![m] = clock]
    /\ UNCHANGED <<members, clock, pc, locals, calls, history>>

-----------------------------------------------------------------------------
(* Calls.                                                                   *)

Goto(t, l) == pc' = [pc EXCEPT ![t] = l]
Ends(t, o) == Goto(t, "ret") /\ outcome' = [outcome EXCEPT ![t] = o]
Continues(t, l) == Goto(t, l) /\ outcome' = outcome

Call(t, c, entry) ==
    /\ pc[t] = "idle"
    /\ calls < MaxCalls
    /\ c.op \in Ops
    /\ calls' = calls + 1
    /\ call' = [call EXCEPT ![t] = c]
    /\ began' = [began EXCEPT ![t] = clock]
    /\ before' = [before EXCEPT ![t] = current]
    /\ served' = [served EXCEPT ![t] = {wanted}]
    /\ Goto(t, entry)
    /\ UNCHANGED <<members, environment, hwid, seen, outcome,
                   copy, mixed, accepted, latest, wanted, undefined>>

CallLoad(t) == \E d \in Documents : Call(t, [op |-> "load", doc |-> d], "parse")
CallValidate(t) ==
    \E d \in Documents, f \in HardwareIds :
        Call(t, [op |-> "validate", doc |-> d, hardware_id |-> f], "parse")
CallHas(t) == \E f \in Features : Call(t, [op |-> "has", feature |-> f], "valid")
CallRequire(t) ==
    \E f \in Features : Call(t, [op |-> "require", feature |-> f], "require")
CallExpired(t) == Call(t, [op |-> "expired"], "valid")
CallAvailable(t) == Call(t, [op |-> "available"], "valid")
CallHwid(t) == Call(t, [op |-> "hwid"], "probe")
CallConfig(t) == \E c \in Configs : Call(t, [op |-> "config", config |-> c], "config")
CallStrict(t) == \E b \in BOOLEAN : Call(t, [op |-> "strict", strict |-> b], "strict")

Loading(t) == call[t].op \in {"load", "validate"}

-----------------------------------------------------------------------------
(* load_and_validate, which validate_license calls on the same object.      *)

DefectException(d) ==
    IF d.defect = "syntax" THEN "JsonParsing" ELSE "MalformedLicense"

Parse(t) ==
    /\ pc[t] = "parse"
    /\ IF call[t].doc.defect = "none"
       THEN Continues(t, "now")
       ELSE Ends(t, DefectException(call[t].doc))
    /\ UNCHANGED <<members, environment, call, hwid, seen, calls, history>>

CheckExpiry(t) ==
    /\ pc[t] = "now"
    /\ IF clock > call[t].doc.expiry
       THEN Ends(t, "ExpiredLicense")
       ELSE Continues(t, "signature")
    /\ UNCHANGED <<members, environment, call, hwid, seen, calls, history>>

CheckSignature(t) ==
    /\ pc[t] = "signature"
    /\ IF call[t].doc.signed
       THEN Continues(t, "probe")
       ELSE Ends(t, "InvalidSignature")
    /\ UNCHANGED <<members, environment, call, hwid, seen, calls, history>>

\* hardware_fingerprint_->get_fingerprint(): a hit, or a probe that is cached.
Useful == detector.value # Nothing /\ clock - detector.stamp <= Lifetime

Probe(t) ==
    /\ pc[t] = "probe"
    /\ detector' = IF Useful THEN detector
                   ELSE [config |-> detector.config, stamp |-> clock,
                         value |-> <<machine, detector.config>>]
    /\ hwid' = [hwid EXCEPT ![t] = detector'.value]
    /\ IF Loading(t) THEN Continues(t, "compare") ELSE Ends(t, "ok")
    /\ UNCHANGED <<current, strict, config, environment, call, seen, calls, history>>

ProbeFails(t) ==
    /\ pc[t] = "probe"
    /\ ~Useful
    /\ Ends(t, "HardwareDetection")
    /\ UNCHANGED <<members, environment, call, hwid, seen, calls, history>>

Underway(t) == copy[t] \in {"alone", "shared"}
CopyBegins(t) ==
    copy' = IF \E u \in Threads : Underway(u)
            THEN [u \in Threads |-> IF u = t \/ Underway(u) THEN "shared" ELSE copy[u]]
            ELSE [copy EXCEPT ![t] = "alone"]

\* Defective variant: the license is installed before the hardware is compared.
Compare_TooLate(t) ==
    /\ pc[t] = "compare"
    /\ current' = LicenseOf(call[t].doc)
    /\ IF hwid[t] = call[t].doc.hardware_hash
       THEN /\ accepted' = accepted \cup {call[t].doc}
            /\ CopyBegins(t)
            /\ Continues(t, "hardware_hash")
       ELSE /\ UNCHANGED <<accepted, copy>>
            /\ Ends(t, "HardwareMismatch")
    /\ UNCHANGED <<strict, config, detector, environment, call, hwid, seen, calls,
                   began, before, mixed, latest, configuring, undefined>>

Compare(t) ==
    /\ pc[t] = "compare"
    /\ IF hwid[t] = call[t].doc.hardware_hash
       THEN /\ accepted' = accepted \cup {call[t].doc}
            /\ CopyBegins(t)
            /\ Continues(t, "hardware_hash")
       ELSE /\ UNCHANGED <<accepted, copy>>
            /\ Ends(t, "HardwareMismatch")
    /\ UNCHANGED <<members, environment, call, hwid, seen, calls,
                   began, before, mixed, latest, configuring, undefined>>

\* A call writes one member of current_license_; the others in progress see it.
Store(t, member, value) ==
    /\ current' = [current EXCEPT ![member] = value]
    /\ before' = [u \in Threads |-> IF u = t \/ pc[u] = "idle" THEN before[u]
                                    ELSE [before[u] EXCEPT ![member] = value]]

\* pimpl_->current_license_ = info: the members in the order of LicenseInfo, the
\* flag last.
InstallOrder == <<"hardware_hash", "features", "expiry">>
Install(t) ==
    /\ \E i \in DOMAIN InstallOrder :
          LET member == InstallOrder[i]
          IN  /\ pc[t] = member
              /\ Store(t, member, LicenseOf(call[t].doc)[member])
              /\ Continues(t, IF i = Len(InstallOrder) THEN "flag" ELSE InstallOrder[i + 1])
    /\ UNCHANGED <<strict, config, detector, environment, call, hwid, seen, calls, began,
                   copy, mixed, accepted, latest, configuring, undefined>>

\* Defective variant: the flag is not copied.
InstallValid_Unset(t) ==
    /\ pc[t] = "flag"
    /\ latest' = call[t].doc
    /\ mixed' = (copy[t] # "alone")
    /\ copy' = [copy EXCEPT ![t] = "none"]
    /\ Ends(t, "ok")
    /\ UNCHANGED <<members, environment, call, hwid, seen, calls, began,
                   before, accepted, configuring, undefined>>

InstallValid(t) ==
    /\ pc[t] = "flag"
    /\ Store(t, "valid", TRUE)
    /\ latest' = call[t].doc
    /\ mixed' = (copy[t] # "alone")
    /\ copy' = [copy EXCEPT ![t] = "none"]
    /\ Ends(t, IF /\ call[t].op = "validate"
                  /\ call[t].hardware_id # call[t].doc.hardware_hash
               THEN "false" ELSE "ok")
    /\ UNCHANGED <<strict, config, detector, environment, call, hwid, seen, calls, began,
                   accepted, configuring, undefined>>

\* The members whose copy allocates; license_id goes with the flag that follows it.
Allocating == {"hardware_hash", "features", "flag"}

\* The copy throws: a string is left as it was, the vector with some of its
\* elements replaced, and the members already copied stay.
CopyFails(t) ==
    /\ MemoryRunsOut
    /\ pc[t] \in Allocating
    /\ IF pc[t] = "features"
       THEN \E fs \in SUBSET (current.features \cup call[t].doc.features) :
                Store(t, "features", fs)
       ELSE UNCHANGED <<current, before>>
    /\ mixed' = TRUE
    /\ copy' = [copy EXCEPT ![t] = "failed"]
    /\ Ends(t, "JsonParsing")
    /\ UNCHANGED <<strict, config, detector, environment, call, hwid, seen, calls, began,
                   accepted, latest, configuring, undefined>>

\* Any other allocation of a call that fails, and what the call makes of it.
Shortage(t) ==
    CASE pc[t] = "parse"     -> {"JsonParsing", "MalformedLicense"}
      [] pc[t] = "signature" -> {"JsonParsing", "InvalidSignature"}
      [] pc[t] = "probe"     -> {IF Loading(t) THEN "JsonParsing" ELSE "HardwareDetection"}
      [] pc[t] = "query" /\ call[t].op = "available" -> {"bad_alloc"}
      [] OTHER -> {}

OutOfMemory(t) ==
    /\ MemoryRunsOut
    /\ \E o \in Shortage(t) : Ends(t, o)
    /\ UNCHANGED <<members, environment, call, hwid, seen, calls, history>>

-----------------------------------------------------------------------------
(* The queries.                                                             *)

\* require_feature tests `valid` itself, then calls has_feature.
RequireValid(t) ==
    /\ pc[t] = "require"
    /\ IF current.valid THEN Continues(t, "valid") ELSE Ends(t, "Validation")
    /\ UNCHANGED <<members, environment, call, hwid, seen, calls, history>>

ReadValid(t) ==
    /\ pc[t] = "valid"
    /\ CASE current.valid -> Continues(t, IF call[t].op = "expired" THEN "asked"
                                                                    ELSE "query")
         [] ~current.valid /\ strict -> Ends(t, "Validation")
         [] ~current.valid /\ ~strict ->
                Ends(t, CASE call[t].op = "has"       -> "false"
                          [] call[t].op = "require"   -> "MissingFeature"
                          [] call[t].op = "expired"   -> "true"
                          [] call[t].op = "available" -> "ok")
    /\ UNCHANGED <<members, environment, call, hwid, seen, calls, history>>

ReadFeatures(t) ==
    /\ pc[t] = "query"
    /\ seen' = [seen EXCEPT ![t] = current.features]
    /\ Ends(t, CASE call[t].op = "available" -> "ok"
                 [] call[t].op = "has" ->
                        IF call[t].feature \in current.features THEN "true" ELSE "false"
                 [] call[t].op = "require" ->
                        IF call[t].feature \in current.features THEN "ok"
                        ELSE "MissingFeature")
    /\ UNCHANGED <<members, environment, call, hwid, calls, history>>

ReadExpiry(t) ==
    /\ pc[t] = "asked"
    /\ Ends(t, CASE clock <= current.expiry            -> "false"
                 [] clock > current.expiry /\ strict   -> "ExpiredLicense"
                 [] clock > current.expiry /\ ~strict  -> "true")
    /\ UNCHANGED <<members, environment, call, hwid, seen, calls, history>>

-----------------------------------------------------------------------------
(* The setters.                                                             *)

\* The configuration now in force, for this call and those in progress.
Wants(c) ==
    /\ wanted' = c
    /\ served' = [u \in Threads |-> IF pc[u] = "idle" THEN {} ELSE served[u] \cup {c}]

\* Defective variant: the detector, with its cache, is kept.
SetConfig_KeepsDetector(t) ==
    /\ pc[t] = "config"
    /\ config' = call[t].config
    /\ detector' = [detector EXCEPT !.config = call[t].config]
    /\ Wants(call[t].config)
    /\ Ends(t, "ok")
    /\ UNCHANGED <<current, strict, environment, call, hwid, seen, calls,
                   began, licensing, undefined>>

SetConfig(t) ==
    /\ pc[t] = "config"
    /\ config' = call[t].config
    /\ detector' = NewDetector(call[t].config)
    /\ Wants(call[t].config)
    /\ Ends(t, "ok")
    /\ UNCHANGED <<current, strict, environment, call, hwid, seen, calls,
                   began, licensing, undefined>>

\* Defective variant: the old detector is destroyed before make_unique throws.
SetConfigFails_NoDetector(t) ==
    /\ MemoryRunsOut
    /\ pc[t] = "config"
    /\ config' = call[t].config
    /\ detector' = Nothing
    /\ Ends(t, "HardwareDetection")
    /\ UNCHANGED <<current, strict, environment, call, hwid, seen, calls, history>>

\* make_unique throws: hardware_config_ was assigned already.
SetConfigFails(t) ==
    /\ MemoryRunsOut
    /\ pc[t] = "config"
    /\ config' = call[t].config
    /\ Ends(t, "HardwareDetection")
    /\ UNCHANGED <<current, strict, detector, environment, call, hwid, seen, calls, history>>

SetStrict(t) ==
    /\ pc[t] = "strict"
    /\ strict' = call[t].strict
    /\ Ends(t, "ok")
    /\ UNCHANGED <<current, config, detector, environment, call, hwid, seen, calls, history>>

-----------------------------------------------------------------------------
\* validate_license turns every LicenseException into false: only "ok" is true.
Return(t) ==
    /\ pc[t] = "ret"
    /\ Goto(t, "idle")
    /\ call' = [call EXCEPT ![t] = NoCall]
    /\ hwid' = [hwid EXCEPT ![t] = Nothing]
    /\ seen' = [seen EXCEPT ![t] = {}]
    /\ outcome' = [outcome EXCEPT ![t] = "none"]
    /\ began' = [began EXCEPT ![t] = 0]
    /\ before' = [before EXCEPT ![t] = NoLicense]
    /\ served' = [served EXCEPT ![t] = {}]
    /\ copy' = [copy EXCEPT ![t] = "none"]
    /\ UNCHANGED <<members, environment, calls, mixed, accepted, latest, wanted, undefined>>

\* Two threads at the same string, vector or object, one of them to write it: the
\* features while they are copied or read, the other strings while they are
\* copied, the detector while it is replaced or asked.
Races(t, u) ==
    /\ t # u
    /\ \/ pc[t] \in Allocating /\ pc[u] = pc[t]
       \/ pc[t] = "features" /\ pc[u] = "query"
       \/ pc[t] = "config" /\ pc[u] \in {"config", "probe"}

Race ==
    /\ \E t, u \in Threads : Races(t, u)
    /\ undefined' = TRUE
    /\ UNCHANGED <<members, environment, pc, locals, calls,
                   began, licensing, configuring>>

ThreadStep(t) ==
    \/ Parse(t) \/ CheckExpiry(t) \/ CheckSignature(t) \/ Probe(t) \/ ProbeFails(t)
    \/ Compare(t) \/ Install(t) \/ InstallValid(t) \/ CopyFails(t) \/ OutOfMemory(t)
    \/ RequireValid(t) \/ ReadValid(t) \/ ReadFeatures(t) \/ ReadExpiry(t)
    \/ SetConfig(t) \/ SetConfigFails(t) \/ SetStrict(t) \/ Return(t)

Next ==
    /\ ~undefined
    /\ \/ Tick
       \/ MachineChange
       \/ Race
       \/ \E t \in Threads :
             \/ CallLoad(t) \/ CallValidate(t) \/ CallHas(t) \/ CallRequire(t)
             \/ CallExpired(t) \/ CallAvailable(t) \/ CallHwid(t)
             \/ CallConfig(t) \/ CallStrict(t)
             \/ ThreadStep(t)

Spec == Init /\ [][Next]_vars

-----------------------------------------------------------------------------
Exceptions == {"JsonParsing", "MalformedLicense", "ExpiredLicense",
               "InvalidSignature", "HardwareDetection", "HardwareMismatch",
               "Validation", "MissingFeature", "bad_alloc"}

Installing == {"hardware_hash", "features", "expiry", "flag"}
Checking == {"parse", "now", "signature", "probe", "compare"} \cup Installing
Querying == {"require", "valid", "query", "asked"}
Labels == Checking \cup Querying \cup {"idle", "config", "strict", "ret"}

Licenses == [valid : BOOLEAN, hardware_hash : Fingerprints \cup {Nothing},
             features : SUBSET Features, expiry : Nat]
Outcomes == Exceptions \cup {"ok", "true", "false"}

\* The methods called, with their arguments.
LoadCalls == [op : {"load"}, doc : Documents] \cup
             [op : {"validate"}, doc : Documents, hardware_id : Fingerprints]
FeatureCalls == [op : {"has", "require"}, feature : Features]
ConfigCalls == [op : {"config"}, config : Configs]
StrictCalls == [op : {"strict"}, strict : BOOLEAN]
CallType == LoadCalls \cup FeatureCalls \cup ConfigCalls \cup StrictCalls \cup
            [op : {"none", "expired", "available", "hwid"}]

TypeOK ==
    /\ current \in Licenses
    /\ strict \in BOOLEAN
    /\ config \in Configs
    /\ detector \in [config : Configs, value : Fingerprints \cup {Nothing}, stamp : Nat]
    /\ clock \in Nat
    /\ machine \in Machines
    /\ lastSeen \in [Machines -> Nat]
    /\ pc \in [Threads -> Labels]
    /\ call \in [Threads -> CallType]
    /\ hwid \in [Threads -> Fingerprints \cup {Nothing}]
    /\ seen \in [Threads -> SUBSET Features]
    /\ outcome \in [Threads -> Outcomes \cup {"none"}]
    /\ \A t \in Threads : pc[t] = "ret" <=> outcome[t] # "none"
    /\ began \in [Threads -> Nat]
    /\ before \in [Threads -> Licenses]
    /\ served \in [Threads -> SUBSET Configs]
    /\ copy \in [Threads -> {"none", "alone", "shared", "failed"}]
    /\ mixed \in BOOLEAN
    /\ accepted \subseteq Documents
    /\ latest \in accepted \cup {Nothing}
    /\ wanted \in Configs
    /\ undefined \in BOOLEAN

AllIdle == \A t \in Threads : pc[t] = "idle"

InForce == IF latest = Nothing THEN NoLicense ELSE LicenseOf(latest)

\* Unless two loads copied at the same time or a copy failed, the license in force
\* is, in every member, the last document that passed every check; queries, other
\* failures, expiry, a new strictness or a new hardware configuration do not touch
\* it, and the next load to copy alone puts a mixed license right.
InForceIsLatest ==
    ~mixed /\ (\A t \in Threads : pc[t] \notin Installing) => current = InForce

\* A call that throws leaves the license in force as it found it, but for what
\* other calls wrote; even when the copy itself throws midway, no license becomes
\* valid or invalid by it.
RejectionChangesNothing ==
    \A t \in Threads : outcome[t] \in Exceptions =>
        /\ current.valid = before[t].valid
        /\ copy[t] # "failed" => current = before[t]

\* A document is installed only if the process was on its machine no longer than
\* the cache lifetime before the call, under a hardware configuration that was in
\* force during the call, and the document had not expired when the call was
\* made.  A successful set_hardware_config leaves no cached fingerprint of the old
\* configuration, and a failed one leaves the old configuration working.
AcceptedHere ==
    \A t \in Threads : pc[t] \in Installing =>
        LET d == call[t].doc
        IN  /\ lastSeen[d.hardware_hash[1]] >= began[t] - Lifetime
            /\ d.hardware_hash[2] \in served[t]
            /\ began[t] <= d.expiry

\* However loads and queries interleave, and wherever a copy fails, a query shows no
\* feature that no accepted document grants (in an execution without a data race).
FeatureProvenance ==
    \A t \in Threads : seen[t] \subseteq UNION {d.features : d \in accepted}

\* What "thread-safe" promises: when no call is in progress, the license in force
\* is one of the accepted documents, not a mixture of two.
Whole == AllIdle /\ current.valid => current \in {LicenseOf(d) : d \in accepted}

-----------------------------------------------------------------------------
(* Why it is so: an invariant that every step preserves.  Proved in           *)
(* LicenseManagerProofs.                                                     *)

\* Each label is one of the method that was called, and only an accepted document
\* is being installed.
Located ==
    \A t \in Threads :
        /\ pc[t] # "idle" => call[t].op \in Ops
        /\ pc[t] \in Checking \ {"probe"} => call[t] \in LoadCalls
        /\ pc[t] = "probe" => call[t] \in LoadCalls \cup [op : {"hwid"}]
        /\ pc[t] = "require" => call[t] \in FeatureCalls
        /\ pc[t] = "valid" => call[t] \in FeatureCalls \cup [op : {"expired", "available"}]
        /\ pc[t] = "query" => call[t] \in FeatureCalls \cup [op : {"available"}]
        /\ pc[t] = "config" => call[t] \in ConfigCalls
        /\ pc[t] = "strict" => call[t] \in StrictCalls
        /\ pc[t] \in Installing => call[t].doc \in accepted

Granted == UNION {d.features : d \in accepted}

\* Only accepted documents are written into the license in force.
Provenance ==
    /\ current.features \subseteq Granted
    /\ \A t \in Threads : seen[t] \subseteq Granted

\* No recorded time lies in the future, and the machine had the cached fingerprint
\* when it was probed or later.
Times ==
    /\ lastSeen[machine] = clock
    /\ \A m \in Machines : lastSeen[m] <= clock
    /\ \A t \in Threads : began[t] <= clock
    /\ detector.value # Nothing => lastSeen[detector.value[1]] >= detector.stamp

\* The detector and its cache belong to the configuration in force, and so did the
\* fingerprint a load has in hand, during the call.
Matches(t, f) ==
    /\ f \in Fingerprints
    /\ f[2] \in served[t]
    /\ lastSeen[f[1]] >= began[t] - Lifetime
JudgedAt(t) ==
    /\ pc[t] # "idle" => wanted \in served[t]
    /\ pc[t] \in {"signature", "probe", "compare"} \cup Installing /\ Loading(t) =>
           began[t] <= call[t].doc.expiry
    /\ pc[t] = "compare" => Matches(t, hwid[t])
    /\ pc[t] \in Installing => Matches(t, call[t].doc.hardware_hash)
Judged ==
    /\ detector.config = wanted
    /\ detector.value # Nothing => detector.value[2] = wanted
    /\ \A t \in Threads : JudgedAt(t)

\* A copy that is alone is the only one, and what it has written is its document.
Copying ==
    /\ \A t \in Threads : pc[t] \in Installing <=> Underway(t)
    /\ \A t, u \in Threads : copy[t] = "alone" /\ Underway(u) => t = u
    /\ \A t \in Threads : copy[t] = "alone" =>
          /\ pc[t] \in {"features", "expiry", "flag"} =>
                 current.hardware_hash = call[t].doc.hardware_hash
          /\ pc[t] \in {"expiry", "flag"} => current.features = call[t].doc.features
          /\ pc[t] = "flag" => current.expiry = call[t].doc.expiry

\* What a call has not written is as it found it or as another call wrote it.
UntouchedBy(t) ==
    /\ pc[t] \notin {"idle", "ret"} => current.valid = before[t].valid
    /\ pc[t] \notin {"idle", "ret", "features", "expiry", "flag"} =>
           current.hardware_hash = before[t].hardware_hash
    /\ pc[t] \notin {"idle", "ret", "expiry", "flag"} =>
           current.features = before[t].features
    /\ pc[t] \notin {"idle", "ret", "flag"} => current.expiry = before[t].expiry
    /\ outcome[t] \in Exceptions =>
           /\ current.valid = before[t].valid
           /\ copy[t] # "failed" => current = before[t]
Untouched == \A t \in Threads : UntouchedBy(t)

IInv ==
    /\ TypeOK
    /\ Located
    /\ Provenance
    /\ Times
    /\ Judged
    /\ Copying
    /\ InForceIsLatest
    /\ Untouched
=============================================================================
