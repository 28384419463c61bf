# LicenseCore in TLA+

A specification of LicenseCore, a C++17 library that binds license files to a
machine, with its WebAssembly port. The modules are translated from the code;
line numbers below are those of the repository (`src/` here is the repository's
root, so the library's own `src/hardware_fingerprint.cpp` is
`src/src/hardware_fingerprint.cpp`).

TLC checks small instances (the `.cfg` files), and TLAPS proves for every value
of the constants what the section *Proofs* lists.

    tlc -config cache_shared.cfg MCFingerprintCache
    tlapm FingerprintCacheProofs.tla

## 1. Inventory

| component | state | operations | talks to |
|---|---|---|---|
| `HardwareFingerprint`, the cache (hardware_fingerprint.cpp 37-229) | `cached_fingerprint_`, `cache_time_`, `cache_stats_`, `cache_mutex_`, `config_` | `get_fingerprint`, `get_fingerprint_safe`, `clear_cache` = `invalidate_cache`, `is_cache_valid`, `get_cache_stats`, `get_cache_time` | `compute_hash`, `steady_clock`; its callers' threads |
| `HardwareFingerprint`, the probe (88-166, 231-703) | none; reads files, system calls and the registry of the system it was built for | `compute_hash`, `get_cpu_id` ... `get_motherboard_serial`, four `get_*_impl` per system, `generate_secure_fallback` | the operating system, OpenSSL |
| `LicenseManager` (license_manager.cpp) | `current_license_`, `strict_validation_`, `hardware_config_`, `secret_key_`, the owned `HardwareFingerprint` and `HMACValidator` | `load_and_validate`, `validate_license`, `generate_license`, `has_feature`, `require_feature`, `is_expired`, `get_available_features`, `get_current_hwid`, `set_hardware_config`, `set_strict_validation` | all of the above, `system_clock`, `SimpleJson` |
| `HMACValidator` (hmac_validator.cpp) | the key | `sign`, `verify`, `sign_json`, `verify_json`, `validate_license` | OpenSSL, `SimpleJson` |
| `SimpleJson` (json/simple_json.cpp) | none | `parse`, `stringify`, typed getters, escaping, limits | - |
| dates (license_manager.cpp 281-328) | none | `parse_iso8601`, `format_iso8601` | the C library |
| exceptions (exceptions.hpp) | none | one class per way to fail | - |
| WebAssembly bridge (wasm/license_core_wasm.cpp) | three globals (`pending_hmac_result`, `hmac_operation_complete`, `hmac_operation_error`), `current_hwid` | `generateLicense`, `validateLicense`, `hasFeature`, `generateNewHwid`; callbacks `hmac_ready`, `hmac_error` | the browser's crypto and event loop |
| license_generator (examples/license_generator.cpp) | none | makes a license for a number of days | `LicenseManager`, `system_clock` |
| demo page (docs/wasm.js, loaded by docs/index.html) | `useWasm`, `wasmManager`, `licenseCount`, `sessionStart`, `currentLicense`, `currentHwid`, the texts, message and hardware id on display | generate, validate, copy, new hardware id, three scenarios, performance test | `crypto.subtle`, promises, the prebuilt module |

How they interact: `LicenseManager::load_and_validate` parses with `SimpleJson`,
compares the expiry with the clock, verifies with `HMACValidator`, asks
`HardwareFingerprint` for the machine's fingerprint and only then copies the
whole license into `current_license_`. The queries read that member and nothing
else. All calls are synchronous; what makes the system hard is that

* several threads share one `HardwareFingerprint`, whose mutex is a
  configuration option, and one `LicenseManager`, which has no mutex;
* time passes and the hardware changes *during* the calls: an expiry, a cache
  age and a fingerprint are compared at different instants;
* almost every step can throw, with some members assigned already;
* the WebAssembly port waits for an asynchronous answer by sleeping and polling
  globals, with a timeout;
* the demo page awaits its signatures, and its buttons work meanwhile;
* any allocation can fail, the ones inside the copy of a license included.

What makes each component correct:

* cache - what is served is never older than the lifetime; a caller that waited
  for the mutex uses what it finds; the counters account for every call; a
  failed probe leaves no trace; `clear_cache` wins over a refill in progress;
  every call appears to happen at one instant; every call returns.
* manager - the license in force is one whole accepted document, the last, unless
  copies overlapped or failed; a rejected one leaves nothing behind; acceptance
  implies machine, configuration and expiry at the time of the call; a query shows no
  feature that was not granted.
* bridge - each caller gets the signature of its own text; no call hangs.
* probe - a fingerprint is one the machine had; equal fingerprints mean equal
  components; an unchanged machine gives the same fingerprint, unless a component
  had to be made up; a reboot changes it only where it is made of the boot.
* parser - what is signed can be parsed again and is then the same; the limits
  are kept; it stops.
* license texts, dates and numbers - what is accepted was signed as it stands, is
  accepted until (nearly) the date that was meant and not after it, as far as the
  clock can tell, and survives being issued again.
* demo page - the limit per hour is passed only by overlapping clicks; a verdict or a
  tip on display is true of the license and the hardware id on display.

## 2. Modules

| module | what it is |
|---|---|
| `FingerprintCache` | the cache: every access to a shared member is one action, in the four combinations of `enable_caching` and `thread_safe_cache` |
| `AtomicCache` | what a shared cache promises: each call takes effect in one step |
| `FingerprintCacheRefinement` | the mapping under which the first implements the second |
| `LicenseManager` | the manager: the checks in their order, the member-wise copy and how it fails, the queries and the setters; it uses the detector as `AtomicCache` describes it |
| `WasmBridge` | the globals, the two callbacks, the polling loop and the methods that sign |
| `HardwareProbe` | `compute_hash` and the getters of one component on Linux, Windows and macOS: one action per component, with its sources, fallbacks and failures |
| `SimpleJson` | the parser, the writer, and a license text that is parsed, signed, written and parsed again |
| `LicenseIssue` | the life of a license text: generated or signed by other means, altered, loaded, issued again; dates, versions and the clock have their widths |
| `DemoPage` | the page: handlers run up to an await, and what follows it in any order |
| `...Proofs` | the theorems about the module, or the mapping, of that name |
| `MC...` | instances for TLC |

`LicenseManager` uses the cache as `AtomicCache` describes it, and
`FingerprintCache` uses the probe as one instant; `AtomicUpToOneChange` says how far
the second is justified. `LicenseManager` knows of a document whether its signature
is right and when it expires; `LicenseIssue` says what makes that so, and takes from
`SimpleJson` that writing and reading a text do not change it.

A definition named `X_Something` under the words *Defective variant* is not used
by any specification: it is `X` with a plausible bug, kept to show that the
property it is meant to break does depend on `X`.

### FingerprintCache

The variables `owner`, `cached`, `cache_time`, `stats` are `cache_mutex_`,
`cached_fingerprint_`, `cache_time_` and `cache_stats_`. `now`, `reg`, `result`,
`ret`, `answer` and `copy` are locals and return values of each thread's call.
`lastSeen` records when the machine last had each fingerprint, `looked` the
instant at which the call last judged the cache's age. Both are history, as are
`served` and `failed`.

A `get` runs through `lock` (47), `now` (50), `check` and `expiry` (the two halves
of the condition at 52), then `load_hit`, `bump_hit`, `value` (53-54) or `probe`,
`store`, `stamp`, `update`, `load_miss`, `bump_miss` (57-61); the increment is a
read and a write. Without caching (42-45) it is `load_miss`, `bump_miss`, `probe`,
without the mutex. `get_fingerprint_safe` (80-86) is a `get` whose exception is
turned into an empty string, so it has no steps of its own. The age of an empty
cache would overflow, which is undefined: `is_cache_expired` then yields either
answer. `compute_hash` is one instant at which the fingerprint is read, or a
failure; `Tick` and `HardwareChange` may happen before and after it.

The four per-component optionals that `clear_cache` also resets are never
assigned, and `get_cache_time` only copies a member; they are left out.

### LicenseManager

A document is what its parse makes of it: a defect, or the members the checks and
the queries depend on, and whether its signature is right. A fingerprint is a
pair of a machine and a hardware configuration; the manager is constructed with
`DefaultConfig`. `load_and_validate` runs under
`validate_license` on the *same* object (333), so the two share every step up to
`InstallValid`.

`current_license_ = info` (159) assigns the members in the order of `LicenseInfo`
(`Install`, member after member, then `InstallValid`), which other threads can see.
Strings and the vector allocate, so the copy can throw at each of them (`CopyFails`):
what was copied stays, the vector may be left with some of its elements replaced,
and the caller is told `JsonParsingException` (164-166). `Allocating` names the members
concerned; `license_id` stands just before the flag, and goes with it. `OutOfMemory`
is every other allocation of a call, with the exception each place makes of it,
and `SetConfigFails` a `make_unique` that throws after `hardware_config_` was assigned
(268-270).

Two threads at the same string, vector or detector, one of them to write it, are a
data race, and C++ says nothing of what follows. `Race` is then possible, after which
the model says nothing either (`undefined`): the properties speak of executions in which
the accesses happened one after the other, and every state from which such a race can
start is reached. (The flag and the expiry are machine words; their races are taken as
loads and stores.)

`copy` is what becomes of each call's copy, `mixed` that the last copy to end was not
alone or failed; `before` is the license as the call found it and as others wrote it
since, `served` the configurations in force during the call. These are history.

### WasmBridge

The HMAC of a text is the text itself. `inFlight` holds the requests the browser
has not answered; the callbacks run when no call runs or a call sleeps. `elapsed`
counts poll intervals. A late reply is copied through the buffer of a call that
has returned: the model takes it to arrive intact, as it does when the next call
has its buffer at the same place of the stack. Two calls at once (re-entering the
module while one sleeps) are not allowed by the toolchain and not modelled,
except `generateNewHwid`, which does not sleep.

### HardwareProbe

`combined` is the stringstream of the same name, as the sequence of the strings
joined in it; `readings` is what each component yielded, `Missing` for an
exception, an empty string or a component that is not enabled. `Collect` is one of
the four blocks of 236-290, and `Piece` what it adds to the stream. It picks the
sources that can be opened at that moment, so a file that exists and cannot be read is
possible in every step; `slipped` remembers that it happened.
`GetOne` is one of the public getters, which return a component or an empty string.

The platforms differ in two tables: the ways to each component (`Linux`, `Windows`,
`MacOS`), each a sequence of sources that must all yield something, and what is
returned when no way does (`Otherwise`): a fallback, except for the volume serial
and for the Windows call that lists the adapters, which throws at once unless it
failed three times because its buffer was too small. There is no board serial but
on Linux: the other two always draw a fallback.

`SourceChange` and `Reboot` are the world, `seen` the machines there were since
the call began. A fallback is its prefix and one of `Endings`: the 48 bits of a hash
of the time, the process, the thread, the host and 16 random bytes that the code
keeps, or the clock alone when even hashing throws (383-385). It need not be new; two
endings are enough to tell a fallback that returns from one that does not. The
volume serial is boot_id (666), a new one at each boot, read once the device of the
root file system was found (`RootVolume`).

### SimpleJson

`content` and `pos` are the locals of `parse`, counted from 1; one iteration of the
outer loop is one action (`Field`, `SkipGarbage`, `EndOfObject`, `TooManyKeys`), and
so is one of the array loop (`Element`, `NoElement`, `EndOfArray`,
`TooManyElements`). The scanning loops are recursive functions. `Sign` is
`generate_license` from 216 on with `stringify` inlined: the text written
becomes the text that is read, without its signature (`Without`), as
`load_and_validate` and `verify_json` do. The value of the signature has no characters
there; what it adds to the size the first test of `parse` compares (14-24) is
`SignatureSize`. The parser is single-threaded and has no
state between calls. Numbers and maps are members of `JsonValue` that `parse` never
produces and `generate_license` never stores.

### LicenseIssue

A text is a function from field names to tagged values: what matters of a string
is whether the code can read a date, a number or a signature in it. Time is
counted in ticks of `system_clock`, of which a second has several, in a word of
2 * `HalfRange`; a version passes through `unsigned long` (`LongRange`) into
`uint32_t` (`VersionRange`). `Wrap` is the overflow of `from_time_t` (318) and of
`now + hours(24 * days)` (license_generator.cpp:97), `Hours` that of the int
`24 * days`, in a word of 2 * `HourRange`: undefined in C++, and what the builds of the
repository do. `meant` is the expiry the author had in mind, before any of that. `load_and_validate` and `validate_license` are
operators here, since `LicenseManager` has their steps; `last` is the outcome of one
load. `Draft` is an author who signs a text of his own with `sign_json`, which is
how a license may lack its issue date or carry fields of its own; `Alter` is
whatever happens to a text on its way, a signature from another text included.
HMAC is taken to be injective: without the key nobody has another signature.

### DemoPage

A handler runs without interruption up to its `await`, so a click is one action,
and what follows the await, or a timer, another (`Signed`, `Measured`, `Resigned`,
`Verified`, `Copied`, `Tip`, `Rejected`). Microtasks run before the next click, so the
chain from `hmacSha256` to the assignment of the text on display is one step.
`crypto.subtle` and the clipboard may answer in any order, or fail.

The buttons are those of index.html and those wasm.js adds when the document is there
(728-757): the hardware change, which puts up a tip a second later, the expired and the
tampered license, which change the text on display and not `currentLicense`, and the
performance test. Its first half issues JavaScript licenses one after the other, under the
limit per hour and without displaying them (`Again`); its second half is the module's.

`phase` is `useWasm` and `wasmManager` together: until `initializeWasm` ends,
`useWasm` is TRUE and the manager null, and generating throws. The prebuilt module
(docs/license_core.js) has no Asyncify in it, so its calls return at once and the
page in that phase waits for nothing but timers and what began before; it does not test
or count against the limit either, which the source has only in `generateLicenseJS`, and
`validateLicenseWasm` does not look at the expiry.

`currentHwid` is the object's and `shownHwid` the display's: `initializeWasm` assigns the
one and not the other, the timer of `DOMContentLoaded` copies it once (641-645), the button
does both. `assigned` remembers what `initializeWasm` gave. A text on display is the
click that made it and what a validation reads in it. `validationResult` is the message, which
`Fades` after three seconds unless it is an error or a verdict. `overtaken` marks a handler
during whose wait another text took the place of the one it is about.

## 3. Runs

| run | instance | shows |
|---|---|---|
| `cache_shared` | 2 threads, 2 calls each, 2 fingerprints, lifetime 1, clock to 3, fair | all the properties of the shared, locked cache, and the inductive invariant; the cache implements `AtomicCache`; every call returns |
| `cache_uncached` | caching off, 2 threads, clock to 3 | no miss is counted twice, though calls do not exclude each other and may lose one |
| `manager` | 2 threads, 3 calls of any method, 2 machines, 2 configurations, 4 documents, two of them defective, lifetime 0, clock to 2, memory that runs out | the license in force is the last one accepted unless copies overlapped or failed; failures leave no trace but that; acceptance is justified; features were granted |
| `manager_torn` | 2 threads that load | finding: the license in force can be a mixture of two |
| `wasm_calls` | 3 calls, 2 texts per hardware id, 2 ids, timeout of 2 intervals, fair | a wrong signature or verdict needs an earlier timeout; each call owns one request; a verdict is about hardware the page had during the call; every call ends |
| `wasm_late_reply` | the same, 2 calls | finding: the answer to a call that timed out becomes the signature of the next |
| `probe` | 2 processes, 2 calls, 7 hosts on 3 platforms, 2 changes, 2 boots | when fingerprints agree, what they tell of the machine, what a reboot makes of them, and that the getters agree with them |
| `issue` | 2 keys and a short one, 2 machines, 10 drafts, 5 alterations, clock to 5, 2 signatures, 1 alteration, seconds of 3 ticks, a clock of 26 | what is accepted was signed as it stands, for this machine, and until when; the two validators agree |
| `issue_overflow` | the same, with one validity | finding: a license whose expiry the clock cannot hold is accepted after it |
| `page` | 4 clicks, at most 2 licenses an hour, a performance test of 2 licenses, one change of the hour | the limit; the verdict, the hardware id and the tip on display |
| `json` | every text of at most three of 16 fragments, at most 2 keys, arrays of 1, strings of 6, texts of 48 with a signature of 4, fair | the signature's round trip up to and past the limits, when the parser stops |
| `json_array` | the same | finding: it need not stop |

Bounds. Each module names the bounds that stand in its guards in its CONSTANTS. Two
threads are enough for every pair of methods to overlap; with two calls each, a
thread meets the state its own and the other's earlier call left, so a refill,
its expiry, a second refill and a clear all occur in one behaviour. With
lifetime 1 and a clock of 3 an entry can be filled, be exactly as old as the
lifetime, be too old and be refilled. In `manager` the third call is the
one that can tell whether the first two, one after the other or at the same time, left
the object as they should (load, load or configure, query); with lifetime 0 a
cached fingerprint is used in its own tick and probed again in the next. In `wasm_calls` two requests can be in flight when the
third call starts, and a reply can arrive in the first or the last interval;
500 intervals (5000 ms / 10 ms) would add only repetitions of the same test.
`MaxChanges`, `MaxBoots` and `MaxProbes` bound the world of `HardwareProbe`: two
changes are the fewest with which a probe can join components that never were
together, and two probes are what every property compares. In `issue` a second has
three ticks, so that a time can be truncated by one or two; the clock is so narrow
that dates on both sides of its range are written and read, and 2 * 13 is no
multiple of 3, as 2^64 is none of 10^9. The word sizes keep the proportions that
matter: a version can be negative, narrowed, or refused. Two signatures are enough for
one text to be given the other's, and for a license to be issued again after it was
loaded. In `issue` the hours of a validity overflow the int, those of another the clock, and one
lies before the clock's first instant. In `page` three generations that wait together
pass the limit of two, with a click left to validate what they leave behind; four clicks
also make generate, tamper or expire, validate and change the hardware, in any order. With
five clicks (12 million states, some minutes) the same properties hold. The limits of `json` are
small enough that each is met, passed by one and refused, by names, values and
elements; the fragments include every character the parser tests for, names and
values that need escaping, and a backslash that escapes nothing.
Symmetry (threads, fingerprints, processes) is used in runs with invariants only.

Deadlock checking is off everywhere because callers may stop calling.

Fairness. `FingerprintCache!FairSpec` lets every thread that is inside a method be
scheduled again, the waiting ones included. `std::mutex` is not fair, so in
general weak fairness on `Acquire` would not do; here the number of calls is
bounded, so the mutex is eventually free for good, and weak fairness is all that
`CallsReturn` uses. Neither the clock nor the machine is fair.
`WasmBridge!FairSpec` lets a call that has started continue (timers fire); the
browser owes no answer. `SimpleJson!FairSpec` lets `parse` run on.

## 4. Proofs

Forty-six theorems, in eight modules, hold for any processes, documents, texts,
machines, limits and bounds, and for words of any size. They rest on the assumptions
the modules make about their constants, which TLC evaluates in every run, and, where
the table says so, on a hypothesis about how the object is used.

| hypothesis | of | means |
|---|---|---|
| `Excluding` | cache | `thread_safe_cache`, or one caller |
| `Excluding \/ ~EnableCaching` | cache | the same, or no cache to share |
| `Serial` | cache | `thread_safe_cache` with the cache it guards, or one caller |

Each of them is true of some configuration the library documents, and false of one
for which the run, or the model, shows the property to fail.

| module | theorem | states | hypothesis |
|---|---|---|---|
| `FingerprintCacheProofs` | `Typing` | `TypeOK` | - |
| | `Invariance` | `IInv` | `Excluding \/ ~EnableCaching` |
| | `Freshness` | `Fresh` | the same |
| | `SingleProbe` | `NoRedundantProbe` | the same |
| | `NoEmptyAccess` | `CheckedStaysTrue` | the same |
| | `Clearing` | `ClearTakesEffect` | the same |
| | `Accounting` | `StatsAccount` | `Serial` |
| | `BoundedMisses` | `MissesBounded` | - |
| | `WholeSnapshots` | `StatsSnapshot` | `Excluding`, caching |
| `FingerprintCacheRefinementProofs` | `Refinement` | `Spec => Linearizable` | `Excluding`, caching |
| `LicenseManagerProofs` | `Invariance`, `Typing` | `IInv`, `TypeOK` | - |
| | `Provenanced` | `FeatureProvenance` | - |
| | `Acceptance` | `AcceptedHere` | - |
| | `LatestInForce` | `InForceIsLatest` | - |
| | `Rejection` | `RejectionChangesNothing` | - |
| `WasmBridgeProofs` | `Invariance`, `Typing` | `IInv`, `TypeOK` | - |
| | `NoWrongAnswer` | `WrongOnlyIfAbandoned` | - |
| | `OneRequest` | `OneRequestPerCall` | - |
| | `Matched` | `MatchedDuringCall` | - |
| `HardwareProbeProofs` | `Invariance`, `Typing` | `IInv`, `TypeOK` | - |
| | `Instant` | `AtomicUpToOneChange` | - |
| | `Injective` | `SameFingerprintSameComponents` | - |
| | `Repeatable` | `Reproducible` | - |
| | `Rebooted` | `AcrossBoots` | - |
| | `Agreement` | `GettersAgree` | - |
| `LicenseIssueProofs` | `Invariance`, `Typing` | `IInv`, `TypeOK` | - |
| | `Authenticity` | `Genuine` | - |
| | `Agreement` | `ValidatorsAgree` | - |
| | `Reissuing` | `ReissueStable` | - |
| | `Meaning` | `AsMeant` | - |
| `SimpleJsonProofs` | `Typing` | `TypeOK` | - |
| | `UnescapeOfEscaped`, `EscapeInjective` | unescaping takes escaping back; different strings are escaped differently | - |
| | `StrictOrder` | `Precedes` is a strict total order | - |
| | `Invariance` | `IInv` | - |
| | `RoundTrip` | `SignedTextVerifies` | - |
| `DemoPageProofs` | `Invariance`, `Typing` | `IInv`, `TypeOK` | - |
| | `Limit` | `LimitUpToOverlap` | - |
| | `TrueVerdicts` | `VerdictHolds` | - |
| | `ValidForShown` | `ShownAgrees` | - |
| | `TrueTips` | `TipHolds` | - |

The inductive invariant of a module is its `IInv`, at the end of the module itself
under the words *Why it is so*. Each `Invariance` is proved action by action and
conjunct by conjunct.

**Cache.** `Fresh` is not inductive: a hit returns `cached` several steps after its age
was judged. `IInv` adds

* `Mutex` - the owner is the one thread inside a locking method, so two threads
  are never inside together (lemma `Exclusive`);
* `Times` - no recorded time lies in the future, and a call's `now` is no later
  than its last look at the clock;
* `Cache` - the machine had the cached fingerprint at its stamp or later;
* `Knows(t)` - what a thread at each label knows about the cache and its locals,
  which survives the steps of the others because of `Exclusive`;
* `Synced`, `TimeThenMiss` - value, time and counters agree but while the one thread
  inside is between its writes to them;
* `Accounts` - the counters are the calls that returned and the one that has counted
  itself (`Counted`) and not returned;
* `Bounded` - without exclusion, the misses are at most `Entered`, and so is what any
  thread has read and is about to write back, incremented. `BoundedMisses` needs no
  more than `TypeOK` and this.

The step is split in two: with caching (where the mutex counts) and without (where
the cache stays empty).

**Refinement.** While a thread is between its writes to `cached_fingerprint_`,
`cache_time_` and the counters, the mapping of `FingerprintCacheRefinement` shows
what is still to be written as written. Lemma `Mapped` says what it shows when the
calls exclude each other: the label of the one thread inside decides. Each step then
is a step of `AtomicCache` or changes nothing there (lemma `Implements`, one case for
each action).

**Manager.** Everything holds for any callers and for copies that fail. `Located` says that
what is being installed was accepted, `Provenance` that nothing else is ever in force, not
even half of it. `Judged` carries what each check found out to the last assignment: the
detector and its cache belong to the configuration in force, so what a load compared belongs
to one that was in force during the call. `Copying` makes `InForceIsLatest` inductive: a
copy that is alone has written exactly the members before its label, and no other call
writes between. `Untouched` says the complement for `RejectionChangesNothing`: what a call
has not written yet is as it found it or as others wrote it since (`before`).

**Bridge.** While no call has given up, whatever is in flight belongs to the call in
progress (`Answers`), so an answer can only be its own; afterwards only `Requests`
is left, which is why `WrongOnlyIfAbandoned` has its exception. `Meetings` keeps the
hardware id a validation began with among those it `met`.

**Probe.** `Calls` and `Reports` say of each call and of each report that its
fingerprint is the components it read, joined (`Joined`), that each component `Fits` its
place, and that it is what some machine of the call shows there. From this:

* `Injective`: a missing component leaves no trace in the stream, so the strings
  of two reports could be aligned differently; they are not, because only the
  volume serial and, on Windows, the address can be missing, and a serial looks like
  nothing else (lemmas on the four pieces).
* `Instant`: two machines that differ in one source at most differ in one component
  at most, because no two components of a system share a source; so the machine
  this component was read from has the others too.
* `Repeatable` and `Agreement`: one machine, with every source open, has one
  reading of each component, up to the ending of a fallback.
* `Rebooted`: two machines that differ in their boot only differ in the volume serial, on
  Linux, and in nothing elsewhere.

**Texts.** `Provenance` and `Records` say that every signature in the place of one was
made by a holder of its key for a record of `signed`, and what the generator put
there; `LastLoad` that `last` is a load of the text at hand. `Wrap`, the seconds and
the versions have lemmas of their own, for any `HalfRange` and `TicksPerSecond`
as `WordAssumption` relates them: a time is truncated toward zero when
written, by less than a second, and comes back as it was written unless it is out of
range or is the second before 1970.

**Text of a license.** Three things are between `SignedTextVerifies` and the code.

* The definitions that go along a string (the scans, the escapes, `FlattenSeq`) are
  recursive functions. That they have a value for every text, and which, takes induction
  over its places. `Least` gets that from the well-foundedness of the natural numbers,
  for membership in a set instead of for an operator; `Induction` and `Recursion` follow,
  and each scan is then described once by what a step of it does (`SkipWhitespace`,
  `NextOfStops`, `ClosingQuoteStops`, `Unescaping`). `TypeOK` needs no more.
* Where the writer put things. `Stands(t, p, x)` says that `x` is in `t` at `p`;
  `Layout` gives every field of a signed text its place, `ElementsStand` every element
  of an array. In an escaped string no quote is without its backslash, so the closing
  quote the parser finds is the one that was written (`ClosingQuoteOfEscaped`).
* The second parse. `SignedTextVerifies` speaks of its end only. `IInv` adds `Reading`: between
  two fields the reader is at the place of the next one and holds exactly those before
  it, within an array at the place of the next element. No step but those of `Field`,
  `Element` and the two ends can then be taken, and the only exception is a name that its
  escapes made too long. At the end names were escaped once and not unescaped: if
  one of them grew, so did the longest of those that need escaping, and no name that was
  signed is that long (`PlainOrLost`).

**Page.** `LimitUpToOverlap` is not inductive: the count rises when a signature arrives,
long after it was tested. `Counts` counts the generations that wait, the performance
test's among them, as if they had arrived (`Pending`); `peak` bounds them. `Awaited` says
what the waiting validations and tips are about, which `VerdictHolds` and `Told` need when
they end. The display agrees with the object or the object still has the id that
`initializeWasm` gave it; with `VerdictHolds` that is `ShownAgrees`.

### What is only model-checked

* Liveness: `CallsReturn`, `CallEnds` and `StopsOrStuck`. TLAPS has no rules for
  fairness and ENABLED.
* The four runs that end in a counterexample, which refute what they state.

`LicenseIssue` takes from `SimpleJson` that writing and reading a text do not
change it, which `RoundTrip` proves for licenses within the limits whose names need no
escaping.
`LicenseManager` takes the detector as `AtomicCache` describes it, which `Refinement`
proves of the cache, and the cache takes a probe to be one instant, which `Instant`
proves of `compute_hash` while at most one source changes.

## 5. What the models say of the code

Four statements in the repository do not hold of the program; each has a run
that ends in a counterexample.

1. `manager_torn` - "Concurrent validation without synchronization overhead"
   (docs/architecture-en.html:390): two overlapping loads can leave the features of one
   license with the expiry of the other (license_manager.cpp:159).
2. `wasm_late_reply` - `compute_hmac_sha256` is a "synchronous wrapper"
   (wasm/license_core_wasm.cpp:76), but a callback does not say which request it
   answers.
3. `json_array` - "Safe JSON parser with strict validation" (simple_json.hpp:46): an
   element of an array that is not a string keeps the loop where it is
   (simple_json.cpp:105). `StopsOrStuck` shows that nothing else does.
4. `issue_overflow` - a license that has expired is refused with
   `ExpiredLicenseException`, "Thrown when license has expired"
   (include/license_core/exceptions.hpp:38), as the test at tests/test_simple.cpp:86-95
   expects: but `from_time_t` (license_manager.cpp:318) overflows for an expiry before
   1677, and one of 1600 becomes one of 2184. `AsMeant` shows that no other expiry is
   passed.

What the models contain besides, and their properties say:

* `validate_license` is const and its comment speaks of a copy
  (license_manager.cpp:332), but it loads into the manager itself, and does so even
  when it answers false because another hardware id was asked about. That is why
  `InForceIsLatest` counts its documents too.
* Where neither a processor serial nor a machine-id can be read, as in many
  containers, every probe draws a random string (hardware_fingerprint.cpp:613),
  and so does every probe of the board on Windows and macOS: `Reproducible` and
  `AcrossBoots` except it, and a license issued for such a fingerprint fits a later one
  only by chance. Tests expect otherwise: "HWID should be 100% consistent"
  (tests/stress/stress_test.cpp:213), "Results should be consistent regardless of caching
  config" (gtests/test_caching.cpp:180). On Linux no fingerprint with a volume serial
  survives a reboot (`AcrossBoots`).
* A copy of a license that runs out of memory leaves members of two licenses in force under
  the old flag, and reports a parse error (license_manager.cpp:159-166):
  `RejectionChangesNothing` and `InForceIsLatest` say what is left, and that the next
  load puts it right.
* An uncached `get_fingerprint` increments `cache_misses` without the mutex
  (hardware_fingerprint.cpp:43), so two calls can count one miss (`MissesBounded`).
* A license with a field name that needs escaping is refused as soon as it is
  signed, and so is one that has a signature already: `sign_json` signs that field with
  the others (hmac_validator.cpp:83), and `verify_json` takes it away
  (`SignedTextVerifies`). The proof of `RoundTrip` came upon the second.
* A date outside the range of `system_clock` (about 1677 to 2262) becomes another
  date when read (see above for those before it; those after it end earlier),
  and the second before 1970 cannot be read at all. The two meet: a signed license
  whose issue date lies outside the range is accepted, and if that date becomes the
  second before 1970, `generate_license` writes from it a license that no load
  accepts (license_manager.cpp:314). The proof of `AsMeant` came upon this; the
  property excepts it, and a draft in `issue` does it.
* Overlapping clicks on the page pass the limit of licenses per hour, by one for
  each generation that waits beyond the first (`LimitUpToOverlap`).
* The page displays its hardware id once, 100 ms after the document is there, to "Wait for
  potential WASM loading" (docs/wasm.js:642); a module that loads later changes the id
  and not the display, so `ShownAgrees` excepts the id the page started with.
* The performance test's first half is refused after `maxLicensesPerHour` licenses
  (ten, of its hundred): it ends without a word and uses up the hour's licenses
  (`Measured`).

## 6. Plan

The modules were written in the order `FingerprintCache`, `LicenseManager`,
`WasmBridge`, `HardwareProbe`, `SimpleJson`, `LicenseIssue`, `DemoPage`: the shared state
first. Then the
proofs, in the same order. What is left:

1. `SimpleJson`: that different objects are written differently, so that
   `SignedTextVerifies` can compare the texts that are signed instead of the objects, as
   `verify` does.
2. Shorter proofs, above all of `HardwareProbe`, and lemmas shared between modules.

## 7. Not modelled, and why

* Sharing a cached object with `thread_safe_cache = false` between threads: the
  caller has opted out of the mutex. `FingerprintCache` can be instantiated that way, and
  for one caller everything is proved (`Excluding`, `Serial`); for several, only
  `Typing`.
* What happens after a data race on the manager (two copies of the same member, a copy of
  the features while they are read, the detector replaced while it is asked): undefined.
  The model ends there, see `Race`.
* The system clock set back: `Tick` only moves forward. `steady_clock` never goes back;
  `system_clock` may.
* HMAC-SHA256, SHA-256 and random numbers: OpenSSL's. A signature is right or not.
* Texts without outer braces: refused before anything else happens.
* The grammar of `std::get_time` and of `std::stoul` beyond what is read or refused.
* The examples other than license_generator, the prebuilt C package and the web
  pages other than the demo: straight-line callers. (`hwid_tool` constructs a manager
  with a key of nine characters, which `HMACValidator` refuses: it always ends with
  an error.)
* On the demo page: the limits on features and days, the selection of features and the
  purchase dialog, and a customer id that makes the module's text no JSON. docs/demo.js is
  loaded by no page.
* `hardware_fingerprint_cached.hpp`: an older variant nothing includes.
