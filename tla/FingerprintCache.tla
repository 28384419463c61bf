-------------------------- MODULE FingerprintCache --------------------------
(***************************************************************************)
(* The cache of class HardwareFingerprint (src/src/hardware_fingerprint.cpp *)
(* lines 37-229): threads share one object and call get_fingerprint,        *)
(* get_fingerprint_safe, clear_cache (invalidate_cache), is_cache_valid and *)
(* get_cache_stats on it.  Every access the code makes to a shared member   *)
(* is a step of its own, so the three configurations the class offers       *)
(* (mutex, no mutex, no caching) differ only in who may interleave.         *)
(*                                                                          *)
(* A fingerprint is opaque here: compute_hash returns the machine's current *)
(* one, read at a single instant, or throws.  How it is put together from   *)
(* the components is the subject of HardwareProbe.                          *)
(***************************************************************************)
EXTENDS Integers, FiniteSets

CONSTANTS
    Threads,        \* callers that share the object
    Fingerprints,   \* the values compute_hash can return
    EnableCaching,  \* config_.enable_caching
    ThreadSafe,     \* config_.thread_safe_cache
    Lifetime,       \* config_.cache_lifetime, in clock units
    MaxClock,       \* bound: last tick of steady_clock
    MaxCalls,       \* bound: calls each thread makes
    NoThread,       \* the mutex is free
    NoValue,        \* an empty std::optional, and the empty string
    Thrown          \* the call ended with an exception

ASSUME ConfigAssumption ==
    /\ EnableCaching \in BOOLEAN
    /\ ThreadSafe \in BOOLEAN
    /\ Lifetime \in Nat

ASSUME BoundsAssumption ==
    /\ MaxClock \in Nat \ {0}
    /\ MaxCalls \in Nat

ASSUME ThreadsAssumption == IsFiniteSet(Threads)

ASSUME DistinctAssumption ==
    /\ NoThread \notin Threads
    /\ NoValue \notin Fingerprints
    /\ Thrown \notin Fingerprints
    /\ Thrown # NoValue

VARIABLES
    \* members of the object
    owner,          \* cache_mutex_
    cached,         \* cached_fingerprint_
    cache_time,     \* cache_time_
    stats,          \* cache_stats_
    \* the environment
    clock,          \* std::chrono::steady_clock
    hw,             \* the fingerprint the machine has now
    lastSeen,       \* history: when the machine last had each fingerprint
    \* one call per thread
    pc, op,         \* where the thread is, and in which method
    now,            \* the local `now` of get_fingerprint
    looked,         \* the clock when the call last judged the cache's age
    reg,            \* the register of the `++` in update_cache_stats
    result,         \* the local `result`
    ret,            \* the string the method returns, or Thrown
    answer,         \* the bool is_cache_valid returns
    copy,           \* the CacheStats get_cache_stats returns
    calls,          \* calls made so far, for the bound
    served,         \* history: get calls that returned a fingerprint
    failed          \* history: get calls that threw

object == <<owner, cached, cache_time, stats>>
environment == <<clock, hw, lastSeen>>
returned == <<ret, answer, copy>>
locals == <<op, now, looked, reg, result, returned>>
history == <<calls, served, failed>>
vars == <<owner, cached, cache_time, stats, clock, hw, lastSeen,
          pc, op, now, looked, reg, result, ret, answer, copy,
          calls, served, failed>>

\* time_point::min(), and the default-constructed CacheStats::last_update.
\* The clock starts above both.
Never == -1
Epoch == 0

NoStats == [hits |-> 0, misses |-> 0, last_update |-> Epoch]

\* get_fingerprint_safe is "get" with the exception turned into "".
Ops == {"get", "clear", "valid", "stats"}

Idle == {"idle", "lock"}
Inside == {"now", "check", "expiry", "load_hit", "bump_hit", "value", "probe",
           "store", "stamp", "update", "load_miss", "bump_miss",
           "reset", "unstamp", "copy", "ret"}

Init ==
    /\ owner = NoThread
    /\ cached = NoValue
    /\ cache_time = Never
    /\ stats = NoStats
    /\ clock = 1
    /\ hw \in Fingerprints
    /\ lastSeen = [f \in Fingerprints |-> IF f = hw THEN 1 ELSE 0]
    /\ pc = [t \in Threads |-> "idle"]
    /\ op = [t \in Threads |-> "get"]
    /\ now = [t \in Threads |-> 0]
    /\ looked = [t \in Threads |-> 0]
    /\ reg = [t \in Threads |-> 0]
    /\ result = [t \in Threads |-> NoValue]
    /\ ret = [t \in Threads |-> NoValue]
    /\ answer = [t \in Threads |-> FALSE]
    /\ copy = [t \in Threads |-> NoStats]
    /\ calls = [t \in Threads |-> 0]
    /\ served = 0
    /\ failed = 0

-----------------------------------------------------------------------------
(* The environment: time passes, and the machine's fingerprint may change.  *)

Tick ==
    /\ clock < MaxClock
    /\ clock' = clock + 1
    /\ lastSeen' = [lastSeen EXCEPT ![hw] = clock + 1]
    /\ UNCHANGED <<object, hw, pc, locals, history>>

HardwareChange ==
    /\ \E f \in Fingerprints \ {hw} :
          /\ hw' = f
          /\ lastSeen' = [lastSeen EXCEPT ![f] = clock]
    /\ UNCHANGED <<object, clock, pc, locals, history>>

-----------------------------------------------------------------------------
(* Entering a method.  With thread_safe_cache every one of them first takes *)
(* a lock_guard, except get_fingerprint when caching is disabled.           *)

Goto(t, l) == pc' = [pc EXCEPT ![t] = l]

Body(o) == CASE o = "get" /\ EnableCaching  -> "now"
             [] o = "get" /\ ~EnableCaching -> "load_miss"
             [] o = "clear" -> "reset"
             [] o = "valid" -> "check"
             [] o = "stats" -> "copy"

\* Defective variants: no method locks; the readers do not; clear_cache does not.
NeedsLock_Never(o) == FALSE
NeedsLock_NoReader(o) ==
    ThreadSafe /\ o \in {"get", "clear"} /\ (o = "get" => EnableCaching)
NeedsLock_NoClear(o) ==
    ThreadSafe /\ o # "clear" /\ (o = "get" => EnableCaching)

NeedsLock(o) == ThreadSafe /\ (o = "get" => EnableCaching)

Call(t, o) ==
    /\ pc[t] = "idle"
    /\ calls[t] < MaxCalls
    /\ calls' = [calls EXCEPT ![t] = @ + 1]
    /\ op' = [op EXCEPT ![t] = o]
    /\ looked' = [looked EXCEPT ![t] = clock]
    /\ Goto(t, IF NeedsLock(o) THEN "lock" ELSE Body(o))
    /\ UNCHANGED <<object, environment, now, reg, result, returned, served, failed>>

Acquire(t) ==
    /\ pc[t] = "lock"
    /\ owner = NoThread
    /\ owner' = t
    /\ Goto(t, Body(op[t]))
    /\ UNCHANGED <<cached, cache_time, stats, environment, locals, history>>

-----------------------------------------------------------------------------
(* get_fingerprint and is_cache_valid: the test                             *)
(* cached_fingerprint_.has_value() && !is_cache_expired().                  *)

ReadNow(t) ==
    /\ pc[t] = "now"
    /\ now' = [now EXCEPT ![t] = clock]
    /\ looked' = [looked EXCEPT ![t] = clock]
    /\ Goto(t, "check")
    /\ UNCHANGED <<object, environment, op, reg, result, returned, history>>

CheckValue(t) ==
    /\ pc[t] = "check"
    /\ Goto(t, CASE cached # NoValue -> "expiry"
                 [] cached = NoValue /\ op[t] = "valid" -> "ret"
                 [] cached = NoValue /\ op[t] # "valid" -> "probe")
    /\ UNCHANGED <<object, environment, locals, history>>

\* now - time_point::min() overflows a signed 64-bit count, which the language
\* leaves undefined: either answer.  Otherwise a strict comparison.
is_cache_expired ==
    IF cache_time = Never THEN BOOLEAN ELSE {clock - cache_time > Lifetime}

CheckExpiry(t) ==
    /\ pc[t] = "expiry"
    /\ looked' = [looked EXCEPT ![t] = clock]
    /\ \E expired \in is_cache_expired :
          /\ Goto(t, CASE op[t] = "valid" -> "ret"
                       [] op[t] # "valid" /\ expired -> "probe"
                       [] op[t] # "valid" /\ ~expired -> "load_hit")
          /\ answer' = [answer EXCEPT ![t] = op[t] = "valid" /\ ~expired]
    /\ UNCHANGED <<object, environment, op, now, reg, result, ret, copy, history>>

-----------------------------------------------------------------------------
(* update_cache_stats: an unprotected read-modify-write of one counter.     *)

LoadCounter(t) ==
    /\ pc[t] \in {"load_hit", "load_miss"}
    /\ reg' = [reg EXCEPT ![t] =
                  IF pc[t] = "load_hit" THEN stats.hits ELSE stats.misses]
    /\ Goto(t, IF pc[t] = "load_hit" THEN "bump_hit" ELSE "bump_miss")
    /\ UNCHANGED <<object, environment, op, now, looked, result, returned, history>>

\* Defective variant: counts down.
BumpHit_Down(t) ==
    /\ pc[t] = "bump_hit"
    /\ stats' = [stats EXCEPT !.hits = reg[t] - 1]
    /\ Goto(t, "value")
    /\ UNCHANGED <<owner, cached, cache_time, environment, locals, history>>

BumpHit(t) ==
    /\ pc[t] = "bump_hit"
    /\ stats' = [stats EXCEPT !.hits = reg[t] + 1]
    /\ Goto(t, "value")
    /\ UNCHANGED <<owner, cached, cache_time, environment, locals, history>>

\* With caching the miss is counted after the result is stored, and the result
\* is then returned; without caching it is counted before compute_hash runs.
BumpMiss(t) ==
    /\ pc[t] = "bump_miss"
    /\ stats' = [stats EXCEPT !.misses = reg[t] + 1]
    /\ IF EnableCaching
       THEN Goto(t, "ret") /\ ret' = [ret EXCEPT ![t] = result[t]]
       ELSE Goto(t, "probe") /\ ret' = ret
    /\ UNCHANGED <<owner, cached, cache_time, environment,
                   op, now, looked, reg, result, answer, copy, history>>

\* return cached_fingerprint_.value(): throws bad_optional_access when empty.
ReadValue(t) ==
    /\ pc[t] = "value"
    /\ ret' = [ret EXCEPT ![t] = IF cached = NoValue THEN Thrown ELSE cached]
    /\ Goto(t, "ret")
    /\ UNCHANGED <<object, environment, op, now, looked, reg, result,
                   answer, copy, history>>

-----------------------------------------------------------------------------
(* compute_hash, and what get_fingerprint does with its result.             *)

ProbeOk(t) ==
    /\ pc[t] = "probe"
    /\ result' = [result EXCEPT ![t] = hw]
    /\ IF EnableCaching
       THEN Goto(t, "store") /\ ret' = ret
       ELSE Goto(t, "ret") /\ ret' = [ret EXCEPT ![t] = hw]
    /\ UNCHANGED <<object, environment, op, now, looked, reg, answer, copy, history>>

\* Defective variant: a failed probe is a miss as well.
ProbeFail_Counted(t) ==
    /\ pc[t] = "probe"
    /\ ret' = [ret EXCEPT ![t] = Thrown]
    /\ stats' = [stats EXCEPT !.misses = @ + 1]
    /\ Goto(t, "ret")
    /\ UNCHANGED <<owner, cached, cache_time, environment,
                   op, now, looked, reg, result, answer, copy, history>>

\* HardwareDetectionException or CryptographicException leaves the method.
ProbeFail(t) ==
    /\ pc[t] = "probe"
    /\ ret' = [ret EXCEPT ![t] = Thrown]
    /\ Goto(t, "ret")
    /\ UNCHANGED <<object, environment, op, now, looked, reg, result,
                   answer, copy, history>>

Store(t) ==
    /\ pc[t] = "store"
    /\ cached' = result[t]
    /\ Goto(t, "stamp")
    /\ UNCHANGED <<owner, cache_time, stats, environment, locals, history>>

\* Defective variant: the stamp is taken when the probe ends.
Stamp_AtEnd(t) ==
    /\ pc[t] = "stamp"
    /\ cache_time' = clock
    /\ Goto(t, "update")
    /\ UNCHANGED <<owner, cached, stats, environment, locals, history>>

Stamp(t) ==
    /\ pc[t] = "stamp"
    /\ cache_time' = now[t]
    /\ Goto(t, "update")
    /\ UNCHANGED <<owner, cached, stats, environment, locals, history>>

UpdateTime(t) ==
    /\ pc[t] = "update"
    /\ stats' = [stats EXCEPT !.last_update = now[t]]
    /\ Goto(t, "load_miss")
    /\ UNCHANGED <<owner, cached, cache_time, environment, locals, history>>

-----------------------------------------------------------------------------
(* clear_cache.  The four per-component optionals it also resets are never  *)
(* given a value anywhere, so they are left out.                            *)

Reset(t) ==
    /\ pc[t] = "reset"
    /\ cached' = NoValue
    /\ Goto(t, "unstamp")
    /\ UNCHANGED <<owner, cache_time, stats, environment, locals, history>>

\* Defective variant: the time outlives the value.
Unstamp_Forgotten(t) ==
    /\ pc[t] = "unstamp"
    /\ Goto(t, "ret")
    /\ UNCHANGED <<object, environment, locals, history>>

Unstamp(t) ==
    /\ pc[t] = "unstamp"
    /\ cache_time' = Never
    /\ Goto(t, "ret")
    /\ UNCHANGED <<owner, cached, stats, environment, locals, history>>

\* get_cache_stats: the copy that is returned.
CopyStats(t) ==
    /\ pc[t] = "copy"
    /\ copy' = [copy EXCEPT ![t] = stats]
    /\ Goto(t, "ret")
    /\ UNCHANGED <<object, environment, op, now, looked, reg, result,
                   ret, answer, history>>

-----------------------------------------------------------------------------
(* Leaving a method: the lock_guard is destroyed on every path, return or   *)
(* throw, and the locals die.                                               *)

\* Defective variant: an exception leaves the mutex locked.
Return_KeepsLock(t) ==
    /\ pc[t] = "ret"
    /\ owner' = IF owner = t /\ ret[t] # Thrown THEN NoThread ELSE owner
    /\ Goto(t, "idle")
    /\ ret' = [ret EXCEPT ![t] = NoValue]
    /\ UNCHANGED <<cached, cache_time, stats, environment,
                   op, now, looked, reg, result, answer, copy, history>>

Return(t) ==
    /\ pc[t] = "ret"
    /\ owner' = IF owner = t THEN NoThread ELSE owner
    /\ Goto(t, "idle")
    /\ served' = IF op[t] = "get" /\ ret[t] # Thrown THEN served + 1 ELSE served
    /\ failed' = IF op[t] = "get" /\ ret[t] = Thrown THEN failed + 1 ELSE failed
    /\ now' = [now EXCEPT ![t] = 0]
    /\ looked' = [looked EXCEPT ![t] = 0]
    /\ reg' = [reg EXCEPT ![t] = 0]
    /\ result' = [result EXCEPT ![t] = NoValue]
    /\ ret' = [ret EXCEPT ![t] = NoValue]
    /\ answer' = [answer EXCEPT ![t] = FALSE]
    /\ copy' = [copy EXCEPT ![t] = NoStats]
    /\ op' = [op EXCEPT ![t] = "get"]
    /\ UNCHANGED <<cached, cache_time, stats, environment, calls>>

-----------------------------------------------------------------------------
ThreadStep(t) ==
    \/ Acquire(t) \/ ReadNow(t) \/ CheckValue(t) \/ CheckExpiry(t)
    \/ LoadCounter(t) \/ BumpHit(t) \/ BumpMiss(t) \/ ReadValue(t)
    \/ ProbeOk(t) \/ ProbeFail(t) \/ Store(t) \/ Stamp(t) \/ UpdateTime(t)
    \/ Reset(t) \/ Unstamp(t) \/ CopyStats(t) \/ Return(t)

Next ==
    \/ Tick
    \/ HardwareChange
    \/ \E t \in Threads : \/ \E o \in Ops : Call(t, o)
                         \/ ThreadStep(t)

Spec == Init /\ [][Next]_vars

\* A thread inside a method is scheduled again; nothing obliges one to call,
\* time to pass or the machine to change.
FairSpec == Spec /\ \A t \in Threads : WF_vars(ThreadStep(t))

-----------------------------------------------------------------------------
Strings == Fingerprints \cup {NoValue}
Stats == [hits : Nat, misses : Nat, last_update : Nat]

TypeOK ==
    /\ owner \in Threads \cup {NoThread}
    /\ cached \in Strings
    /\ cache_time \in Nat \cup {Never}
    /\ stats \in Stats
    /\ clock \in Nat
    /\ hw \in Fingerprints
    /\ lastSeen \in [Fingerprints -> Nat]
    /\ pc \in [Threads -> Idle \cup Inside]
    /\ op \in [Threads -> Ops]
    /\ now \in [Threads -> Nat]
    /\ looked \in [Threads -> Nat]
    /\ reg \in [Threads -> Nat]
    /\ result \in [Threads -> Strings]
    /\ ret \in [Threads -> Strings \cup {Thrown}]
    /\ answer \in [Threads -> BOOLEAN]
    /\ copy \in [Threads -> Stats]
    /\ calls \in [Threads -> Nat]
    /\ served \in Nat
    /\ failed \in Nat

\* The oldest sighting a served fingerprint may rest on.
Tolerance == IF EnableCaching THEN Lifetime ELSE 0

\* What get_fingerprint returns, the machine had no longer ago than the cache
\* lifetime, counted back from the instant the call judged the cache's age; and
\* when is_cache_valid says yes, that is true of the cached value.  A refill is
\* stamped with the time read before compute_hash (cpp:50, 59), which is what
\* makes it true however long the probe takes.
FreshAt(t) ==
    pc[t] = "ret" =>
        /\ ret[t] \in Fingerprints => lastSeen[ret[t]] >= looked[t] - Tolerance
        /\ answer[t] => /\ cached # NoValue
                        /\ lastSeen[cached] >= looked[t] - Tolerance
Fresh == \A t \in Threads : FreshAt(t)

\* The hardware is probed only when the cache is of no use: a caller that waited
\* for the mutex while another refilled the cache does not probe again.
NoRedundantProbe ==
    \A t \in Threads : pc[t] = "probe" /\ EnableCaching =>
        \/ cached = NoValue
        \/ looked[t] - cache_time > Lifetime

\* With no call in progress the counters account for every call: hits and misses
\* add up to the calls served, and without caching, where the miss is counted
\* before the probe (cpp:43), to the failed ones as well.
AllIdle == \A t \in Threads : pc[t] \in Idle
StatsAccount ==
    AllIdle => stats.hits + stats.misses =
                   served + (IF EnableCaching THEN 0 ELSE failed)

\* Callers that share an object without caching do not exclude each other, and may
\* count one miss for several calls (cpp:43, 177): never more than the calls, and
\* never none.
MissesBounded ==
    ~EnableCaching /\ AllIdle =>
        /\ stats.misses <= served + failed
        /\ stats.misses = 0 => served + failed = 0

\* get_cache_stats never shows a refill half done: an update time without a miss,
\* or a miss without an update time.
StatsSnapshot ==
    \A t \in Threads : pc[t] = "ret" /\ op[t] = "stats" =>
        (copy[t].misses = 0 <=> copy[t].last_update = Epoch)

\* When clear_cache returns, the cache is empty, whatever other callers were in
\* the middle of; and between calls a value is in the cache exactly when there is
\* a time for it, the time of the last update.
ClearTakesEffect ==
    /\ \A t \in Threads : pc[t] = "ret" /\ op[t] = "clear" =>
           cached = NoValue /\ cache_time = Never
    /\ AllIdle => \/ cached = NoValue /\ cache_time = Never
                  \/ cached # NoValue /\ cache_time = stats.last_update

\* The age of a cache that holds no value is never computed (it would overflow,
\* cpp:170), and value() is never called on an empty optional: what the first
\* half of the condition at cpp:52 saw still holds at each later step.
CheckedStaysTrue ==
    \A t \in Threads :
        /\ pc[t] = "expiry" => cache_time # Never
        /\ pc[t] \in {"load_hit", "bump_hit", "value"} => cached # NoValue

\* Every call returns, whatever the probe does: no path, a throwing one included,
\* leaves the mutex locked.
CallsReturn == \A t \in Threads : pc[t] # "idle" ~> pc[t] = "idle"

-----------------------------------------------------------------------------
(* Why it is so: an invariant that every step preserves when the calls       *)
(* exclude each other or there is no cache to share.  Proved in              *)
(* FingerprintCacheProofs.                                                   *)

\* The mutex, or a single caller who needs none.  get_fingerprint takes the mutex
\* only to use the cache.
SingleCaller == \A t, u \in Threads : t = u
Excluding == ThreadSafe \/ SingleCaller
Serial == (ThreadSafe /\ EnableCaching) \/ SingleCaller

\* The labels a call of each method passes through.
Labels(o) ==
    CASE o = "get" /\ EnableCaching ->
             {"now", "check", "expiry", "load_hit", "bump_hit", "value", "probe",
              "store", "stamp", "update", "load_miss", "bump_miss", "ret"}
      [] o = "get" /\ ~EnableCaching -> {"load_miss", "bump_miss", "probe", "ret"}
      [] o = "clear" -> {"reset", "unstamp", "ret"}
      [] o = "valid" -> {"check", "expiry", "ret"}
      [] o = "stats" -> {"copy", "ret"}

\* The mutex is held by the thread inside a locking method, and by nobody else.
Mutex ==
    \A t \in Threads :
        /\ pc[t] \in Idle \cup Labels(op[t])
        /\ pc[t] = "lock" => NeedsLock(op[t])
        /\ owner = t <=> pc[t] \in Inside /\ NeedsLock(op[t])

\* No recorded time lies in the future.
Times ==
    /\ lastSeen[hw] = clock
    /\ cache_time <= clock
    /\ \A f \in Fingerprints : lastSeen[f] <= clock
    /\ \A t \in Threads : now[t] <= looked[t] /\ looked[t] <= clock

\* The machine had the cached fingerprint at its stamp or later; a value without
\* a stamp is one that is just being stored.
Cache ==
    /\ cached # NoValue => lastSeen[cached] >= cache_time
    /\ cached # NoValue /\ cache_time = Never => \E t \in Threads : pc[t] = "stamp"
    /\ ~EnableCaching => cached = NoValue /\ cache_time = Never

Storing == {"store", "stamp", "update", "load_miss", "bump_miss"}

\* What each thread knows where it is.
Knows(t) ==
    /\ pc[t] = "expiry" => cached # NoValue /\ cache_time # Never
    /\ pc[t] \in {"load_hit", "bump_hit", "value"} =>
           cached # NoValue /\ lastSeen[cached] >= looked[t] - Lifetime
    /\ pc[t] \in {"probe", "store"} /\ EnableCaching =>
           cached = NoValue \/ looked[t] - cache_time > Lifetime
    /\ pc[t] \in {"check", "expiry", "probe", "store", "stamp"} /\ op[t] = "get" =>
           cache_time <= now[t]
    /\ pc[t] \in Storing /\ EnableCaching =>
           result[t] # NoValue /\ lastSeen[result[t]] >= looked[t]
    /\ pc[t] = "store" => lastSeen[result[t]] >= cache_time
    /\ pc[t] = "stamp" => cached = result[t]
    /\ pc[t] = "unstamp" => cached = NoValue
    /\ pc[t] = "ret" /\ op[t] = "clear" => cached = NoValue /\ cache_time = Never
    /\ pc[t] # "ret" => ret[t] = NoValue /\ ~answer[t]
    /\ answer[t] => op[t] = "valid"

Writing == {"stamp", "update", "unstamp"}

\* The members agree, but while a thread is writing them.
Synced ==
    /\ (\A t \in Threads : pc[t] \notin Writing) =>
           \/ cached = NoValue /\ cache_time = Never
           \/ cached # NoValue /\ cache_time = stats.last_update
    /\ \A t \in Threads : pc[t] = "update" => cached # NoValue /\ cache_time = now[t]

Counting == {"load_miss", "bump_miss"}

\* With caching, a refill writes the time of the update and then the miss.
TimeThenMiss ==
    /\ clock # Epoch
    /\ \A t \in Threads : pc[t] \in {"check", "expiry", "probe", "store", "stamp", "update"} =>
           (op[t] = "get" => now[t] # Epoch)
    /\ (\A t \in Threads : pc[t] \notin Counting) =>
           (stats.misses = 0 <=> stats.last_update = Epoch)
    /\ \A t \in Threads : pc[t] \in Counting => stats.last_update # Epoch
    /\ \A t \in Threads : pc[t] = "ret" /\ op[t] = "stats" =>
           (copy[t].misses = 0 <=> copy[t].last_update = Epoch)

\* A call of get_fingerprint that is in the counters and has not returned yet.
Counted(t) ==
    /\ op[t] = "get"
    /\ IF EnableCaching THEN pc[t] = "value" \/ (pc[t] = "ret" /\ ret[t] # Thrown)
                        ELSE pc[t] \in {"probe", "ret"}

\* When calls exclude each other no increment is lost.
Accounts ==
    /\ stats.hits + stats.misses =
           served + (IF EnableCaching THEN 0 ELSE failed)
                  + (IF \E t \in Threads : Counted(t) THEN 1 ELSE 0)
    /\ \A t \in Threads :
          /\ pc[t] = "bump_hit" => reg[t] = stats.hits
          /\ pc[t] = "bump_miss" => reg[t] = stats.misses

\* When they do not, one may be, but none is invented.
Entered == served + failed + Cardinality({t \in Threads : Counted(t)})
Bounded ==
    /\ stats.misses <= Entered
    /\ stats.misses = 0 => Entered = 0
    /\ \A t \in Threads : pc[t] = "bump_miss" => reg[t] <= Entered

IInv ==
    /\ TypeOK
    /\ Mutex
    /\ Times
    /\ Cache
    /\ \A t \in Threads : Knows(t) /\ FreshAt(t)
    /\ Synced
    /\ EnableCaching => TimeThenMiss
    /\ Serial => Accounts
    /\ ~EnableCaching => Bounded
=============================================================================
