--------------------- MODULE FingerprintCacheRefinement ---------------------
(***************************************************************************)
(* With caching and the mutex, FingerprintCache implements AtomicCache.  A   *)
(* hit takes effect when its age test succeeds, a refill when the optional   *)
(* is assigned, clear_cache when the optional is reset; what the thread in   *)
(* the mutex has still to write after that point is added by the mapping.    *)
(***************************************************************************)
EXTENDS FingerprintCache

Somewhere(labels) == \E t \in Threads : pc[t] \in labels
Count(labels) == IF Somewhere(labels) THEN 1 ELSE 0

Hitting == {"load_hit", "bump_hit"}
Refilling == {"stamp", "update", "load_miss", "bump_miss"}

\* The stamp of the refill that is being written.
nowOfRefill == now[CHOOSE t \in Threads : pc[t] \in Refilling]

absStamp == CASE Somewhere({"stamp"})   -> nowOfRefill
              [] Somewhere({"unstamp"}) -> Never
              [] OTHER -> cache_time

absStats ==
    [hits |-> stats.hits + Count(Hitting),
     misses |-> stats.misses + Count(Refilling),
     last_update |-> IF Somewhere({"stamp", "update"}) THEN nowOfRefill
                                                      ELSE stats.last_update]

Done == Hitting \cup {"value"} \cup Refilling \cup {"unstamp", "ret"}
absPhase == [t \in Threads |-> CASE pc[t] = "idle" -> "idle"
                                 [] pc[t] \in Done -> "done"
                                 [] OTHER -> "open"]

absRet == [t \in Threads |-> CASE pc[t] \in Hitting \cup {"value"} -> cached
                               [] pc[t] \in Refilling -> result[t]
                               [] OTHER -> ret[t]]

Atomic == INSTANCE AtomicCache WITH
    value <- cached, stamp <- absStamp, stats <- absStats,
    phase <- absPhase, since <- looked, ret <- absRet

\* Every call on a shared, cached, mutex-protected object takes effect at one
\* instant between its start and its return (thread_safe_cache, cpp:47-62).
Linearizable == Atomic!Spec
=============================================================================
