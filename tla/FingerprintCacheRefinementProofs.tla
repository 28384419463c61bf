------------------- MODULE FingerprintCacheRefinementProofs -------------------
(***************************************************************************)
(* The proof that FingerprintCache, with caching and calls that exclude each *)
(* other, implements AtomicCache under the mapping of                        *)
(* FingerprintCacheRefinement, for any threads, fingerprints and lifetime.   *)
(***************************************************************************)
EXTENDS FingerprintCacheRefinement, FingerprintCacheProofs

\* No thread but t is inside a method.
Alone(t) == \A u \in Threads \ {t} : pc[u] \notin Inside

\* What the mapping shows is what the one thread inside has still to write.
LEMMA Mapped ==
    ASSUME NEW t \in Threads, Alone(t)
    PROVE  /\ absStamp = IF pc[t] = "stamp" THEN now[t]
                         ELSE IF pc[t] = "unstamp" THEN Never ELSE cache_time
           /\ absStats =
                 [hits |-> stats.hits + (IF pc[t] \in Hitting THEN 1 ELSE 0),
                  misses |-> stats.misses + (IF pc[t] \in Refilling THEN 1 ELSE 0),
                  last_update |-> IF pc[t] \in {"stamp", "update"} THEN now[t]
                                                                  ELSE stats.last_update]
<1>1. \A S \in SUBSET Inside : Somewhere(S) <=> pc[t] \in S
  BY DEF Alone, Somewhere
<1>2. pc[t] \in Refilling => nowOfRefill = now[t]
  BY DEF nowOfRefill, Alone, Refilling, Inside
<1>3. /\ Somewhere(Hitting) <=> pc[t] \in Hitting
      /\ Somewhere(Refilling) <=> pc[t] \in Refilling
      /\ Somewhere({"stamp", "update"}) <=> pc[t] \in {"stamp", "update"}
      /\ Somewhere({"stamp", "unstamp"}) <=> pc[t] \in {"stamp", "unstamp"}
      /\ Somewhere({"stamp"}) <=> pc[t] = "stamp"
      /\ Somewhere({"unstamp"}) <=> pc[t] = "unstamp"
  BY <1>1 DEF Inside, Hitting, Refilling
<1> QED
  BY <1>2, <1>3 DEF absStamp, absStats, Count, Refilling

\* The same after a step.
LEMMA MappedNext ==
    ASSUME NEW t \in Threads, Alone(t)'
    PROVE  /\ absStamp' = IF pc'[t] = "stamp" THEN now'[t]
                          ELSE IF pc'[t] = "unstamp" THEN Never ELSE cache_time'
           /\ absStats' =
                 [hits |-> stats'.hits + (IF pc'[t] \in Hitting THEN 1 ELSE 0),
                  misses |-> stats'.misses + (IF pc'[t] \in Refilling THEN 1 ELSE 0),
                  last_update |-> IF pc'[t] \in {"stamp", "update"} THEN now'[t]
                                                                   ELSE stats'.last_update]
<1>1. \A S \in SUBSET Inside : Somewhere(S)' <=> pc'[t] \in S
  BY DEF Alone, Somewhere
<1>2. pc'[t] \in Refilling => nowOfRefill' = now'[t]
  BY DEF nowOfRefill, Alone, Refilling, Inside
<1>3. /\ Somewhere(Hitting)' <=> pc'[t] \in Hitting
      /\ Somewhere(Refilling)' <=> pc'[t] \in Refilling
      /\ Somewhere({"stamp", "update"})' <=> pc'[t] \in {"stamp", "update"}
      /\ Somewhere({"stamp", "unstamp"})' <=> pc'[t] \in {"stamp", "unstamp"}
      /\ Somewhere({"stamp"})' <=> pc'[t] = "stamp"
      /\ Somewhere({"unstamp"})' <=> pc'[t] = "unstamp"
  BY <1>1 DEF Inside, Hitting, Refilling
<1> QED
  BY <1>2, <1>3 DEF absStamp, absStats, Count, Refilling

\* A thread inside is alone, and a step of its own leaves it so.
LEMMA InsideAlone ==
    ASSUME Excluding, EnableCaching, TypeOK, Mutex, NEW t \in Threads, pc[t] \in Inside
    PROVE  Alone(t)
BY Exclusive DEF Alone

\* A call changes the phase and the result of its own thread only.
LEMMA OwnThread ==
    ASSUME TypeOK, NEW t \in Threads, Alone(t),
           NEW l, pc' = [pc EXCEPT ![t] = l],
           NEW r, ret' = [ret EXCEPT ![t] = r]
    PROVE  /\ absPhase' = [absPhase EXCEPT ![t] = absPhase'[t]]
           /\ absRet' = [absRet EXCEPT ![t] = absRet'[t]]
           /\ l = "idle" => absPhase'[t] = "idle"
           /\ l \in Done => absPhase'[t] = "done"
           /\ l \notin Done \cup {"idle"} => absPhase'[t] = "open"
           /\ l \in Hitting \cup {"value"} => absRet'[t] = cached'
           /\ l \in Refilling => absRet'[t] = result'[t]
           /\ l \notin Hitting \cup {"value"} \cup Refilling => absRet'[t] = r
<1> USE DEF TypeOK
<1>1. pc'[t] = l /\ ret'[t] = r
  OBVIOUS
<1>2. \A u \in Threads \ {t} : /\ pc'[u] = pc[u] /\ ret'[u] = ret[u]
                               /\ pc[u] \in {"idle", "lock"}
  BY DEF Alone, Idle
<1>3. ASSUME NEW u \in Threads \ {t}
      PROVE  absPhase'[u] = absPhase[u] /\ absRet'[u] = absRet[u]
  BY <1>2 DEF absPhase, absRet, Done, Hitting, Refilling
<1>4. /\ absPhase = [u \in Threads |-> absPhase[u]]
      /\ absPhase' = [u \in Threads |-> absPhase'[u]]
      /\ absRet = [u \in Threads |-> absRet[u]]
      /\ absRet' = [u \in Threads |-> absRet'[u]]
  BY DEF absPhase, absRet
<1>5. /\ absPhase' = [absPhase EXCEPT ![t] = absPhase'[t]]
      /\ absRet' = [absRet EXCEPT ![t] = absRet'[t]]
  BY <1>3, <1>4
<1>6. /\ l = "idle" => absPhase'[t] = "idle"
      /\ l \in Done => absPhase'[t] = "done"
      /\ l \notin Done \cup {"idle"} => absPhase'[t] = "open"
  BY <1>1 DEF absPhase, Done, Hitting, Refilling
<1>7. /\ l \in Hitting \cup {"value"} => absRet'[t] = cached'
      /\ l \in Refilling => absRet'[t] = result'[t]
      /\ l \notin Hitting \cup {"value"} \cup Refilling => absRet'[t] = r
  BY <1>1 DEF absRet, Hitting, Refilling
<1> QED
  BY <1>5, <1>6, <1>7

-----------------------------------------------------------------------------
(* The steps of the thread inside.                                           *)

\* Steps that are internal: they write what the mapping shows already, or read.
LEMMA Internal ==
    ASSUME Excluding, EnableCaching, IInv, NEW t \in Threads,
           \/ LoadCounter(t) \/ BumpHit(t) \/ BumpMiss(t) \/ ReadValue(t)
           \/ ProbeOk(t) \/ Stamp(t) \/ UpdateTime(t) \/ Unstamp(t)
    PROVE  UNCHANGED Atomic!vars
<1> USE DEF Goto, object, environment, returned, locals, history
<1>0. /\ pc \in [Threads -> Idle \cup Inside]
      /\ ret \in [Threads -> Strings \cup {Thrown}]
      /\ stats \in [hits : Nat, misses : Nat, last_update : Nat]
      /\ TypeOK /\ Mutex
  BY DEF IInv, TypeOK, Stats
<1>1. pc[t] \in Inside
  BY DEF LoadCounter, BumpHit, BumpMiss, ReadValue, ProbeOk, Stamp, UpdateTime, Unstamp, Inside
<1>2. Alone(t)
  BY <1>0, <1>1, InsideAlone
<1>3. PICK l \in Inside : pc' = [pc EXCEPT ![t] = l]
  BY DEF LoadCounter, BumpHit, BumpMiss, ReadValue, ProbeOk, Stamp, UpdateTime, Unstamp, Inside
<1>4. Alone(t)' /\ pc'[t] = l
  BY <1>0, <1>2, <1>3 DEF Alone
<1>5. ret' = [ret EXCEPT ![t] = ret'[t]]
  BY <1>0 DEF LoadCounter, BumpHit, BumpMiss, ReadValue, ProbeOk, Stamp, UpdateTime, Unstamp
<1>6. Accounts /\ Knows(t)
  BY DEF IInv, Serial, Excluding
<1>7. UNCHANGED <<clock, hw, lastSeen, cached, op, looked, answer, copy>>
  BY DEF LoadCounter, BumpHit, BumpMiss, ReadValue, ProbeOk, Stamp, UpdateTime, Unstamp
<1>8. absPhase'[t] = absPhase[t] /\ absRet'[t] = absRet[t]
  <2> USE <1>0, <1>6 DEF absPhase, absRet, Done, Hitting, Refilling
  <2>1. CASE LoadCounter(t)
    BY <2>1 DEF LoadCounter
  <2>2. CASE BumpHit(t)
    BY <2>2 DEF BumpHit
  <2>3. CASE BumpMiss(t)
    BY <2>3 DEF BumpMiss
  <2>4. CASE ReadValue(t)
    BY <2>4 DEF ReadValue, Knows
  <2>5. CASE ProbeOk(t)
    BY <2>5 DEF ProbeOk
  <2>6. CASE Stamp(t)
    BY <2>6 DEF Stamp
  <2>7. CASE UpdateTime(t)
    BY <2>7 DEF UpdateTime
  <2>8. CASE Unstamp(t)
    BY <2>8 DEF Unstamp
  <2> QED
    BY <2>1, <2>2, <2>3, <2>4, <2>5, <2>6, <2>7, <2>8
<1>9. absPhase' = absPhase /\ absRet' = absRet
  <2>1. /\ absPhase' = [absPhase EXCEPT ![t] = absPhase'[t]]
        /\ absRet' = [absRet EXCEPT ![t] = absRet'[t]]
    BY <1>0, <1>2, <1>3, <1>5, OwnThread
  <2>2. /\ absPhase = [u \in Threads |-> absPhase[u]]
        /\ absRet = [u \in Threads |-> absRet[u]]
    BY DEF absPhase, absRet
  <2> QED
    BY <1>8, <2>1, <2>2
<1>10. absStamp' = absStamp /\ absStats' = absStats
  <2> USE <1>0 DEF Hitting, Refilling
  <2> HIDE DEF Goto
  <2>0. /\ pc[t] \in Inside /\ pc'[t] = l
        /\ absStamp = IF pc[t] = "stamp" THEN now[t]
                      ELSE IF pc[t] = "unstamp" THEN Never ELSE cache_time
        /\ absStamp' = IF l = "stamp" THEN now'[t]
                       ELSE IF l = "unstamp" THEN Never ELSE cache_time'
        /\ absStats =
              [hits |-> stats.hits + (IF pc[t] \in Hitting THEN 1 ELSE 0),
               misses |-> stats.misses + (IF pc[t] \in Refilling THEN 1 ELSE 0),
               last_update |-> IF pc[t] \in {"stamp", "update"} THEN now[t]
                                                               ELSE stats.last_update]
        /\ absStats' =
              [hits |-> stats'.hits + (IF l \in Hitting THEN 1 ELSE 0),
               misses |-> stats'.misses + (IF l \in Refilling THEN 1 ELSE 0),
               last_update |-> IF l \in {"stamp", "update"} THEN now'[t]
                                                           ELSE stats'.last_update]
    BY <1>1, <1>2, <1>4, Mapped, MappedNext
  <2>1. CASE LoadCounter(t)
    <3>1. \/ pc[t] = "load_hit" /\ l = "bump_hit"
          \/ pc[t] = "load_miss" /\ l = "bump_miss"
      BY <1>4, <2>1 DEF LoadCounter, Goto
    <3> QED
      BY <2>0, <2>1, <3>1 DEF LoadCounter
  <2>2. CASE BumpHit(t)
    <3>1. pc[t] = "bump_hit" /\ l = "value" /\ stats' = [stats EXCEPT !.hits = @ + 1]
      BY <1>4, <1>6, <2>2 DEF BumpHit, Goto, Accounts
    <3> QED
      BY <2>0, <2>2, <3>1 DEF BumpHit
  <2>3. CASE BumpMiss(t)
    <3>1. pc[t] = "bump_miss" /\ l = "ret" /\ stats' = [stats EXCEPT !.misses = @ + 1]
      BY <1>4, <1>6, <2>3 DEF BumpMiss, Goto, Accounts
    <3> QED
      BY <2>0, <2>3, <3>1 DEF BumpMiss
  <2>4. CASE ReadValue(t)
    <3>1. pc[t] = "value" /\ l = "ret"
      BY <1>4, <2>4 DEF ReadValue, Goto
    <3> QED
      BY <2>0, <2>4, <3>1 DEF ReadValue
  <2>5. CASE ProbeOk(t)
    <3>1. pc[t] = "probe" /\ l = "store"
      BY <1>4, <2>5 DEF ProbeOk, Goto
    <3> QED
      BY <2>0, <2>5, <3>1 DEF ProbeOk
  <2>6. CASE Stamp(t)
    <3>1. pc[t] = "stamp" /\ l = "update"
      BY <1>4, <2>6 DEF Stamp, Goto
    <3> QED
      BY <2>0, <2>6, <3>1 DEF Stamp
  <2>7. CASE UpdateTime(t)
    <3>1. pc[t] = "update" /\ l = "load_miss"
      BY <1>4, <2>7 DEF UpdateTime, Goto
    <3> QED
      BY <2>0, <2>7, <3>1 DEF UpdateTime
  <2>8. CASE Unstamp(t)
    <3>1. pc[t] = "unstamp" /\ l = "ret"
      BY <1>4, <2>8 DEF Unstamp, Goto
    <3> QED
      BY <2>0, <2>8, <3>1 DEF Unstamp
  <2> QED
    BY <2>1, <2>2, <2>3, <2>4, <2>5, <2>6, <2>7, <2>8
<1> QED
  BY <1>7, <1>9, <1>10 DEF Atomic!vars

\* Entering a method: the call begins.  Whoever is inside stays there, and what
\* the mapping shows of the members is that thread's affair.
LEMMA Enter ==
    ASSUME Excluding, EnableCaching, IInv, IInv', NEW t \in Threads, NEW o \in Ops,
           Call(t, o)
    PROVE  Atomic!Begin(t)
<1> USE DEF Goto, object, environment, returned, locals, history
<1>0. /\ pc \in [Threads -> Idle \cup Inside] /\ op \in [Threads -> Ops]
      /\ pc[t] = "idle" /\ TypeOK /\ Mutex
      /\ Mutex' /\ TypeOK'
  BY DEF IInv, TypeOK, Call
<1>1. PICK l \in {"lock", "now", "reset", "check", "copy"} : pc' = [pc EXCEPT ![t] = l]
  BY DEF Call, Body, Ops
<1>2. /\ absPhase' = [absPhase EXCEPT ![t] = "open"]
      /\ absPhase[t] = "idle"
      /\ absRet' = absRet
  <2>1. \A u \in Threads \ {t} : pc'[u] = pc[u]
    BY <1>0, <1>1
  <2>2. pc[t] = "idle" /\ pc'[t] = l
    BY <1>0, <1>1
  <2>3. UNCHANGED <<cached, result, ret>>
    BY DEF Call
  <2> QED
    BY <2>1, <2>2, <2>3 DEF absPhase, absRet, Done, Hitting, Refilling
<1>3. absStamp' = absStamp /\ absStats' = absStats
  <2>1. UNCHANGED <<now, cache_time, stats>>
    BY DEF Call
  <2>2. \A u \in Threads \ {t} : pc'[u] = pc[u]
    BY <1>0, <1>1
  <2>3. /\ pc[t] \notin Hitting \cup Refilling \cup {"unstamp"}
        /\ pc'[t] \notin Hitting \cup Refilling \cup {"unstamp"}
    BY <1>0, <1>1 DEF Hitting, Refilling
  <2>4. \A S \in SUBSET (Hitting \cup Refilling \cup {"unstamp"}) :
           Somewhere(S)' <=> Somewhere(S)
    BY <2>2, <2>3 DEF Somewhere
  <2>5. /\ Somewhere(Hitting)' <=> Somewhere(Hitting)
        /\ Somewhere(Refilling)' <=> Somewhere(Refilling)
        /\ Somewhere({"stamp", "update"})' <=> Somewhere({"stamp", "update"})
        /\ Somewhere({"stamp", "unstamp"})' <=> Somewhere({"stamp", "unstamp"})
        /\ Somewhere({"stamp"})' <=> Somewhere({"stamp"})
        /\ Somewhere({"unstamp"})' <=> Somewhere({"unstamp"})
    BY <2>4 DEF Hitting, Refilling
  <2>6. (CHOOSE u \in Threads : pc'[u] \in Refilling) = (CHOOSE u \in Threads : pc[u] \in Refilling)
    <3>1. \A u \in Threads : pc'[u] \in Refilling <=> pc[u] \in Refilling
      BY <2>2, <2>3
    <3> QED
      BY <3>1
  <2>7. nowOfRefill' = nowOfRefill
    BY <2>1, <2>6 DEF nowOfRefill
  <2>8. Count(Hitting)' = Count(Hitting) /\ Count(Refilling)' = Count(Refilling)
    BY <2>5 DEF Count
  <2>9. absStats' = absStats
    BY <2>1, <2>5, <2>7, <2>8 DEF absStats
  <2> QED
    BY <2>1, <2>5, <2>7, <2>9 DEF absStamp
<1>4. /\ op' = [op EXCEPT ![t] = o] /\ looked' = [looked EXCEPT ![t] = clock]
      /\ UNCHANGED <<clock, hw, lastSeen, cached, answer, copy>>
      /\ o \in {"get", "clear", "valid", "stats"}
  BY DEF Call, Ops
<1> QED
  BY <1>2, <1>3, <1>4 DEF Atomic!Begin, Atomic!environment, Atomic!memory

\* Taking the mutex: nobody was inside, and nothing shows.
LEMMA Enters ==
    ASSUME Excluding, EnableCaching, IInv, NEW t \in Threads, Acquire(t)
    PROVE  UNCHANGED Atomic!vars
<1> USE DEF Goto, object, environment, returned, locals, history
<1>0. /\ pc \in [Threads -> Idle \cup Inside] /\ op \in [Threads -> Ops]
      /\ ret \in [Threads -> Strings \cup {Thrown}]
      /\ pc[t] = "lock" /\ owner = NoThread /\ TypeOK /\ Mutex
  BY DEF IInv, TypeOK, Acquire
<1>1. PICK l \in {"now", "reset", "check", "copy"} : pc' = [pc EXCEPT ![t] = l]
  BY <1>0 DEF Acquire, Body, Ops
<1>2. Alone(t)
  <2>1. ASSUME NEW u \in Threads \ {t}, pc[u] \in Inside PROVE FALSE
    <3>1. ThreadSafe
      BY DEF Excluding, SingleCaller
    <3>2. NeedsLock(op[u])
      BY <3>1 DEF NeedsLock
    <3> QED
      BY <1>0, <2>1, <3>2, DistinctAssumption DEF Mutex
  <2> QED
    BY <2>1 DEF Alone
<1>3. Alone(t)'
  BY <1>0, <1>1, <1>2 DEF Alone
<1>4. UNCHANGED <<clock, hw, lastSeen, cached, cache_time, stats, now, result, ret,
                  op, looked, answer, copy>>
  BY DEF Acquire
<1>5. absStamp' = absStamp /\ absStats' = absStats
  <2>1. pc[t] = "lock" /\ pc'[t] = l
    BY <1>0, <1>1
  <2> QED
    BY <1>2, <1>3, <1>4, <2>1, Mapped, MappedNext DEF Hitting, Refilling
<1>6. absPhase' = absPhase /\ absRet' = absRet
  <2>1. \A u \in Threads \ {t} : pc'[u] = pc[u]
    BY <1>0, <1>1
  <2>2. pc[t] = "lock" /\ pc'[t] = l
    BY <1>0, <1>1
  <2> QED
    BY <1>4, <2>1, <2>2 DEF absPhase, absRet, Done, Hitting, Refilling
<1> QED
  BY <1>4, <1>5, <1>6 DEF Atomic!vars

\* The environment's steps.
LEMMA Outside ==
    ASSUME IInv, Tick \/ HardwareChange
    PROVE  Atomic!Environment
<1> USE DEF object, environment, returned, locals, history
<1>1. UNCHANGED <<pc, now, cached, cache_time, stats, result, ret, op, looked, answer, copy>>
  BY DEF Tick, HardwareChange
<1>2. UNCHANGED <<absStamp, absStats, absPhase, absRet>>
  BY <1>1 DEF absStamp, absStats, absPhase, absRet, Count, Somewhere, nowOfRefill
<1>3. /\ \/ clock' = clock + 1 /\ hw' = hw
         \/ clock' = clock /\ hw' \in Fingerprints
      /\ lastSeen' = [lastSeen EXCEPT ![hw'] = clock']
  BY DEF Tick, HardwareChange
<1> QED
  BY <1>1, <1>2, <1>3 DEF Atomic!Environment, Atomic!memory

-----------------------------------------------------------------------------
(* The steps at which a call takes effect.                                   *)

\* The thread goes from k to l and leaves r as its result.
Moves(t, k, l, r) ==
    /\ pc[t] = k
    /\ pc' = [pc EXCEPT ![t] = l]
    /\ ret' = [ret EXCEPT ![t] = r]

\* What the mapping shows before and after such a step of the thread inside.
LEMMA Effect ==
    ASSUME Excluding, EnableCaching, IInv, NEW t \in Threads,
           NEW k \in Inside, NEW l \in Idle \cup Inside, NEW r, Moves(t, k, l, r)
    PROVE  /\ absPhase[t] = IF k \in Done THEN "done" ELSE "open"
           /\ absPhase' = [absPhase EXCEPT ![t] =
                  IF l = "idle" THEN "idle" ELSE IF l \in Done THEN "done" ELSE "open"]
           /\ absRet[t] = IF k \in Hitting \cup {"value"} THEN cached
                          ELSE IF k \in Refilling THEN result[t] ELSE ret[t]
           /\ absRet' = [absRet EXCEPT ![t] =
                  IF l \in Hitting \cup {"value"} THEN cached'
                  ELSE IF l \in Refilling THEN result'[t] ELSE r]
           /\ absStamp = IF k = "stamp" THEN now[t]
                         ELSE IF k = "unstamp" THEN Never ELSE cache_time
           /\ absStamp' = IF l = "stamp" THEN now'[t]
                          ELSE IF l = "unstamp" THEN Never ELSE cache_time'
           /\ absStats =
                 [hits |-> stats.hits + (IF k \in Hitting THEN 1 ELSE 0),
                  misses |-> stats.misses + (IF k \in Refilling THEN 1 ELSE 0),
                  last_update |-> IF k \in {"stamp", "update"} THEN now[t]
                                                              ELSE stats.last_update]
           /\ absStats' =
                 [hits |-> stats'.hits + (IF l \in Hitting THEN 1 ELSE 0),
                  misses |-> stats'.misses + (IF l \in Refilling THEN 1 ELSE 0),
                  last_update |-> IF l \in {"stamp", "update"} THEN now'[t]
                                                              ELSE stats'.last_update]
<1> USE DEF Moves
<1>0. TypeOK /\ Mutex /\ pc \in [Threads -> Idle \cup Inside]
  BY DEF IInv, TypeOK
<1>1. Alone(t)
  BY <1>0, InsideAlone
<1>2. Alone(t)' /\ pc'[t] = l
  BY <1>0, <1>1 DEF Alone
<1>3. /\ absPhase[t] = IF k \in Done THEN "done" ELSE "open"
      /\ absRet[t] = IF k \in Hitting \cup {"value"} THEN cached
                     ELSE IF k \in Refilling THEN result[t] ELSE ret[t]
  BY DEF absPhase, absRet, Inside, Done, Hitting, Refilling
<1>4. /\ absPhase' = [absPhase EXCEPT ![t] = absPhase'[t]]
      /\ absRet' = [absRet EXCEPT ![t] = absRet'[t]]
      /\ absPhase'[t] = IF l = "idle" THEN "idle" ELSE IF l \in Done THEN "done" ELSE "open"
      /\ absRet'[t] = IF l \in Hitting \cup {"value"} THEN cached'
                      ELSE IF l \in Refilling THEN result'[t] ELSE r
  BY <1>0, <1>1, OwnThread
<1>5. /\ absStamp = IF k = "stamp" THEN now[t]
                    ELSE IF k = "unstamp" THEN Never ELSE cache_time
      /\ absStats =
            [hits |-> stats.hits + (IF k \in Hitting THEN 1 ELSE 0),
             misses |-> stats.misses + (IF k \in Refilling THEN 1 ELSE 0),
             last_update |-> IF k \in {"stamp", "update"} THEN now[t]
                                                         ELSE stats.last_update]
  BY <1>1, Mapped
<1>6. /\ absStamp' = IF l = "stamp" THEN now'[t]
                     ELSE IF l = "unstamp" THEN Never ELSE cache_time'
      /\ absStats' =
            [hits |-> stats'.hits + (IF l \in Hitting THEN 1 ELSE 0),
             misses |-> stats'.misses + (IF l \in Refilling THEN 1 ELSE 0),
             last_update |-> IF l \in {"stamp", "update"} THEN now'[t]
                                                         ELSE stats'.last_update]
  BY <1>2, MappedNext
<1> QED
  BY <1>3, <1>4, <1>5, <1>6

\* The clock read when the call has the mutex.
LEMMA Reading ==
    ASSUME Excluding, EnableCaching, IInv, NEW t \in Threads, ReadNow(t)
    PROVE  Atomic!Renew(t)
<1> USE DEF object, environment, returned, locals, history
<1>0. ret \in [Threads -> Strings \cup {Thrown}]
  BY DEF IInv, TypeOK
<1>1. /\ Moves(t, "now", "check", ret[t])
      /\ looked' = [looked EXCEPT ![t] = clock]
      /\ UNCHANGED <<clock, hw, lastSeen, cached, cache_time, stats, result, op, answer, copy>>
  BY <1>0 DEF ReadNow, Goto, Moves
<1>2. "now" \in Inside /\ "check" \in Idle \cup Inside
  BY DEF Inside
<1>3. /\ absPhase[t] = "open" /\ absPhase' = [absPhase EXCEPT ![t] = "open"]
      /\ absRet[t] = ret[t] /\ absRet' = [absRet EXCEPT ![t] = ret[t]]
  BY <1>1, <1>2, Effect DEF Done, Hitting, Refilling
<1>4. absStamp' = absStamp /\ absStats' = absStats
  BY <1>1, <1>2, Effect DEF Hitting, Refilling
<1>5. absPhase' = absPhase /\ absRet' = absRet
  <2>1. /\ absPhase = [u \in Threads |-> absPhase[u]]
        /\ absRet = [u \in Threads |-> absRet[u]]
    BY DEF absPhase, absRet
  <2> QED
    BY <1>3, <2>1
<1> QED
  BY <1>1, <1>3, <1>4, <1>5 DEF Atomic!Renew, Atomic!environment, Atomic!memory

\* The first half of the test: an empty optional answers is_cache_valid.
LEMMA Testing ==
    ASSUME Excluding, EnableCaching, IInv, NEW t \in Threads, CheckValue(t)
    PROVE  Atomic!Valid(t) \/ UNCHANGED Atomic!vars
<1> USE DEF object, environment, returned, locals, history
<1>0. /\ ret \in [Threads -> Strings \cup {Thrown}] /\ answer \in [Threads -> BOOLEAN]
      /\ looked \in [Threads -> Nat]
      /\ pc[t] = "check" /\ ~answer[t]
  BY DEF IInv, TypeOK, Knows, CheckValue
<1>1. UNCHANGED <<clock, hw, lastSeen, cached, cache_time, stats, result, op, looked, answer, copy>>
  BY DEF CheckValue
<1>2. "check" \in Inside /\ {"expiry", "ret", "probe"} \subseteq Inside
  BY DEF Inside
<1>3. \/ Moves(t, "check", "expiry", ret[t])
      \/ Moves(t, "check", "probe", ret[t])
      \/ Moves(t, "check", "ret", ret[t]) /\ cached = NoValue /\ op[t] = "valid"
  BY <1>0, <1>1 DEF CheckValue, Goto, Moves
<1>4. /\ absPhase = [u \in Threads |-> absPhase[u]]
      /\ absRet = [u \in Threads |-> absRet[u]]
  BY DEF absPhase, absRet
<1>5. ASSUME NEW l \in {"expiry", "probe"}, Moves(t, "check", l, ret[t])
      PROVE  UNCHANGED Atomic!vars
  <2>1. /\ absPhase[t] = "open" /\ absPhase' = [absPhase EXCEPT ![t] = "open"]
        /\ absRet[t] = ret[t] /\ absRet' = [absRet EXCEPT ![t] = ret[t]]
    BY <1>2, <1>5, Effect DEF Done, Hitting, Refilling
  <2>2. absStamp' = absStamp /\ absStats' = absStats
    BY <1>1, <1>2, <1>5, Effect DEF Hitting, Refilling
  <2> QED
    BY <1>1, <1>4, <2>1, <2>2 DEF Atomic!vars
<1>6. CASE Moves(t, "check", "ret", ret[t]) /\ cached = NoValue /\ op[t] = "valid"
  <2>1. /\ absPhase[t] = "open" /\ absPhase' = [absPhase EXCEPT ![t] = "done"]
        /\ absRet[t] = ret[t] /\ absRet' = [absRet EXCEPT ![t] = ret[t]]
    BY <1>2, <1>6, Effect DEF Done, Hitting, Refilling
  <2>2. absStamp' = absStamp /\ absStats' = absStats
    BY <1>1, <1>2, <1>6, Effect DEF Hitting, Refilling
  <2>3. answer' = [answer EXCEPT ![t] = FALSE] /\ looked' = [looked EXCEPT ![t] = @]
    BY <1>0, <1>1
  <2>4. absRet' = absRet
    BY <1>4, <2>1
  <2> QED
    BY <1>1, <1>6, <2>1, <2>2, <2>3, <2>4
       DEF Atomic!Valid, Atomic!TakesEffect, Atomic!Useful, Atomic!environment, Atomic!memory
<1> QED
  BY <1>3, <1>5, <1>6

\* The second half, which decides between a hit, a refill and the two answers of
\* is_cache_valid.
LEMMA Judging ==
    ASSUME Excluding, EnableCaching, IInv, NEW t \in Threads, CheckExpiry(t)
    PROVE  Atomic!Valid(t) \/ Atomic!Renew(t) \/ Atomic!Hit(t)
<1> USE DEF object, environment, returned, locals, history
<1>0. /\ ret \in [Threads -> Strings \cup {Thrown}] /\ answer \in [Threads -> BOOLEAN]
      /\ cached \in Strings /\ stats \in [hits : Nat, misses : Nat, last_update : Nat]
      /\ clock \in Nat /\ cache_time \in Nat \cup {Never}
      /\ pc[t] = "expiry" /\ ~answer[t] /\ cached # NoValue /\ cache_time # Never
      /\ TypeOK /\ Mutex
  BY DEF IInv, TypeOK, Stats, Knows, CheckExpiry
<1>1. op[t] \in {"get", "valid"}
  BY <1>0, MethodOf
<1>2. PICK expired \in BOOLEAN :
         /\ expired <=> clock - cache_time > Lifetime
         /\ \/ op[t] = "valid" /\ pc' = [pc EXCEPT ![t] = "ret"]
            \/ op[t] = "get" /\ expired /\ pc' = [pc EXCEPT ![t] = "probe"]
            \/ op[t] = "get" /\ ~expired /\ pc' = [pc EXCEPT ![t] = "load_hit"]
         /\ answer' = [answer EXCEPT ![t] = op[t] = "valid" /\ ~expired]
  BY <1>0, <1>1 DEF CheckExpiry, is_cache_expired, Goto
<1>3. /\ looked' = [looked EXCEPT ![t] = clock]
      /\ ret' = [ret EXCEPT ![t] = ret[t]]
      /\ UNCHANGED <<clock, hw, lastSeen, cached, cache_time, stats, result, op, copy>>
  BY <1>0 DEF CheckExpiry
<1>4. "expiry" \in Inside /\ {"load_hit", "ret", "probe"} \subseteq Inside
  BY DEF Inside
<1>5. /\ absPhase = [u \in Threads |-> absPhase[u]]
      /\ absRet = [u \in Threads |-> absRet[u]]
  BY DEF absPhase, absRet
<1>6. CASE op[t] = "valid"
  <2>1. Moves(t, "expiry", "ret", ret[t])
    BY <1>0, <1>2, <1>3, <1>6 DEF Moves
  <2>2. /\ absPhase[t] = "open" /\ absPhase' = [absPhase EXCEPT ![t] = "done"]
        /\ absRet[t] = ret[t] /\ absRet' = [absRet EXCEPT ![t] = ret[t]]
    BY <1>4, <2>1, Effect DEF Done, Hitting, Refilling
  <2>3. absStamp' = absStamp /\ absStats' = absStats /\ absStamp = cache_time
    BY <1>3, <1>4, <2>1, Effect DEF Hitting, Refilling
  <2>4. absRet' = absRet
    BY <1>5, <2>2
  <2>5. Atomic!Useful <=> ~expired
    BY <1>0, <1>2, <2>3, ConfigAssumption DEF Atomic!Useful, Never
  <2>6. answer' = [answer EXCEPT ![t] = Atomic!Useful]
    <3>1. CASE expired
      BY <1>2, <1>6, <2>5, <3>1
    <3>2. CASE ~expired
      BY <1>2, <1>6, <2>5, <3>2
    <3> QED
      BY <3>1, <3>2
  <2>7. looked' = [looked EXCEPT ![t] = IF cached = NoValue THEN @ ELSE clock]
    BY <1>0, <1>3
  <2> QED
    BY <1>3, <1>6, <2>2, <2>3, <2>4, <2>6, <2>7
       DEF Atomic!Valid, Atomic!TakesEffect, Atomic!environment, Atomic!memory
<1>7. CASE op[t] = "get" /\ expired
  <2>1. Moves(t, "expiry", "probe", ret[t])
    BY <1>0, <1>2, <1>3, <1>7 DEF Moves
  <2>2. /\ absPhase[t] = "open" /\ absPhase' = [absPhase EXCEPT ![t] = "open"]
        /\ absRet[t] = ret[t] /\ absRet' = [absRet EXCEPT ![t] = ret[t]]
    BY <1>4, <2>1, Effect DEF Done, Hitting, Refilling
  <2>3. absStamp' = absStamp /\ absStats' = absStats
    BY <1>3, <1>4, <2>1, Effect DEF Hitting, Refilling
  <2>4. absPhase' = absPhase /\ absRet' = absRet
    BY <1>5, <2>2
  <2>5. answer' = answer
    BY <1>0, <1>2, <1>7
  <2> QED
    BY <1>3, <2>2, <2>3, <2>4, <2>5 DEF Atomic!Renew, Atomic!environment, Atomic!memory
<1>8. CASE op[t] = "get" /\ ~expired
  <2>1. Moves(t, "expiry", "load_hit", ret[t])
    BY <1>0, <1>2, <1>3, <1>8 DEF Moves
  <2>2. /\ absPhase[t] = "open" /\ absPhase' = [absPhase EXCEPT ![t] = "done"]
        /\ absRet' = [absRet EXCEPT ![t] = cached]
    BY <1>3, <1>4, <2>1, Effect DEF Done, Hitting, Refilling
  <2>3. absStamp' = absStamp /\ absStamp = cache_time
    BY <1>3, <1>4, <2>1, Effect
  <2>4. /\ absStats = [hits |-> stats.hits, misses |-> stats.misses,
                       last_update |-> stats.last_update]
        /\ absStats' = [hits |-> stats.hits + 1, misses |-> stats.misses,
                        last_update |-> stats.last_update]
    BY <1>0, <1>3, <1>4, <2>1, Effect DEF Hitting, Refilling
  <2>5. absStats' = [absStats EXCEPT !.hits = @ + 1]
    BY <2>4
  <2>6. answer' = answer
    BY <1>0, <1>2, <1>8
  <2>7. Atomic!Useful
    BY <1>0, <1>2, <1>8, <2>3, ConfigAssumption DEF Atomic!Useful, Never
  <2> QED
    BY <1>3, <1>8, <2>2, <2>3, <2>5, <2>6, <2>7
       DEF Atomic!Hit, Atomic!TakesEffect, Atomic!environment
<1> QED
  BY <1>1, <1>6, <1>7, <1>8

\* A probe that throws, when the cache is of no use.
LEMMA Failing ==
    ASSUME Excluding, EnableCaching, IInv, NEW t \in Threads, ProbeFail(t)
    PROVE  Atomic!Fail(t)
<1> USE DEF object, environment, returned, locals, history
<1>0. /\ ret \in [Threads -> Strings \cup {Thrown}]
      /\ looked[t] \in Nat /\ clock \in Nat /\ cache_time \in Nat \cup {Never}
      /\ looked[t] <= clock /\ pc[t] = "probe" /\ TypeOK /\ Mutex
      /\ cached = NoValue \/ looked[t] - cache_time > Lifetime
  BY DEF IInv, TypeOK, Knows, Times, ProbeFail
<1>1. op[t] = "get"
  BY <1>0, MethodOf
<1>2. /\ Moves(t, "probe", "ret", Thrown)
      /\ UNCHANGED <<clock, hw, lastSeen, cached, cache_time, stats, op, looked, answer, copy>>
  BY <1>0 DEF ProbeFail, Goto, Moves
<1>3. "probe" \in Inside /\ "ret" \in Inside
  BY DEF Inside
<1>4. /\ absPhase[t] = "open" /\ absPhase' = [absPhase EXCEPT ![t] = "done"]
      /\ absRet' = [absRet EXCEPT ![t] = Thrown]
  BY <1>2, <1>3, Effect DEF Done, Hitting, Refilling
<1>5. absStamp' = absStamp /\ absStats' = absStats /\ absStamp = cache_time
  BY <1>2, <1>3, Effect DEF Hitting, Refilling
<1>6. ~Atomic!Useful
  BY <1>0, <1>5, ConfigAssumption DEF Atomic!Useful, Never
<1> QED
  BY <1>1, <1>2, <1>4, <1>5, <1>6
     DEF Atomic!Fail, Atomic!TakesEffect, Atomic!environment, Atomic!memory

\* The assignment of the optional, with which a refill takes effect.
LEMMA Storage ==
    ASSUME Excluding, EnableCaching, IInv, NEW t \in Threads, Store(t)
    PROVE  Atomic!Refill(t)
<1> USE DEF object, environment, returned, locals, history
<1>0. /\ ret \in [Threads -> Strings \cup {Thrown}] /\ result[t] \in Strings
      /\ stats \in [hits : Nat, misses : Nat, last_update : Nat]
      /\ looked[t] \in Nat /\ now[t] \in Nat /\ clock \in Nat
      /\ cache_time \in Nat \cup {Never}
      /\ now[t] <= looked[t] /\ looked[t] <= clock
      /\ pc[t] = "store" /\ TypeOK /\ Mutex
      /\ cached = NoValue \/ looked[t] - cache_time > Lifetime
      /\ result[t] # NoValue /\ lastSeen[result[t]] >= looked[t]
  BY DEF IInv, TypeOK, Stats, Knows, Times, Store, Storing
<1>1. op[t] = "get"
  BY <1>0, MethodOf
<1>2. result[t] \in Fingerprints /\ cache_time <= now[t]
  BY <1>0, <1>1 DEF Strings, IInv, Knows
<1>3. /\ Moves(t, "store", "stamp", ret[t])
      /\ cached' = result[t]
      /\ UNCHANGED <<clock, hw, lastSeen, cache_time, stats, op, now, looked, result, answer, copy>>
  BY <1>0 DEF Store, Goto, Moves
<1>4. "store" \in Inside /\ "stamp" \in Inside
  BY DEF Inside
<1>5. /\ absPhase[t] = "open" /\ absPhase' = [absPhase EXCEPT ![t] = "done"]
      /\ absRet' = [absRet EXCEPT ![t] = result[t]]
  BY <1>3, <1>4, Effect DEF Done, Hitting, Refilling
<1>6. absStamp = cache_time /\ absStamp' = now[t]
  BY <1>3, <1>4, Effect
<1>7. /\ absStats = [hits |-> stats.hits, misses |-> stats.misses,
                     last_update |-> stats.last_update]
      /\ absStats' = [hits |-> stats.hits, misses |-> stats.misses + 1,
                      last_update |-> now[t]]
  BY <1>0, <1>3, <1>4, Effect DEF Hitting, Refilling
<1>8. absStats' = [hits |-> absStats.hits, misses |-> absStats.misses + 1,
                   last_update |-> absStamp']
  BY <1>6, <1>7
<1>9. ~Atomic!Useful
  BY <1>0, <1>6, ConfigAssumption DEF Atomic!Useful, Never
<1>10. absStamp' \in Nat /\ absStamp <= absStamp' /\ absStamp' <= looked[t]
  BY <1>0, <1>2, <1>6
<1>11. Atomic!TakesEffect(t, "get")
  BY <1>1, <1>3, <1>5 DEF Atomic!TakesEffect, Atomic!environment
<1> QED
  BY <1>0, <1>2, <1>3, <1>5, <1>8, <1>9, <1>10, <1>11 DEF Atomic!Refill

\* clear_cache takes effect when the optional is reset.
LEMMA Resetting ==
    ASSUME Excluding, EnableCaching, IInv, NEW t \in Threads, Reset(t)
    PROVE  Atomic!Clear(t)
<1> USE DEF object, environment, returned, locals, history
<1>0. /\ ret \in [Threads -> Strings \cup {Thrown}]
      /\ pc[t] = "reset" /\ TypeOK /\ Mutex
  BY DEF IInv, TypeOK, Reset
<1>1. op[t] = "clear"
  BY <1>0, MethodOf
<1>2. /\ Moves(t, "reset", "unstamp", ret[t])
      /\ cached' = NoValue
      /\ UNCHANGED <<clock, hw, lastSeen, cache_time, stats, op, looked, answer, copy>>
  BY <1>0 DEF Reset, Goto, Moves
<1>3. "reset" \in Inside /\ "unstamp" \in Inside
  BY DEF Inside
<1>4. /\ absPhase[t] = "open" /\ absPhase' = [absPhase EXCEPT ![t] = "done"]
      /\ absRet[t] = ret[t] /\ absRet' = [absRet EXCEPT ![t] = ret[t]]
  BY <1>2, <1>3, Effect DEF Done, Hitting, Refilling
<1>5. absStamp' = Never /\ absStats' = absStats
  BY <1>2, <1>3, Effect DEF Hitting, Refilling
<1>6. absRet' = absRet
  <2>1. absRet = [u \in Threads |-> absRet[u]]
    BY DEF absRet
  <2> QED
    BY <1>4, <2>1
<1> QED
  BY <1>1, <1>2, <1>4, <1>5, <1>6
     DEF Atomic!Clear, Atomic!TakesEffect, Atomic!environment, Atomic!Never, Never

\* get_cache_stats takes effect with its copy.
LEMMA Copying ==
    ASSUME Excluding, EnableCaching, IInv, NEW t \in Threads, CopyStats(t)
    PROVE  Atomic!Snapshot(t)
<1> USE DEF object, environment, returned, locals, history
<1>0. /\ ret \in [Threads -> Strings \cup {Thrown}]
      /\ stats \in [hits : Nat, misses : Nat, last_update : Nat]
      /\ pc[t] = "copy" /\ TypeOK /\ Mutex
  BY DEF IInv, TypeOK, Stats, CopyStats
<1>1. op[t] = "stats"
  BY <1>0, MethodOf
<1>2. /\ Moves(t, "copy", "ret", ret[t])
      /\ copy' = [copy EXCEPT ![t] = stats]
      /\ UNCHANGED <<clock, hw, lastSeen, cached, cache_time, stats, op, looked, answer>>
  BY <1>0 DEF CopyStats, Goto, Moves
<1>3. "copy" \in Inside /\ "ret" \in Inside
  BY DEF Inside
<1>4. /\ absPhase[t] = "open" /\ absPhase' = [absPhase EXCEPT ![t] = "done"]
      /\ absRet[t] = ret[t] /\ absRet' = [absRet EXCEPT ![t] = ret[t]]
  BY <1>2, <1>3, Effect DEF Done, Hitting, Refilling
<1>5. /\ absStamp' = absStamp /\ absStats' = absStats
      /\ absStats = [hits |-> stats.hits, misses |-> stats.misses,
                     last_update |-> stats.last_update]
  BY <1>0, <1>2, <1>3, Effect DEF Hitting, Refilling
<1>6. absStats = stats
  BY <1>0, <1>5
<1>7. absRet' = absRet
  <2>1. absRet = [u \in Threads |-> absRet[u]]
    BY DEF absRet
  <2> QED
    BY <1>4, <2>1
<1> QED
  BY <1>1, <1>2, <1>4, <1>5, <1>6, <1>7
     DEF Atomic!Snapshot, Atomic!TakesEffect, Atomic!environment, Atomic!memory

\* Leaving a method: the call ends.
LEMMA Leaving ==
    ASSUME Excluding, EnableCaching, IInv, NEW t \in Threads, Return(t)
    PROVE  Atomic!End(t)
<1> USE DEF object, environment, returned, locals, history
<1>1. /\ Moves(t, "ret", "idle", NoValue)
      /\ op' = [op EXCEPT ![t] = "get"] /\ looked' = [looked EXCEPT ![t] = 0]
      /\ answer' = [answer EXCEPT ![t] = FALSE] /\ copy' = [copy EXCEPT ![t] = NoStats]
      /\ UNCHANGED <<clock, hw, lastSeen, cached, cache_time, stats>>
  BY DEF Return, Goto, Moves
<1>2. "ret" \in Inside /\ "idle" \in Idle \cup Inside
  BY DEF Idle, Inside
<1>3. /\ absPhase[t] = "done" /\ absPhase' = [absPhase EXCEPT ![t] = "idle"]
      /\ absRet' = [absRet EXCEPT ![t] = NoValue]
  BY <1>1, <1>2, Effect DEF Done, Hitting, Refilling
<1>4. absStamp' = absStamp /\ absStats' = absStats
  BY <1>1, <1>2, Effect DEF Hitting, Refilling
<1> QED
  BY <1>1, <1>3, <1>4
     DEF Atomic!End, Atomic!environment, Atomic!memory, Atomic!NoStats, NoStats, Epoch

-----------------------------------------------------------------------------
\* The initial states are initial states of AtomicCache.
LEMMA Starting == Init => Atomic!Init
<1> SUFFICES ASSUME Init PROVE Atomic!Init
  OBVIOUS
<1>1. \A t \in Threads : pc[t] = "idle" /\ ret[t] = NoValue
  BY DEF Init
<1>2. \A S \in SUBSET Inside : ~Somewhere(S)
  BY <1>1 DEF Somewhere, Inside
<1>3. /\ ~Somewhere(Hitting) /\ ~Somewhere(Refilling)
      /\ ~Somewhere({"stamp", "update"})
      /\ ~Somewhere({"stamp"}) /\ ~Somewhere({"unstamp"})
  BY <1>2 DEF Hitting, Refilling, Inside
<1>4. absStamp = cache_time
  BY <1>3 DEF absStamp
<1>5. absStats = [hits |-> 0, misses |-> 0, last_update |-> 0]
  BY <1>3 DEF absStats, Count, Init, NoStats, Epoch
<1>6. absPhase = [t \in Threads |-> "idle"]
  BY <1>1 DEF absPhase, Done, Hitting, Refilling
<1>7. absRet = [t \in Threads |-> NoValue]
  BY <1>1 DEF absRet, Hitting, Refilling
<1> QED
  BY <1>4, <1>5, <1>6, <1>7
     DEF Init, Atomic!Init, Atomic!Never, Atomic!NoStats, NoStats, Epoch, Never

\* Every step of the cache is a step of AtomicCache, or none.
LEMMA Implements ==
    ASSUME Excluding, EnableCaching, IInv, IInv', [Next]_vars
    PROVE  [Atomic!Next]_(Atomic!vars)
<1>1. CASE Tick \/ HardwareChange
  BY <1>1, Outside DEF Atomic!Next
<1>2. ASSUME NEW t \in Threads, NEW o \in Ops, Call(t, o)
      PROVE  Atomic!Next
  BY <1>2, Enter DEF Atomic!Next
<1>3. ASSUME NEW t \in Threads, ThreadStep(t)
      PROVE  [Atomic!Next]_(Atomic!vars)
  <2>1. CASE Acquire(t)
    BY <2>1, Enters
  <2>2. CASE \/ LoadCounter(t) \/ BumpHit(t) \/ BumpMiss(t) \/ ReadValue(t)
             \/ ProbeOk(t) \/ Stamp(t) \/ UpdateTime(t) \/ Unstamp(t)
    BY <2>2, Internal
  <2>3. CASE ReadNow(t)
    BY <2>3, Reading DEF Atomic!Next
  <2>4. CASE CheckValue(t)
    BY <2>4, Testing DEF Atomic!Next
  <2>5. CASE CheckExpiry(t)
    BY <2>5, Judging DEF Atomic!Next
  <2>6. CASE ProbeFail(t)
    BY <2>6, Failing DEF Atomic!Next
  <2>7. CASE Store(t)
    BY <2>7, Storage DEF Atomic!Next
  <2>8. CASE Reset(t)
    BY <2>8, Resetting DEF Atomic!Next
  <2>9. CASE CopyStats(t)
    BY <2>9, Copying DEF Atomic!Next
  <2>10. CASE Return(t)
    BY <2>10, Leaving DEF Atomic!Next
  <2> QED
    BY <1>3, <2>1, <2>2, <2>3, <2>4, <2>5, <2>6, <2>7, <2>8, <2>9, <2>10 DEF ThreadStep
<1>4. CASE UNCHANGED vars
  <2>1. UNCHANGED <<absStamp, absStats, absPhase, absRet>>
    BY <1>4 DEF vars, absStamp, absStats, absPhase, absRet, Count, Somewhere, nowOfRefill
  <2> QED
    BY <1>4, <2>1 DEF vars, Atomic!vars
<1> QED
  BY <1>1, <1>2, <1>3, <1>4 DEF Next

\* With caching, and the mutex or a single caller, each call takes effect at one
\* instant between its start and its return, for any threads and any lifetime.
THEOREM Refinement ==
    ASSUME Excluding, EnableCaching
    PROVE  Spec => Linearizable
<1>1. IInv /\ IInv' /\ [Next]_vars => [Atomic!Next]_(Atomic!vars)
  BY Implements
<1>2. Spec => []IInv
  BY Invariance
<1> QED
  BY <1>1, <1>2, Starting, PTL DEF Spec, Linearizable, Atomic!Spec
=============================================================================
