----------------------- MODULE FingerprintCacheProofs -----------------------
(***************************************************************************)
(* Proofs about FingerprintCache, for any set of threads and fingerprints,   *)
(* any lifetime and any bounds.                                              *)
(***************************************************************************)
EXTENDS FingerprintCache, FiniteSetTheorems, TLAPS

USE ConfigAssumption, BoundsAssumption, DistinctAssumption

\* The type invariant is inductive on its own, whatever the configuration.
LEMMA TypingStep == TypeOK /\ [Next]_vars => TypeOK'
<1> USE DEF TypeOK, Strings, Stats, Ops, Idle, Inside, Never, Epoch, NoStats,
            Goto, object, environment, returned, locals, history
<1> SUFFICES ASSUME TypeOK, [Next]_vars PROVE TypeOK'
  OBVIOUS
<1>1. CASE Tick
  BY <1>1 DEF Tick
<1>2. CASE HardwareChange
  BY <1>2 DEF HardwareChange
<1>3. ASSUME NEW t \in Threads, NEW o \in Ops, Call(t, o) PROVE TypeOK'
  BY <1>3 DEF Call, Body, NeedsLock
<1>4. ASSUME NEW t \in Threads, ThreadStep(t) PROVE TypeOK'
  <2>1. CASE Acquire(t)
    BY <2>1 DEF Acquire, Body
  <2>2. CASE ReadNow(t)
    BY <2>2 DEF ReadNow
  <2>3. CASE CheckValue(t)
    BY <2>3 DEF CheckValue
  <2>4. CASE CheckExpiry(t)
    BY <2>4 DEF CheckExpiry, is_cache_expired
  <2>5. CASE LoadCounter(t)
    BY <2>5 DEF LoadCounter
  <2>6. CASE BumpHit(t)
    BY <2>6, SMTT(30) DEF BumpHit
  <2>7. CASE BumpMiss(t)
    <3>1. stats' \in Stats
      BY <2>7 DEF BumpMiss
    <3>2. CASE EnableCaching
      BY <2>7, <3>1, <3>2, ZenonT(40) DEF BumpMiss
    <3>3. CASE ~EnableCaching
      BY <2>7, <3>1, <3>3 DEF BumpMiss
    <3> QED
      BY <3>2, <3>3
  <2>8. CASE ReadValue(t)
    BY <2>8 DEF ReadValue
  <2>9. CASE ProbeOk(t)
    BY <2>9 DEF ProbeOk
  <2>10. CASE ProbeFail(t)
    BY <2>10 DEF ProbeFail
  <2>11. CASE Store(t)
    BY <2>11 DEF Store
  <2>12. CASE Stamp(t)
    BY <2>12 DEF Stamp
  <2>13. CASE UpdateTime(t)
    BY <2>13 DEF UpdateTime
  <2>14. CASE Reset(t)
    BY <2>14 DEF Reset
  <2>15. CASE Unstamp(t)
    BY <2>15 DEF Unstamp
  <2>16. CASE CopyStats(t)
    BY <2>16 DEF CopyStats
  <2>17. CASE Return(t)
    BY <2>17 DEF Return
  <2> QED
    BY <1>4, <2>1, <2>2, <2>3, <2>4, <2>5, <2>6, <2>7, <2>8, <2>9, <2>10,
       <2>11, <2>12, <2>13, <2>14, <2>15, <2>16, <2>17 DEF ThreadStep
<1>5. CASE UNCHANGED vars
  BY <1>5 DEF vars
<1> QED
  BY <1>1, <1>2, <1>3, <1>4, <1>5 DEF Next

\* The detector as it is constructed.
LEMMA TypingInit == Init => TypeOK
BY DEF Init, TypeOK, Strings, Stats, Ops, Idle, Inside, Never, Epoch, NoStats

\* Type correctness of the cache, its counters and every call in progress.
THEOREM Typing == Spec => []TypeOK
<1>1. Init => TypeOK
  BY TypingInit
<1>2. TypeOK /\ [Next]_vars => TypeOK'
  BY TypingStep
<1> QED
  BY <1>1, <1>2, PTL DEF Spec

-----------------------------------------------------------------------------
(* Mutual exclusion.                                                         *)

\* Nobody holds the mutex of a new detector.
LEMMA MutexInit == Init => Mutex
<1> SUFFICES ASSUME Init, NEW t \in Threads
             PROVE  /\ pc[t] \in Idle \cup Labels(op[t])
                    /\ pc[t] = "lock" => NeedsLock(op[t])
                    /\ owner = t <=> pc[t] \in Inside /\ NeedsLock(op[t])
  BY DEF Mutex
<1>1. pc[t] = "idle" /\ owner # t
  BY DEF Init
<1> QED
  BY <1>1 DEF Idle, Inside

\* Only the holder of the mutex is inside, whatever step is taken.
LEMMA MutexStep == TypeOK /\ Mutex /\ [Next]_vars => Mutex'
<1> USE DEF Idle, Inside, Ops, Labels, NeedsLock,
            Goto, object, environment, returned, locals, history
<1> SUFFICES ASSUME TypeOK, Mutex, [Next]_vars PROVE Mutex'
  OBVIOUS
<1>0. /\ pc \in [Threads -> Idle \cup Inside]
      /\ op \in [Threads -> Ops]
      /\ owner \in Threads \cup {NoThread}
  BY DEF TypeOK
<1>1. CASE Tick
  BY <1>1 DEF Tick, Mutex
<1>2. CASE HardwareChange
  BY <1>2 DEF HardwareChange, Mutex
<1>3. ASSUME NEW t \in Threads, NEW o \in Ops, Call(t, o) PROVE Mutex'
  BY <1>0, <1>3 DEF Call, Body, Mutex
<1>4. ASSUME NEW t \in Threads, ThreadStep(t) PROVE Mutex'
  <2>1. CASE Acquire(t)
    BY <1>0, <2>1 DEF Acquire, Body, Mutex
  <2>2. CASE ReadNow(t)
    BY <1>0, <2>2 DEF ReadNow, Mutex
  <2>3. CASE CheckValue(t)
    BY <1>0, <2>3 DEF CheckValue, Mutex
  <2>4. CASE CheckExpiry(t)
    BY <1>0, <2>4 DEF CheckExpiry, Mutex
  <2>5. CASE LoadCounter(t)
    BY <1>0, <2>5 DEF LoadCounter, Mutex
  <2>6. CASE BumpHit(t)
    BY <1>0, <2>6 DEF BumpHit, Mutex
  <2>7. CASE BumpMiss(t)
    BY <1>0, <2>7 DEF BumpMiss, Mutex
  <2>8. CASE ReadValue(t)
    BY <1>0, <2>8 DEF ReadValue, Mutex
  <2>9. CASE ProbeOk(t)
    BY <1>0, <2>9 DEF ProbeOk, Mutex
  <2>10. CASE ProbeFail(t)
    BY <1>0, <2>10 DEF ProbeFail, Mutex
  <2>11. CASE Store(t)
    BY <1>0, <2>11 DEF Store, Mutex
  <2>12. CASE Stamp(t)
    BY <1>0, <2>12 DEF Stamp, Mutex
  <2>13. CASE UpdateTime(t)
    BY <1>0, <2>13 DEF UpdateTime, Mutex
  <2>14. CASE Reset(t)
    BY <1>0, <2>14 DEF Reset, Mutex
  <2>15. CASE Unstamp(t)
    BY <1>0, <2>15 DEF Unstamp, Mutex
  <2>16. CASE CopyStats(t)
    BY <1>0, <2>16 DEF CopyStats, Mutex
  <2>17. CASE Return(t)
    BY <1>0, <2>17 DEF Return, Mutex
  <2> QED
    BY <1>4, <2>1, <2>2, <2>3, <2>4, <2>5, <2>6, <2>7, <2>8, <2>9, <2>10,
       <2>11, <2>12, <2>13, <2>14, <2>15, <2>16, <2>17 DEF ThreadStep
<1>5. CASE UNCHANGED vars
  BY <1>5 DEF vars, Mutex
<1> QED
  BY <1>1, <1>2, <1>3, <1>4, <1>5 DEF Next

-----------------------------------------------------------------------------
(* Recorded times.                                                           *)

\* A new detector has recorded no time.
LEMMA TimesInit == Init => Times
BY DEF Init, Times, Never

\* No recorded time lies in the future, whatever step is taken.
LEMMA TimesStep == TypeOK /\ Times /\ [Next]_vars => Times'
<1> USE DEF Never, object, environment, returned, locals, history
<1> SUFFICES ASSUME TypeOK, Times, [Next]_vars PROVE Times'
  OBVIOUS
<1>0. /\ clock \in Nat
      /\ cache_time \in Nat \cup {Never}
      /\ hw \in Fingerprints
      /\ lastSeen \in [Fingerprints -> Nat]
      /\ now \in [Threads -> Nat]
      /\ looked \in [Threads -> Nat]
  BY DEF TypeOK
<1>1. CASE Tick
  BY <1>0, <1>1 DEF Tick, Times
<1>2. CASE HardwareChange
  BY <1>0, <1>2 DEF HardwareChange, Times
<1>3. ASSUME NEW t \in Threads, NEW o \in Ops, Call(t, o) PROVE Times'
  BY <1>0, <1>3 DEF Call, Times
<1>4. ASSUME NEW t \in Threads, ThreadStep(t) PROVE Times'
  <2>1. CASE ReadNow(t)
    BY <1>0, <2>1 DEF ReadNow, Times
  <2>2. CASE CheckExpiry(t)
    BY <1>0, <2>2 DEF CheckExpiry, Times
  <2>3. CASE Stamp(t)
    BY <1>0, <2>3 DEF Stamp, Times
  <2>4. CASE Unstamp(t)
    BY <1>0, <2>4 DEF Unstamp, Times
  <2>5. CASE Return(t)
    BY <1>0, <2>5 DEF Return, Times
  <2>6. CASE \/ Acquire(t) \/ CheckValue(t) \/ LoadCounter(t) \/ BumpHit(t)
             \/ BumpMiss(t) \/ ReadValue(t) \/ ProbeOk(t) \/ ProbeFail(t)
             \/ Store(t) \/ UpdateTime(t) \/ Reset(t) \/ CopyStats(t)
    <3>1. UNCHANGED <<clock, hw, lastSeen, cache_time, now, looked>>
      BY <2>6 DEF Acquire, CheckValue, LoadCounter, BumpHit, BumpMiss, ReadValue,
                  ProbeOk, ProbeFail, Store, UpdateTime, Reset, CopyStats
    <3> QED
      BY <3>1 DEF Times
  <2> QED
    BY <1>4, <2>1, <2>2, <2>3, <2>4, <2>5, <2>6 DEF ThreadStep
<1>5. CASE UNCHANGED vars
  BY <1>5 DEF vars, Times
<1> QED
  BY <1>1, <1>2, <1>3, <1>4, <1>5 DEF Next

-----------------------------------------------------------------------------
(* Freshness, with caching and the mutex.                                    *)

\* Two threads inside methods are the same thread.
LEMMA Exclusive ==
    ASSUME TypeOK, Mutex, Serial \/ (Excluding /\ EnableCaching),
           NEW t \in Threads, NEW u \in Threads,
           pc[t] \in Inside, pc[u] \in Inside
    PROVE  t = u
BY DEF TypeOK, Mutex, NeedsLock, Serial, Excluding, SingleCaller

LocalInv == Cache /\ \A t \in Threads : Knows(t) /\ FreshAt(t)

\* A detector that caches, under the mutex: what the callers know of the cache stays true.
LEMMA CachedStep ==
    ASSUME Excluding, EnableCaching,
           TypeOK, TypeOK', Mutex, Times, LocalInv, [Next]_vars
    PROVE  LocalInv'
<1> USE DEF Idle, Inside, Ops, Labels, Never, Storing, Tolerance, Strings,
            Goto, object, environment, returned, locals, history, LocalInv
<1>0. /\ clock \in Nat
      /\ cached \in Strings
      /\ cache_time \in Nat \cup {Never}
      /\ hw \in Fingerprints
      /\ lastSeen \in [Fingerprints -> Nat]
      /\ pc \in [Threads -> Idle \cup Inside]
      /\ op \in [Threads -> Ops]
      /\ now \in [Threads -> Nat]
      /\ looked \in [Threads -> Nat]
      /\ result \in [Threads -> Strings]
      /\ ret \in [Threads -> Strings \cup {Thrown}]
      /\ answer \in [Threads -> BOOLEAN]
  BY DEF TypeOK
<1>1. CASE Tick
  BY <1>0, <1>1 DEF Tick, Times, Cache, Knows, FreshAt
<1>2. CASE HardwareChange
  BY <1>0, <1>2 DEF HardwareChange, Times, Cache, Knows, FreshAt
<1>3. ASSUME NEW t \in Threads, NEW o \in Ops, Call(t, o) PROVE LocalInv'
  BY <1>0, <1>3 DEF Call, Body, NeedsLock, Mutex, Cache, Knows, FreshAt
<1>4. ASSUME NEW t \in Threads, ThreadStep(t) PROVE LocalInv'
  <2>1. CASE Acquire(t)
    BY <1>0, <2>1, Exclusive DEF Acquire, Body, Mutex, Times, Cache, Knows, FreshAt
  <2>2. CASE ReadNow(t)
    BY <1>0, <2>2, Exclusive DEF ReadNow, Mutex, Times, Cache, Knows, FreshAt
  <2>3. CASE CheckValue(t)
    BY <1>0, <2>3, Exclusive DEF CheckValue, Mutex, Times, Cache, Knows, FreshAt
  <2>4. CASE CheckExpiry(t)
    <3>1. PICK expired \in is_cache_expired :
             /\ pc' = [pc EXCEPT ![t] =
                          CASE op[t] = "valid" -> "ret"
                            [] op[t] # "valid" /\ expired -> "probe"
                            [] op[t] # "valid" /\ ~expired -> "load_hit"]
             /\ answer' = [answer EXCEPT ![t] = op[t] = "valid" /\ ~expired]
      BY <2>4 DEF CheckExpiry
    <3>2. /\ pc[t] = "expiry"
          /\ looked' = [looked EXCEPT ![t] = clock]
          /\ UNCHANGED <<object, environment, op, now, reg, result, ret>>
      BY <2>4 DEF CheckExpiry
    \* There is a value and it has a stamp, so the comparison is defined.
    <3>3. cached # NoValue /\ cache_time \in Nat /\ expired = (clock - cache_time > Lifetime)
      BY <1>0, <3>1, <3>2 DEF Knows, is_cache_expired
    <3>4. Cache'
      BY <1>0, <3>1, <3>2, <3>3 DEF Cache
    <3>5. ASSUME NEW u \in Threads, u # t PROVE Knows(u)' /\ FreshAt(u)'
      BY <1>0, <3>1, <3>2, <3>5 DEF Knows, FreshAt
    <3>6. CASE clock - cache_time > Lifetime
      <4>1. /\ pc' = [pc EXCEPT ![t] = IF op[t] = "valid" THEN "ret" ELSE "probe"]
            /\ answer' = [answer EXCEPT ![t] = FALSE]
        BY <3>1, <3>3, <3>6
      <4>2. Knows(t)' /\ FreshAt(t)'
        BY <1>0, <3>2, <3>3, <3>6, <4>1 DEF Knows, FreshAt
      <4> QED
        BY <3>4, <3>5, <4>2
    <3>7. CASE ~(clock - cache_time > Lifetime)
      <4>1. /\ pc' = [pc EXCEPT ![t] = IF op[t] = "valid" THEN "ret" ELSE "load_hit"]
            /\ answer' = [answer EXCEPT ![t] = op[t] = "valid"]
        BY <3>1, <3>3, <3>7
      <4>2. lastSeen[cached] >= clock - Lifetime
        <5>1. lastSeen[cached] \in Nat /\ lastSeen[cached] >= cache_time
          BY <1>0, <3>3 DEF Cache
        <5>2. Lifetime \in Nat
          OBVIOUS
        <5> QED
          BY <1>0, <3>3, <3>7, <5>1, <5>2
      <4>3. Knows(t)' /\ FreshAt(t)'
        BY <1>0, <3>2, <3>3, <4>1, <4>2 DEF Knows, FreshAt
      <4> QED
        BY <3>4, <3>5, <4>3
    <3> QED
      BY <3>6, <3>7
  <2>5. CASE LoadCounter(t)
    BY <1>0, <2>5, Exclusive DEF LoadCounter, Mutex, Times, Cache, Knows, FreshAt
  <2>6. CASE BumpHit(t)
    BY <1>0, <2>6, Exclusive DEF BumpHit, Mutex, Times, Cache, Knows, FreshAt
  <2>7. CASE BumpMiss(t)
    BY <1>0, <2>7, Exclusive DEF BumpMiss, Mutex, Times, Cache, Knows, FreshAt
  <2>8. CASE ReadValue(t)
    BY <1>0, <2>8, Exclusive DEF ReadValue, Mutex, Times, Cache, Knows, FreshAt
  <2>9. CASE ProbeOk(t)
    BY <1>0, <2>9, Exclusive DEF ProbeOk, Mutex, Times, Cache, Knows, FreshAt
  <2>10. CASE ProbeFail(t)
    BY <1>0, <2>10, Exclusive DEF ProbeFail, Mutex, Times, Cache, Knows, FreshAt
  <2>11. CASE Store(t)
    BY <1>0, <2>11, Exclusive DEF Store, Mutex, Times, Cache, Knows, FreshAt
  <2>12. CASE Stamp(t)
    <3>1. /\ pc[t] = "stamp"
          /\ pc' = [pc EXCEPT ![t] = "update"]
          /\ cache_time' = now[t]
          /\ UNCHANGED <<cached, environment, op, now, looked, result, ret, answer>>
      BY <2>12 DEF Stamp
    \* The probe came after `now` was read.
    <3>2. cached # NoValue /\ lastSeen[cached] >= now[t]
      BY <1>0, <3>1 DEF Knows, Times
    <3>3. Cache'
      BY <1>0, <3>1, <3>2 DEF Cache
    <3>4. ASSUME NEW u \in Threads PROVE Knows(u)' /\ FreshAt(u)'
      <4>1. CASE u = t
        BY <1>0, <3>1, <4>1 DEF Knows, FreshAt
      <4>2. CASE u # t
        \* The mutex keeps u out of every label that speaks of cache_time.
        <5>1. pc[u] \notin Inside
          BY <1>0, <3>1, <4>2, Exclusive
        <5> QED
          BY <1>0, <3>1, <4>2, <5>1 DEF Knows, FreshAt
      <4> QED
        BY <4>1, <4>2
    <3> QED
      BY <3>3, <3>4
  <2>13. CASE UpdateTime(t)
    BY <1>0, <2>13, Exclusive DEF UpdateTime, Mutex, Times, Cache, Knows, FreshAt
  <2>14. CASE Reset(t)
    BY <1>0, <2>14, Exclusive DEF Reset, Mutex, Times, Cache, Knows, FreshAt
  <2>15. CASE Unstamp(t)
    BY <1>0, <2>15, Exclusive DEF Unstamp, Mutex, Times, Cache, Knows, FreshAt
  <2>16. CASE CopyStats(t)
    BY <1>0, <2>16, Exclusive DEF CopyStats, Mutex, Times, Cache, Knows, FreshAt
  <2>17. CASE Return(t)
    BY <1>0, <2>17, Exclusive DEF Return, Mutex, Times, Cache, Knows, FreshAt
  <2> QED
    BY <1>4, <2>1, <2>2, <2>3, <2>4, <2>5, <2>6, <2>7, <2>8, <2>9, <2>10,
       <2>11, <2>12, <2>13, <2>14, <2>15, <2>16, <2>17 DEF ThreadStep
<1>5. CASE UNCHANGED vars
  BY <1>5 DEF vars, Cache, Knows, FreshAt
<1> QED
  BY <1>1, <1>2, <1>3, <1>4, <1>5 DEF Next

-----------------------------------------------------------------------------
(* Freshness without caching: the members that calls share are the counters  *)
(* only, so the mutex is not needed.                                         *)

\* A detector that does not cache: the same, with no mutex.
LEMMA UncachedStep ==
    ASSUME ~EnableCaching,
           TypeOK, TypeOK', Mutex, Times, LocalInv, [Next]_vars
    PROVE  LocalInv'
<1> USE DEF Idle, Inside, Ops, Labels, Never, Storing, Tolerance, Strings,
            Goto, object, environment, returned, locals, history, LocalInv
<1>0. /\ clock \in Nat
      /\ cached \in Strings
      /\ cache_time \in Nat \cup {Never}
      /\ hw \in Fingerprints
      /\ lastSeen \in [Fingerprints -> Nat]
      /\ pc \in [Threads -> Idle \cup Inside]
      /\ op \in [Threads -> Ops]
      /\ now \in [Threads -> Nat]
      /\ looked \in [Threads -> Nat]
      /\ result \in [Threads -> Strings]
      /\ ret \in [Threads -> Strings \cup {Thrown}]
      /\ answer \in [Threads -> BOOLEAN]
  BY DEF TypeOK
<1>1. CASE Tick
  BY <1>0, <1>1 DEF Tick, Times, Cache, Knows, FreshAt
<1>2. CASE HardwareChange
  BY <1>0, <1>2 DEF HardwareChange, Times, Cache, Knows, FreshAt
<1>3. ASSUME NEW t \in Threads, NEW o \in Ops, Call(t, o) PROVE LocalInv'
  BY <1>0, <1>3 DEF Call, Body, NeedsLock, Mutex, Cache, Knows, FreshAt
<1>4. ASSUME NEW t \in Threads, ThreadStep(t) PROVE LocalInv'
  <2>1. CASE Acquire(t)
    BY <1>0, <2>1 DEF Acquire, Body, Mutex, Times, Cache, Knows, FreshAt
  <2>2. CASE ReadNow(t)
    BY <1>0, <2>2 DEF ReadNow, Mutex, Times, Cache, Knows, FreshAt
  <2>3. CASE CheckValue(t)
    BY <1>0, <2>3 DEF CheckValue, Mutex, Times, Cache, Knows, FreshAt
  <2>4. CASE CheckExpiry(t)
    BY <1>0, <2>4 DEF CheckExpiry, is_cache_expired, Mutex, Times, Cache, Knows, FreshAt
  <2>5. CASE LoadCounter(t)
    BY <1>0, <2>5 DEF LoadCounter, Mutex, Times, Cache, Knows, FreshAt
  <2>6. CASE BumpHit(t)
    BY <1>0, <2>6 DEF BumpHit, Mutex, Times, Cache, Knows, FreshAt
  <2>7. CASE BumpMiss(t)
    BY <1>0, <2>7 DEF BumpMiss, Mutex, Times, Cache, Knows, FreshAt
  <2>8. CASE ReadValue(t)
    BY <1>0, <2>8 DEF ReadValue, Mutex, Times, Cache, Knows, FreshAt
  <2>9. CASE ProbeOk(t)
    BY <1>0, <2>9 DEF ProbeOk, Mutex, Times, Cache, Knows, FreshAt
  <2>10. CASE ProbeFail(t)
    BY <1>0, <2>10 DEF ProbeFail, Mutex, Times, Cache, Knows, FreshAt
  <2>11. CASE Store(t)
    BY <1>0, <2>11 DEF Store, Mutex, Times, Cache, Knows, FreshAt
  <2>12. CASE Stamp(t)
    BY <1>0, <2>12 DEF Stamp, Mutex, Times, Cache, Knows, FreshAt
  <2>13. CASE UpdateTime(t)
    BY <1>0, <2>13 DEF UpdateTime, Mutex, Times, Cache, Knows, FreshAt
  <2>14. CASE Reset(t)
    BY <1>0, <2>14 DEF Reset, Mutex, Times, Cache, Knows, FreshAt
  <2>15. CASE Unstamp(t)
    BY <1>0, <2>15 DEF Unstamp, Mutex, Times, Cache, Knows, FreshAt
  <2>16. CASE CopyStats(t)
    BY <1>0, <2>16 DEF CopyStats, Mutex, Times, Cache, Knows, FreshAt
  <2>17. CASE Return(t)
    BY <1>0, <2>17 DEF Return, Mutex, Times, Cache, Knows, FreshAt
  <2> QED
    BY <1>4, <2>1, <2>2, <2>3, <2>4, <2>5, <2>6, <2>7, <2>8, <2>9, <2>10,
       <2>11, <2>12, <2>13, <2>14, <2>15, <2>16, <2>17 DEF ThreadStep
<1>5. CASE UNCHANGED vars
  BY <1>5 DEF vars, Cache, Knows, FreshAt
<1> QED
  BY <1>1, <1>2, <1>3, <1>4, <1>5 DEF Next

-----------------------------------------------------------------------------
(* The members a refill and clear_cache write one after the other.           *)

\* Between two writes the cached value and its time are those of the last update.
LEMMA SyncedStep ==
    ASSUME Excluding \/ ~EnableCaching,
           TypeOK, TypeOK', Mutex, Mutex', LocalInv, LocalInv', Synced, [Next]_vars
    PROVE  Synced'
<1> USE DEF Writing, Never, Goto, object, environment, returned, locals, history
<1>0. /\ pc \in [Threads -> Idle \cup Inside]
      /\ op \in [Threads -> Ops]
      /\ now \in [Threads -> Nat]
      /\ result \in [Threads -> Strings]
      /\ stats \in Stats /\ stats' \in Stats
  BY DEF TypeOK
<1>1. CASE ~EnableCaching
  <2>1. cached' = NoValue /\ cache_time' = Never
    BY <1>1 DEF LocalInv, Cache
  <2>2. \A t \in Threads : pc'[t] # "update"
    BY <1>1 DEF Mutex, Labels, Idle, TypeOK, Ops
  <2> QED
    BY <2>1, <2>2 DEF Synced
<1>2. CASE EnableCaching
  <2>1. CASE Tick
    BY <2>1 DEF Tick, Synced
  <2>2. CASE HardwareChange
    BY <2>2 DEF HardwareChange, Synced
  \* A step of t that does not write.
  <2>3. ASSUME NEW t \in Threads, pc[t] \notin Writing, pc'[t] \notin Writing,
               \A u \in Threads \ {t} : pc'[u] = pc[u] /\ now'[u] = now[u],
               cached' = cached, cache_time' = cache_time,
               stats'.last_update = stats.last_update
        PROVE  Synced'
    BY <1>0, <2>3 DEF Synced
  <2>4. ASSUME NEW t \in Threads, NEW o \in Ops, Call(t, o) PROVE Synced'
    BY <1>0, <2>3, <2>4 DEF Call, Body, Ops, Idle, Inside
  <2>5. ASSUME NEW t \in Threads, ThreadStep(t) PROVE Synced'
    <3>0. ASSUME NEW u \in Threads, u # t, pc[t] \in Inside PROVE pc[u] \notin Inside
      BY <1>2, <3>0, Exclusive
    <3>1. CASE Acquire(t)
      BY <1>0, <2>3, <3>1 DEF Acquire, Body, Ops
    <3>2. CASE ReadNow(t)
      BY <1>0, <2>3, <3>2 DEF ReadNow
    <3>3. CASE CheckValue(t)
      BY <1>0, <2>3, <3>3 DEF CheckValue
    <3>4. CASE CheckExpiry(t)
      BY <1>0, <2>3, <3>4 DEF CheckExpiry
    <3>5. CASE LoadCounter(t)
      BY <1>0, <2>3, <3>5 DEF LoadCounter
    <3>6. CASE BumpHit(t)
      BY <1>0, <2>3, <3>6 DEF BumpHit, Stats
    <3>7. CASE BumpMiss(t)
      BY <1>0, <1>2, <2>3, <3>7 DEF BumpMiss, Stats
    <3>8. CASE ReadValue(t)
      BY <1>0, <2>3, <3>8 DEF ReadValue
    <3>9. CASE ProbeOk(t)
      BY <1>0, <1>2, <2>3, <3>9 DEF ProbeOk
    <3>10. CASE ProbeFail(t)
      BY <1>0, <2>3, <3>10 DEF ProbeFail
    <3>11. CASE Store(t)
      BY <1>0, <3>0, <3>11 DEF Store, Synced, Inside
    <3>12. CASE Stamp(t)
      BY <1>0, <1>2, <3>0, <3>12 DEF Stamp, Synced, LocalInv, Knows, Storing, Inside
    <3>13. CASE UpdateTime(t)
      BY <1>0, <3>0, <3>13 DEF UpdateTime, Synced, Inside, Stats
    <3>14. CASE Reset(t)
      BY <1>0, <3>0, <3>14 DEF Reset, Synced, Inside
    <3>15. CASE Unstamp(t)
      BY <1>0, <3>0, <3>15 DEF Unstamp, Synced, LocalInv, Knows, Inside
    <3>16. CASE CopyStats(t)
      BY <1>0, <2>3, <3>16 DEF CopyStats
    <3>17. CASE Return(t)
      BY <1>0, <2>3, <3>17 DEF Return
    <3> QED
      BY <2>5, <3>1, <3>2, <3>3, <3>4, <3>5, <3>6, <3>7, <3>8, <3>9, <3>10,
         <3>11, <3>12, <3>13, <3>14, <3>15, <3>16, <3>17 DEF ThreadStep
  <2>6. CASE UNCHANGED vars
    BY <2>6 DEF vars, Synced
  <2> QED
    BY <2>1, <2>2, <2>4, <2>5, <2>6 DEF Next
<1> QED
  BY <1>1, <1>2

-----------------------------------------------------------------------------
(* The counters.                                                             *)

\* The method a thread is in, as far as its label tells.
LEMMA MethodOf ==
    ASSUME TypeOK, Mutex, NEW t \in Threads
    PROVE  /\ pc[t] \in {"check", "expiry"} =>
                  op[t] = "valid" \/ (op[t] = "get" /\ EnableCaching)
           /\ pc[t] \in {"now", "load_hit", "bump_hit", "value", "probe", "store", "stamp",
                         "update", "load_miss", "bump_miss"} => op[t] = "get"
           /\ pc[t] \in {"now", "load_hit", "bump_hit", "value", "store", "stamp", "update"}
                  => EnableCaching
           /\ pc[t] \in {"reset", "unstamp"} => op[t] = "clear"
           /\ pc[t] = "copy" => op[t] = "stats"
BY DEF TypeOK, Mutex, Labels, Idle, Ops

\* A refill writes the time of the update and then counts the miss, seen by any thread.
LEMMA TimeThenMissStep ==
    ASSUME Excluding, EnableCaching,
           TypeOK, TypeOK', Mutex, TimeThenMiss, [Next]_vars
    PROVE  TimeThenMiss'
<1> USE DEF Epoch, Counting, Goto, object, environment, returned, locals, history
<1>0. /\ pc \in [Threads -> Idle \cup Inside]
      /\ op \in [Threads -> Ops]
      /\ now \in [Threads -> Nat]
      /\ reg \in [Threads -> Nat]
      /\ copy \in [Threads -> Stats]
      /\ clock \in Nat
      /\ stats \in [hits : Nat, misses : Nat, last_update : Nat]
  BY DEF TypeOK, Stats
<1>1. CASE Tick
  BY <1>0, <1>1 DEF Tick, TimeThenMiss
<1>2. CASE HardwareChange
  BY <1>2 DEF HardwareChange, TimeThenMiss
<1>3. ASSUME NEW t \in Threads, NEW o \in Ops, Call(t, o) PROVE TimeThenMiss'
  BY <1>0, <1>3 DEF Call, Body, TimeThenMiss, Ops, Idle, Inside
<1>4. ASSUME NEW t \in Threads, ThreadStep(t) PROVE TimeThenMiss'
  <2>0. ASSUME NEW u \in Threads, u # t, pc[t] \in Inside PROVE pc[u] \notin Inside
    BY <2>0, Exclusive
  <2>1. CASE Acquire(t)
    BY <1>0, <2>0, <2>1, MethodOf DEF Acquire, Body, Ops, TimeThenMiss, Inside
  <2>2. CASE ReadNow(t)
    BY <1>0, <2>0, <2>2, MethodOf DEF ReadNow, TimeThenMiss, Inside
  <2>3. CASE CheckValue(t)
    BY <1>0, <2>0, <2>3, MethodOf DEF CheckValue, TimeThenMiss, Inside
  <2>4. CASE CheckExpiry(t)
    BY <1>0, <2>0, <2>4, MethodOf DEF CheckExpiry, TimeThenMiss, Inside
  <2>5. CASE LoadCounter(t)
    BY <1>0, <2>0, <2>5, MethodOf DEF LoadCounter, TimeThenMiss, Inside
  <2>6. CASE BumpHit(t)
    BY <1>0, <2>0, <2>6, MethodOf DEF BumpHit, TimeThenMiss, Inside
  <2>7. CASE BumpMiss(t)
    BY <1>0, <2>0, <2>7, MethodOf DEF BumpMiss, TimeThenMiss, Inside
  <2>8. CASE ReadValue(t)
    BY <1>0, <2>0, <2>8, MethodOf DEF ReadValue, TimeThenMiss, Inside
  <2>9. CASE ProbeOk(t)
    BY <1>0, <2>0, <2>9, MethodOf DEF ProbeOk, TimeThenMiss, Inside
  <2>10. CASE ProbeFail(t)
    BY <1>0, <2>0, <2>10, MethodOf DEF ProbeFail, TimeThenMiss, Inside
  <2>11. CASE Store(t)
    BY <1>0, <2>0, <2>11, MethodOf DEF Store, TimeThenMiss, Inside
  <2>12. CASE Stamp(t)
    BY <1>0, <2>0, <2>12, MethodOf DEF Stamp, TimeThenMiss, Inside
  <2>13. CASE UpdateTime(t)
    BY <1>0, <2>0, <2>13, MethodOf DEF UpdateTime, TimeThenMiss, Inside
  <2>14. CASE Reset(t)
    BY <1>0, <2>0, <2>14, MethodOf DEF Reset, TimeThenMiss, Inside
  <2>15. CASE Unstamp(t)
    BY <1>0, <2>0, <2>15, MethodOf DEF Unstamp, TimeThenMiss, Inside
  <2>16. CASE CopyStats(t)
    BY <1>0, <2>0, <2>16, MethodOf DEF CopyStats, TimeThenMiss, Inside
  <2>17. CASE Return(t)
    BY <1>0, <2>0, <2>17, MethodOf DEF Return, TimeThenMiss, Inside
  <2> QED
    BY <1>4, <2>1, <2>2, <2>3, <2>4, <2>5, <2>6, <2>7, <2>8, <2>9,
       <2>10, <2>11, <2>12, <2>13, <2>14, <2>15, <2>16, <2>17 DEF ThreadStep
<1>5. CASE UNCHANGED vars
  BY <1>5 DEF vars, TimeThenMiss
<1> QED
  BY <1>1, <1>2, <1>3, <1>4, <1>5 DEF Next

\* While calls exclude each other, every one is counted as a hit or a miss, once.
LEMMA AccountsStep ==
    ASSUME Serial,
           TypeOK, TypeOK', Mutex, LocalInv, Accounts, [Next]_vars
    PROVE  Accounts'
<1> USE DEF Goto, object, environment, returned, locals, history
<1>0. /\ pc \in [Threads -> Idle \cup Inside]
      /\ op \in [Threads -> Ops]
      /\ cached \in Strings
      /\ reg \in [Threads -> Nat]
      /\ result \in [Threads -> Strings]
      /\ ret \in [Threads -> Strings \cup {Thrown}]
      /\ served \in Nat /\ failed \in Nat
      /\ stats \in [hits : Nat, misses : Nat, last_update : Nat]
  BY DEF TypeOK, Stats
<1>1. CASE Tick
  BY <1>1 DEF Tick, Accounts, Counted
<1>2. CASE HardwareChange
  BY <1>2 DEF HardwareChange, Accounts, Counted
\* A step of t that counts nothing and returns nothing.
<1>6. ASSUME NEW t \in Threads, UNCHANGED <<served, failed>>,
             stats'.hits = stats.hits, stats'.misses = stats.misses,
             Counted(t)' <=> Counted(t),
             \A u \in Threads \ {t} : UNCHANGED <<pc[u], op[u], ret[u], reg[u]>>,
             pc'[t] = "bump_hit" => reg'[t] = stats.hits,
             pc'[t] = "bump_miss" => reg'[t] = stats.misses
      PROVE  Accounts'
  <2>1. \A u \in Threads : Counted(u)' <=> Counted(u)
    BY <1>6 DEF Counted
  <2> QED
    BY <1>6, <2>1 DEF Accounts
<1>3. ASSUME NEW t \in Threads, NEW o \in Ops, Call(t, o) PROVE Accounts'
  <2>1. ~Counted(t)' /\ ~Counted(t)
    BY <1>0, <1>3 DEF Call, Body, Counted, Ops, Idle, Inside
  <2> QED
    BY <1>0, <1>3, <1>6, <2>1 DEF Call, Body, Ops
<1>4. ASSUME NEW t \in Threads, ThreadStep(t) PROVE Accounts'
  <2>0. ASSUME NEW u \in Threads, u # t, pc[t] \in Inside PROVE ~Counted(u)
    BY <2>0, Exclusive DEF Counted, Inside
  <2>1. CASE Acquire(t)
    <3>1. Counted(t)' <=> Counted(t)
      BY <1>0, <2>1, MethodOf DEF Acquire, Body, Ops, Counted, LocalInv, Knows, Strings
    <3> QED
      BY <1>0, <1>6, <2>1, <3>1 DEF Acquire, Body, Ops
  <2>2. CASE ReadNow(t)
    <3>1. Counted(t)' <=> Counted(t)
      BY <1>0, <2>2, MethodOf DEF ReadNow, Counted, LocalInv, Knows, Strings
    <3> QED
      BY <1>0, <1>6, <2>2, <3>1 DEF ReadNow
  <2>3. CASE CheckValue(t)
    <3>1. Counted(t)' <=> Counted(t)
      BY <1>0, <2>3, MethodOf DEF CheckValue, Counted, LocalInv, Knows, Strings
    <3> QED
      BY <1>0, <1>6, <2>3, <3>1 DEF CheckValue
  <2>4. CASE CheckExpiry(t)
    <3>1. Counted(t)' <=> Counted(t)
      BY <1>0, <2>4, MethodOf DEF CheckExpiry, Counted, LocalInv, Knows, Strings
    <3> QED
      BY <1>0, <1>6, <2>4, <3>1 DEF CheckExpiry
  <2>5. CASE LoadCounter(t)
    <3>1. Counted(t)' <=> Counted(t)
      BY <1>0, <2>5, MethodOf DEF LoadCounter, Counted, LocalInv, Knows, Strings
    <3> QED
      BY <1>0, <1>6, <2>5, <3>1 DEF LoadCounter
  <2>6. CASE BumpHit(t)
    <3>1. ~Counted(t) /\ Counted(t)'
      BY <1>0, <2>6, MethodOf DEF BumpHit, Counted, LocalInv, Knows, Storing, Strings
    <3>2. \A u \in Threads : u # t => ~Counted(u) /\ ~Counted(u)'
      BY <1>0, <2>0, <2>6 DEF BumpHit, Counted, Inside
    <3>3. stats.hits + stats.misses = served + (IF EnableCaching THEN 0 ELSE failed)
      BY <1>0, <3>1, <3>2 DEF Accounts
    <3>4. /\ stats'.hits = stats.hits + 1 /\ stats'.misses = stats.misses
          /\ UNCHANGED <<served, failed, reg>>
          /\ pc' = [pc EXCEPT ![t] = pc'[t]] /\ pc'[t] \notin {"bump_hit", "bump_miss"}
      <4>0. pc[t] = "bump_hit"
        BY <2>6 DEF BumpHit
      <4>1. reg[t] = stats.hits
        BY <4>0 DEF Accounts
      <4> QED
        BY <1>0, <2>6, <4>1 DEF BumpHit
    <3>5. \A u \in Threads : u # t => pc[u] \notin Inside
      BY <1>0, <2>6, Exclusive DEF BumpHit, Inside
    <3> QED
      BY <1>0, <3>1, <3>3, <3>4, <3>5 DEF Accounts, Inside
  <2>7. CASE BumpMiss(t)
    <3>1. ~Counted(t) /\ Counted(t)'
      BY <1>0, <2>7, MethodOf DEF BumpMiss, Counted, LocalInv, Knows, Storing, Strings
    <3>2. \A u \in Threads : u # t => ~Counted(u) /\ ~Counted(u)'
      BY <1>0, <2>0, <2>7 DEF BumpMiss, Counted, Inside
    <3>3. stats.hits + stats.misses = served + (IF EnableCaching THEN 0 ELSE failed)
      BY <1>0, <3>1, <3>2 DEF Accounts
    <3>4. /\ stats'.misses = stats.misses + 1 /\ stats'.hits = stats.hits
          /\ UNCHANGED <<served, failed, reg>>
          /\ pc' = [pc EXCEPT ![t] = pc'[t]] /\ pc'[t] \notin {"bump_hit", "bump_miss"}
      BY <1>0, <2>7 DEF BumpMiss, Accounts
    <3>5. \A u \in Threads : u # t => pc[u] \notin Inside
      BY <1>0, <2>7, Exclusive DEF BumpMiss, Inside
    <3> QED
      BY <1>0, <3>1, <3>3, <3>4, <3>5 DEF Accounts, Inside
  <2>8. CASE ReadValue(t)
    <3>1. Counted(t)' <=> Counted(t)
      BY <1>0, <2>8, MethodOf DEF ReadValue, Counted, LocalInv, Knows, Strings
    <3> QED
      BY <1>0, <1>6, <2>8, <3>1 DEF ReadValue
  <2>9. CASE ProbeOk(t)
    <3>1. Counted(t)' <=> Counted(t)
      BY <1>0, <2>9, MethodOf DEF ProbeOk, Counted, LocalInv, Knows, Strings
    <3> QED
      BY <1>0, <1>6, <2>9, <3>1 DEF ProbeOk
  <2>10. CASE ProbeFail(t)
    <3>1. Counted(t)' <=> Counted(t)
      BY <1>0, <2>10, MethodOf DEF ProbeFail, Counted, LocalInv, Knows, Strings
    <3> QED
      BY <1>0, <1>6, <2>10, <3>1 DEF ProbeFail
  <2>11. CASE Store(t)
    <3>1. Counted(t)' <=> Counted(t)
      BY <1>0, <2>11, MethodOf DEF Store, Counted, LocalInv, Knows, Strings
    <3> QED
      BY <1>0, <1>6, <2>11, <3>1 DEF Store
  <2>12. CASE Stamp(t)
    <3>1. Counted(t)' <=> Counted(t)
      BY <1>0, <2>12, MethodOf DEF Stamp, Counted, LocalInv, Knows, Strings
    <3> QED
      BY <1>0, <1>6, <2>12, <3>1 DEF Stamp
  <2>13. CASE UpdateTime(t)
    <3>1. Counted(t)' <=> Counted(t)
      BY <1>0, <2>13, MethodOf DEF UpdateTime, Counted, LocalInv, Knows, Strings
    <3> QED
      BY <1>0, <1>6, <2>13, <3>1 DEF UpdateTime
  <2>14. CASE Reset(t)
    <3>1. Counted(t)' <=> Counted(t)
      BY <1>0, <2>14, MethodOf DEF Reset, Counted, LocalInv, Knows, Strings
    <3> QED
      BY <1>0, <1>6, <2>14, <3>1 DEF Reset
  <2>15. CASE Unstamp(t)
    <3>1. Counted(t)' <=> Counted(t)
      BY <1>0, <2>15, MethodOf DEF Unstamp, Counted, LocalInv, Knows, Strings
    <3> QED
      BY <1>0, <1>6, <2>15, <3>1 DEF Unstamp
  <2>16. CASE CopyStats(t)
    <3>1. Counted(t)' <=> Counted(t)
      BY <1>0, <2>16, MethodOf DEF CopyStats, Counted, LocalInv, Knows, Strings
    <3> QED
      BY <1>0, <1>6, <2>16, <3>1 DEF CopyStats
  <2>17. CASE Return(t)
    <3>1. ~Counted(t)'
      BY <1>0, <2>17, MethodOf DEF Return, Counted, LocalInv, Knows, Storing, Strings
    <3>2. \A u \in Threads : u # t => ~Counted(u) /\ ~Counted(u)'
      BY <1>0, <2>0, <2>17 DEF Return, Counted, Inside
    <3>3. stats.hits + stats.misses = served' + (IF EnableCaching THEN 0 ELSE failed')
      <4>1. CASE Counted(t)
        BY <1>0, <2>17, <4>1 DEF Return, Accounts, Counted
      <4>2. CASE ~Counted(t)
        BY <1>0, <2>17, <3>2, <4>2 DEF Return, Accounts, Counted
      <4> QED
        BY <4>1, <4>2
    <3>4. \A u \in Threads : pc'[u] = "bump_hit" \/ pc'[u] = "bump_miss" => u # t /\ pc[u] = pc'[u]
      BY <1>0, <2>17 DEF Return
    <3> QED
      BY <1>0, <2>17, <3>1, <3>2, <3>3, <3>4 DEF Return, Accounts
  <2> QED
    BY <1>4, <2>1, <2>2, <2>3, <2>4, <2>5, <2>6, <2>7, <2>8, <2>9,
       <2>10, <2>11, <2>12, <2>13, <2>14, <2>15, <2>16, <2>17 DEF ThreadStep
<1>5. CASE UNCHANGED vars
  BY <1>5 DEF vars, Accounts, Counted
<1> QED
  BY <1>1, <1>2, <1>3, <1>4, <1>5 DEF Next

-----------------------------------------------------------------------------
\* The calls that are counted and have not ended are finitely many.
LEMMA CountedFinite ==
    /\ IsFiniteSet({t \in Threads : Counted(t)})
    /\ Cardinality({t \in Threads : Counted(t)}) \in Nat
<1>1. {t \in Threads : Counted(t)} \in SUBSET Threads
  OBVIOUS
<1> QED
  BY <1>1, ThreadsAssumption, FS_Subset, FS_CardinalityType

\* Without a cache increments may be lost, and none is invented.
LEMMA BoundedStep ==
    ASSUME ~EnableCaching,
           TypeOK, TypeOK', Mutex, Bounded, [Next]_vars
    PROVE  Bounded'
<1> DEFINE C == {t \in Threads : Counted(t)}
<1> USE DEF Goto, object, environment, returned, locals, history
<1>0. /\ pc \in [Threads -> Idle \cup Inside]
      /\ op \in [Threads -> Ops]
      /\ reg \in [Threads -> Nat]
      /\ ret \in [Threads -> Strings \cup {Thrown}]
      /\ served \in Nat /\ failed \in Nat
      /\ stats \in [hits : Nat, misses : Nat, last_update : Nat]
      /\ stats' \in [hits : Nat, misses : Nat, last_update : Nat]
      /\ IsFiniteSet(C) /\ Cardinality(C) \in Nat
  BY CountedFinite DEF TypeOK, Stats
<1>1. CASE Tick
  BY <1>1 DEF Tick, Bounded, Entered, Counted
<1>2. CASE HardwareChange
  BY <1>2 DEF HardwareChange, Bounded, Entered, Counted
\* A step of t that counts nothing and returns nothing.
<1>6. ASSUME NEW t \in Threads, UNCHANGED <<served, failed>>,
             stats'.misses = stats.misses,
             Counted(t)' <=> Counted(t),
             \A u \in Threads \ {t} : UNCHANGED <<pc[u], op[u], ret[u], reg[u]>>,
             pc'[t] = "bump_miss" => reg'[t] = stats.misses
      PROVE  Bounded'
  <2>1. \A u \in Threads : Counted(u)' <=> Counted(u)
    BY <1>6 DEF Counted
  <2>2. C' = C
    BY <2>1
  <2>3. Entered' = Entered
    BY <1>6, <2>2 DEF Entered
  <2> QED
    BY <1>0, <1>6, <2>3 DEF Bounded
<1>3. ASSUME NEW t \in Threads, NEW o \in Ops, Call(t, o) PROVE Bounded'
  <2>1. ~Counted(t)' /\ ~Counted(t)
    BY <1>0, <1>3 DEF Call, Body, Counted, Ops, Idle, Inside
  <2> QED
    BY <1>0, <1>3, <1>6, <2>1 DEF Call, Body, Ops
<1>4. ASSUME NEW t \in Threads, ThreadStep(t) PROVE Bounded'
  <2>1. CASE BumpMiss(t)
    <3>1. ~Counted(t) /\ Counted(t)'
      BY <1>0, <2>1, MethodOf DEF BumpMiss, Counted
    <3>2. \A u \in Threads \ {t} : Counted(u)' <=> Counted(u)
      BY <1>0, <2>1 DEF BumpMiss, Counted
    <3>3. C' = C \cup {t} /\ t \notin C
      BY <3>1, <3>2
    <3>4. Cardinality(C') = Cardinality(C) + 1
      BY <1>0, <3>3, FS_AddElement
    <3>5. Entered \in Nat /\ Entered' = Entered + 1
      BY <1>0, <2>1, <3>4 DEF Entered, BumpMiss
    <3>6. stats'.misses = reg[t] + 1 /\ reg[t] <= Entered
      BY <1>0, <2>1 DEF BumpMiss, Bounded
    <3>7. \A u \in Threads : pc'[u] = "bump_miss" => pc[u] = "bump_miss" /\ reg'[u] = reg[u]
      BY <1>0, <2>1 DEF BumpMiss
    <3> QED
      BY <1>0, <3>5, <3>6, <3>7 DEF Bounded
  <2>2. CASE Return(t)
    <3>1. ~Counted(t)' /\ (Counted(t) <=> op[t] = "get")
      BY <1>0, <2>2 DEF Return, Counted
    <3>2. \A u \in Threads \ {t} : Counted(u)' <=> Counted(u)
      BY <1>0, <2>2 DEF Return, Counted
    <3>3. C' = C \ {t}
      BY <3>1, <3>2
    <3>4. Cardinality(C') = IF op[t] = "get" THEN Cardinality(C) - 1 ELSE Cardinality(C)
      <4>1. t \in C <=> op[t] = "get"
        BY <3>1
      <4> HIDE DEF C
      <4> QED
        BY <1>0, <3>3, <4>1, FS_RemoveElement
    <3>5. served' + failed' = IF op[t] = "get" THEN served + failed + 1 ELSE served + failed
      BY <1>0, <2>2 DEF Return
    <3>6. served' \in Nat /\ failed' \in Nat
      BY DEF TypeOK
    <3>7. Entered' = Entered
      <4>1. Entered = (served + failed) + Cardinality(C)
        BY DEF Entered
      <4>2. Entered' = (served' + failed') + Cardinality(C')
        BY DEF Entered
      <4> HIDE DEF C
      <4>3. CASE op[t] = "get"
        <5>1. Cardinality(C') = Cardinality(C) - 1
          BY <3>4, <4>3
        <5>2. served' + failed' = (served + failed) + 1
          BY <3>5, <4>3
        <5>3. Cardinality(C) \in Nat /\ served + failed \in Nat
          BY <1>0
        <5> QED
          BY <4>1, <4>2, <5>1, <5>2, <5>3
      <4>4. CASE op[t] # "get"
        BY <1>0, <3>4, <3>5, <3>6, <4>1, <4>2, <4>4
      <4> QED
        BY <4>3, <4>4
    <3>8. /\ stats' = stats
          /\ \A u \in Threads : pc'[u] = "bump_miss" => pc[u] = "bump_miss" /\ reg'[u] = reg[u]
      BY <1>0, <2>2 DEF Return
    <3> QED
      BY <3>7, <3>8 DEF Bounded
  <2>3. CASE Acquire(t)
    <3>1. Counted(t)' <=> Counted(t)
      BY <1>0, <2>3, MethodOf DEF Acquire, Body, Ops, Counted
    <3> QED
      BY <1>0, <1>6, <2>3, <3>1 DEF Acquire, Body, Ops
  <2>4. CASE ReadNow(t)
    <3>1. Counted(t)' <=> Counted(t)
      BY <1>0, <2>4, MethodOf DEF ReadNow, Counted
    <3> QED
      BY <1>0, <1>6, <2>4, <3>1 DEF ReadNow
  <2>5. CASE CheckValue(t)
    <3>1. Counted(t)' <=> Counted(t)
      BY <1>0, <2>5, MethodOf DEF CheckValue, Counted
    <3> QED
      BY <1>0, <1>6, <2>5, <3>1 DEF CheckValue
  <2>6. CASE CheckExpiry(t)
    <3>1. Counted(t)' <=> Counted(t)
      BY <1>0, <2>6, MethodOf DEF CheckExpiry, Counted
    <3> QED
      BY <1>0, <1>6, <2>6, <3>1 DEF CheckExpiry
  <2>7. CASE LoadCounter(t)
    <3>1. Counted(t)' <=> Counted(t)
      BY <1>0, <2>7, MethodOf DEF LoadCounter, Counted
    <3> QED
      BY <1>0, <1>6, <2>7, <3>1 DEF LoadCounter
  <2>8. CASE BumpHit(t)
    <3>1. Counted(t)' <=> Counted(t)
      BY <1>0, <2>8, MethodOf DEF BumpHit, Counted
    <3> QED
      BY <1>0, <1>6, <2>8, <3>1 DEF BumpHit
  <2>9. CASE ReadValue(t)
    <3>1. Counted(t)' <=> Counted(t)
      BY <1>0, <2>9, MethodOf DEF ReadValue, Counted
    <3> QED
      BY <1>0, <1>6, <2>9, <3>1 DEF ReadValue
  <2>10. CASE ProbeOk(t)
    <3>1. Counted(t)' <=> Counted(t)
      BY <1>0, <2>10, MethodOf DEF ProbeOk, Counted
    <3> QED
      BY <1>0, <1>6, <2>10, <3>1 DEF ProbeOk
  <2>11. CASE ProbeFail(t)
    <3>1. Counted(t)' <=> Counted(t)
      BY <1>0, <2>11, MethodOf DEF ProbeFail, Counted
    <3> QED
      BY <1>0, <1>6, <2>11, <3>1 DEF ProbeFail
  <2>12. CASE Store(t)
    <3>1. Counted(t)' <=> Counted(t)
      BY <1>0, <2>12, MethodOf DEF Store, Counted
    <3> QED
      BY <1>0, <1>6, <2>12, <3>1 DEF Store
  <2>13. CASE Stamp(t)
    <3>1. Counted(t)' <=> Counted(t)
      BY <1>0, <2>13, MethodOf DEF Stamp, Counted
    <3> QED
      BY <1>0, <1>6, <2>13, <3>1 DEF Stamp
  <2>14. CASE UpdateTime(t)
    <3>1. Counted(t)' <=> Counted(t)
      BY <1>0, <2>14, MethodOf DEF UpdateTime, Counted
    <3> QED
      BY <1>0, <1>6, <2>14, <3>1 DEF UpdateTime
  <2>15. CASE Reset(t)
    <3>1. Counted(t)' <=> Counted(t)
      BY <1>0, <2>15, MethodOf DEF Reset, Counted
    <3> QED
      BY <1>0, <1>6, <2>15, <3>1 DEF Reset
  <2>16. CASE Unstamp(t)
    <3>1. Counted(t)' <=> Counted(t)
      BY <1>0, <2>16, MethodOf DEF Unstamp, Counted
    <3> QED
      BY <1>0, <1>6, <2>16, <3>1 DEF Unstamp
  <2>17. CASE CopyStats(t)
    <3>1. Counted(t)' <=> Counted(t)
      BY <1>0, <2>17, MethodOf DEF CopyStats, Counted
    <3> QED
      BY <1>0, <1>6, <2>17, <3>1 DEF CopyStats
  <2> QED
    BY <1>4, <2>1, <2>2, <2>3, <2>4, <2>5, <2>6, <2>7, <2>8, <2>9,
       <2>10, <2>11, <2>12, <2>13, <2>14, <2>15, <2>16, <2>17 DEF ThreadStep
<1>5. CASE UNCHANGED vars
  BY <1>5 DEF vars, Bounded, Entered, Counted
<1> QED
  BY <1>1, <1>2, <1>3, <1>4, <1>5 DEF Next

-----------------------------------------------------------------------------
\* The counters of a new detector are zero.
LEMMA CountersInit ==
    Init => Synced /\ TimeThenMiss /\ Accounts /\ Bounded
<1> SUFFICES ASSUME Init PROVE Synced /\ TimeThenMiss /\ Accounts /\ Bounded
  OBVIOUS
<1>1. \A t \in Threads : pc[t] = "idle"
  BY DEF Init
<1>2. Synced /\ TimeThenMiss /\ Accounts
  BY <1>1 DEF Init, Synced, TimeThenMiss, Accounts, Counted, Counting, NoStats, Epoch, Never
<1>3. {t \in Threads : Counted(t)} = {}
  BY <1>1 DEF Counted
<1>4. Bounded
  BY <1>1, <1>3, FS_EmptySet DEF Init, Bounded, Entered, NoStats
<1> QED
  BY <1>2, <1>4

\* No caller knows anything of a new detector.
LEMMA LocalInit == Init => LocalInv
BY DEF Init, LocalInv, Cache, Knows, FreshAt, Never, Storing

\* The inductive invariant: mutual exclusion, ordered times, and what each
\* thread knows of the cache at each point of its call.
THEOREM Invariance ==
    ASSUME Excluding \/ ~EnableCaching
    PROVE  Spec => []IInv
<1>1. Init => IInv
  BY TypingInit, MutexInit, TimesInit, LocalInit, CountersInit DEF IInv, LocalInv
<1>2. IInv /\ [Next]_vars => IInv'
  <2> SUFFICES ASSUME IInv, [Next]_vars PROVE IInv'
    OBVIOUS
  <2>1. TypeOK' /\ Mutex' /\ Times'
    BY TypingStep, MutexStep, TimesStep DEF IInv
  <2>2. TypeOK /\ Mutex /\ Times /\ LocalInv
    BY DEF IInv, LocalInv
  <2>3. LocalInv'
    BY <2>1, <2>2, CachedStep, UncachedStep
  <2>4. Synced'
    BY <2>1, <2>2, <2>3, SyncedStep DEF IInv
  <2>5. EnableCaching => TimeThenMiss'
    BY <2>1, <2>2, TimeThenMissStep DEF IInv
  <2>6. Serial => Accounts'
    BY <2>1, <2>2, AccountsStep DEF IInv
  <2>7. ~EnableCaching => Bounded'
    BY <2>1, <2>2, BoundedStep DEF IInv
  <2> QED
    BY <2>1, <2>3, <2>4, <2>5, <2>6, <2>7 DEF IInv, LocalInv
<1> QED
  BY <1>1, <1>2, PTL DEF Spec

\* No caller is given a fingerprint the machine had longer ago than the cache
\* lifetime (without caching: before the call), however long the probe takes.
THEOREM Freshness ==
    ASSUME Excluding \/ ~EnableCaching
    PROVE  Spec => []Fresh
<1>1. IInv => Fresh
  BY DEF IInv, Fresh
<1> QED
  BY <1>1, Invariance, PTL

\* A caller that waited for the mutex while another refilled the cache uses what
\* it finds there.
THEOREM SingleProbe ==
    ASSUME Excluding \/ ~EnableCaching
    PROVE  Spec => []NoRedundantProbe
<1>1. IInv => NoRedundantProbe
  BY DEF IInv, Knows, NoRedundantProbe
<1> QED
  BY <1>1, Invariance, PTL

\* The age of an empty cache is never computed, nor its value taken.
THEOREM NoEmptyAccess ==
    ASSUME Excluding \/ ~EnableCaching
    PROVE  Spec => []CheckedStaysTrue
<1>1. IInv => CheckedStaysTrue
  BY DEF IInv, Knows, CheckedStaysTrue
<1> QED
  BY <1>1, Invariance, PTL

-----------------------------------------------------------------------------
(* The counters.                                                             *)

\* When calls exclude each other, by the mutex that guards the cache or because
\* there is one caller, the counters add up to the calls made.
THEOREM Accounting ==
    ASSUME Serial
    PROVE  Spec => []StatsAccount
<1>1. Excluding \/ ~EnableCaching
  BY DEF Serial, Excluding
<1>2. IInv => StatsAccount
  <2> SUFFICES ASSUME IInv, AllIdle
               PROVE  stats.hits + stats.misses =
                          served + (IF EnableCaching THEN 0 ELSE failed)
    BY DEF StatsAccount
  <2>1. served \in Nat /\ failed \in Nat /\ Accounts
    BY DEF IInv, TypeOK
  <2>2. ~(\E t \in Threads : Counted(t))
    BY DEF AllIdle, Idle, Counted
  <2> QED
    BY <2>1, <2>2 DEF Accounts
<1> QED
  BY <1>1, <1>2, Invariance, PTL

\* Without caching, calls that overlap may lose an increment of the misses, but
\* none is invented and the first is not lost.
THEOREM BoundedMisses == Spec => []MissesBounded
<1>1. CASE ~EnableCaching
  <2>1. IInv => MissesBounded
    <3> SUFFICES ASSUME IInv, AllIdle
                 PROVE  /\ stats.misses <= served + failed
                        /\ stats.misses = 0 => served + failed = 0
      BY DEF MissesBounded
    <3>1. served \in Nat /\ failed \in Nat /\ Bounded
      BY <1>1 DEF IInv, TypeOK
    <3>2. {t \in Threads : Counted(t)} = {}
      BY DEF AllIdle, Idle, Counted
    <3> QED
      BY <3>1, <3>2, FS_EmptySet DEF Bounded, Entered
  <2> QED
    BY <1>1, <2>1, Invariance, PTL
<1>2. CASE EnableCaching
  <2>1. TypeOK => MissesBounded
    BY <1>2 DEF MissesBounded
  <2> QED
    BY <2>1, Typing, PTL
<1> QED
  BY <1>1, <1>2

\* get_cache_stats never shows a refill half done.
THEOREM WholeSnapshots ==
    ASSUME Excluding, EnableCaching
    PROVE  Spec => []StatsSnapshot
<1>1. IInv => StatsSnapshot
  BY DEF IInv, TimeThenMiss, StatsSnapshot
<1> QED
  BY <1>1, Invariance, PTL

\* When clear_cache returns the cache is empty, and between calls its value and its
\* time belong to one refill.
THEOREM Clearing ==
    ASSUME Excluding \/ ~EnableCaching
    PROVE  Spec => []ClearTakesEffect
<1>1. IInv => ClearTakesEffect
  BY DEF IInv, Knows, Synced, ClearTakesEffect, AllIdle, Idle, Writing
<1> QED
  BY <1>1, Invariance, PTL
=============================================================================
