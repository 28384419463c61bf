---------------------------- MODULE AtomicCache ----------------------------
(***************************************************************************)
(* What a shared HardwareFingerprint with caching promises its callers: each *)
(* call takes effect in one step, between the moment it is made and the      *)
(* moment it returns.  There is no mutex here and no probe in progress.      *)
(***************************************************************************)
EXTENDS Integers

CONSTANTS Threads, Fingerprints, Lifetime, NoValue, Thrown

VARIABLES
    clock, hw, lastSeen,    \* time, the machine, and when it had what
    value, stamp,           \* the cached fingerprint and its time
    stats,                  \* hits, misses, last_update
    phase,                  \* of each thread's call: "idle", "open", "done"
    op,                     \* the method called
    since,                  \* an instant of the call: the answer is true then
    ret, answer, copy       \* what the call returns

environment == <<clock, hw, lastSeen>>
memory == <<value, stamp, stats>>
vars == <<clock, hw, lastSeen, value, stamp, stats,
          phase, op, since, ret, answer, copy>>

Never == -1
NoStats == [hits |-> 0, misses |-> 0, last_update |-> 0]

Init ==
    /\ clock = 1
    /\ hw \in Fingerprints
    /\ lastSeen = [f \in Fingerprints |-> IF f = hw THEN 1 ELSE 0]
    /\ value = NoValue
    /\ stamp = Never
    /\ stats = NoStats
    /\ phase = [t \in Threads |-> "idle"]
    /\ op = [t \in Threads |-> "get"]
    /\ since = [t \in Threads |-> 0]
    /\ ret = [t \in Threads |-> NoValue]
    /\ answer = [t \in Threads |-> FALSE]
    /\ copy = [t \in Threads |-> NoStats]

\* Time passes, or the machine's fingerprint becomes another one.
Environment ==
    /\ \/ clock' = clock + 1 /\ hw' = hw
       \/ clock' = clock /\ hw' \in Fingerprints
    /\ lastSeen' = [lastSeen EXCEPT ![hw'] = clock']
    /\ UNCHANGED <<memory, phase, op, since, ret, answer, copy>>

Begin(t) ==
    /\ phase[t] = "idle"
    /\ phase' = [phase EXCEPT ![t] = "open"]
    /\ \E o \in {"get", "clear", "valid", "stats"} : op' = [op EXCEPT ![t] = o]
    /\ since' = [since EXCEPT ![t] = clock]
    /\ UNCHANGED <<environment, memory, ret, answer, copy>>

\* The call may be answered as of any instant while it is open.
Renew(t) ==
    /\ phase[t] = "open"
    /\ since' = [since EXCEPT ![t] = clock]
    /\ UNCHANGED <<environment, memory, phase, op, ret, answer, copy>>

Useful == value # NoValue /\ clock - stamp <= Lifetime

TakesEffect(t, o) ==
    /\ phase[t] = "open"
    /\ op[t] = o
    /\ phase' = [phase EXCEPT ![t] = "done"]
    /\ UNCHANGED <<environment, op>>

Hit(t) ==
    /\ TakesEffect(t, "get")
    /\ Useful
    /\ stats' = [stats EXCEPT !.hits = @ + 1]
    /\ ret' = [ret EXCEPT ![t] = value]
    /\ since' = [since EXCEPT ![t] = clock]
    /\ UNCHANGED <<value, stamp, answer, copy>>

\* The new fingerprint is one the machine had during the call; its stamp is no
\* later than that, and no earlier than the stamp it replaces.
Refill(t) ==
    /\ TakesEffect(t, "get")
    /\ ~Useful
    /\ \E f \in Fingerprints :
          /\ lastSeen[f] >= since[t]
          /\ value' = f
          /\ ret' = [ret EXCEPT ![t] = f]
    /\ stamp' \in Nat /\ stamp <= stamp' /\ stamp' <= since[t]
    /\ stats' = [hits |-> stats.hits, misses |-> stats.misses + 1, last_update |-> stamp']
    /\ UNCHANGED <<since, answer, copy>>

\* A refill that throws leaves no trace.
Fail(t) ==
    /\ TakesEffect(t, "get")
    /\ ~Useful
    /\ ret' = [ret EXCEPT ![t] = Thrown]
    /\ UNCHANGED <<memory, since, answer, copy>>

Clear(t) ==
    /\ TakesEffect(t, "clear")
    /\ value' = NoValue
    /\ stamp' = Never
    /\ UNCHANGED <<stats, since, ret, answer, copy>>

Valid(t) ==
    /\ TakesEffect(t, "valid")
    /\ answer' = [answer EXCEPT ![t] = Useful]
    /\ since' = [since EXCEPT ![t] = IF value = NoValue THEN @ ELSE clock]
    /\ UNCHANGED <<memory, ret, copy>>

Snapshot(t) ==
    /\ TakesEffect(t, "stats")
    /\ copy' = [copy EXCEPT ![t] = stats]
    /\ UNCHANGED <<memory, since, ret, answer>>

End(t) ==
    /\ phase[t] = "done"
    /\ phase' = [phase EXCEPT ![t] = "idle"]
    /\ op' = [op EXCEPT ![t] = "get"]
    /\ since' = [since EXCEPT ![t] = 0]
    /\ ret' = [ret EXCEPT ![t] = NoValue]
    /\ answer' = [answer EXCEPT ![t] = FALSE]
    /\ copy' = [copy EXCEPT ![t] = NoStats]
    /\ UNCHANGED <<environment, memory>>

Next ==
    \/ Environment
    \/ \E t \in Threads :
          \/ Begin(t) \/ Renew(t) \/ End(t)
          \/ Hit(t) \/ Refill(t) \/ Fail(t) \/ Clear(t) \/ Valid(t) \/ Snapshot(t)

Spec == Init /\ [][Next]_vars
=============================================================================
