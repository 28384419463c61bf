----------------------------- MODULE WasmBridge -----------------------------
(***************************************************************************)
(* The WebAssembly port (src/wasm/license_core_wasm.cpp): a LicenseCoreWasm  *)
(* object whose HMAC is computed by the browser.  The C++ side posts a       *)
(* request, then sleeps and polls three global variables; while it sleeps,   *)
(* or when no call is running, the event loop may run the callback of any    *)
(* request that is still in flight.                                          *)
(*                                                                          *)
(* The HMAC of a text under the object's key is represented by the text.     *)
(***************************************************************************)
EXTENDS Integers

CONSTANTS
    Users,      \* what distinguishes one license text from another
    Hwids,      \* values get_browser_fingerprint can return
    Timeout,    \* timeout_ms / poll_interval_ms
    MaxCalls,   \* bound: calls made
    NoText      \* the empty std::string

ASSUME TimeoutAssumption == Timeout \in Nat \ {0}
ASSUME CallsAssumption == MaxCalls \in Nat

\* The license without its signature, and with it.
Texts == Users \X Hwids
ASSUME NoTextAssumption == NoText \notin Texts
Signatures == Texts \cup {NoText}
Licenses == [text : Texts, signature : Signatures]

VARIABLES
    \* the globals
    pending_hmac_result, hmac_operation_complete, hmac_operation_error,
    \* the object
    current_hwid,
    \* external: requests the browser has not answered yet
    inFlight,
    \* the call in progress
    pc, op,
    license,        \* the argument of validateLicense
    text,           \* what is to be signed
    elapsed,        \* elapsed_ms, in poll intervals
    verdict,        \* how the call ended
    calls,
    \* history
    issued,         \* the licenses generateLicense returned
    abandoned,      \* some call gave up while its request was in flight
    met             \* the hardware ids there were during the call

globals == <<pending_hmac_result, hmac_operation_complete, hmac_operation_error>>
vars == <<pending_hmac_result, hmac_operation_complete, hmac_operation_error,
          current_hwid, inFlight, pc, op, license, text, elapsed, verdict,
          calls, issued, abandoned, met>>

NoLicense == [text |-> NoText, signature |-> NoText]

Init ==
    /\ pending_hmac_result = NoText
    /\ hmac_operation_complete = FALSE
    /\ hmac_operation_error = FALSE
    /\ current_hwid \in Hwids
    /\ inFlight = {}
    /\ pc = "idle"
    /\ op = "none"
    /\ license = NoLicense
    /\ text = NoText
    /\ elapsed = 0
    /\ verdict = "none"
    /\ calls = 0
    /\ issued = {}
    /\ abandoned = FALSE
    /\ met = {}

-----------------------------------------------------------------------------
(* The callbacks, run by the event loop.                                    *)

EventLoopRuns == pc \in {"idle", "asleep"}

\* The reply is copied through the buffer of the call that asked for it.  When
\* that call has given up, the buffer is dead stack memory; nothing else lives
\* there until the next call, which has its own buffer at the same place.
hmac_ready ==
    /\ EventLoopRuns
    /\ \E r \in inFlight :
          /\ inFlight' = inFlight \ {r}
          /\ pending_hmac_result' = r.text
    /\ hmac_operation_complete' = TRUE
    /\ hmac_operation_error' = FALSE
    /\ UNCHANGED <<current_hwid, pc, op, license, text, elapsed, verdict,
                   calls, issued, abandoned, met>>

hmac_error ==
    /\ EventLoopRuns
    /\ \E r \in inFlight : inFlight' = inFlight \ {r}
    /\ hmac_operation_complete' = TRUE
    /\ hmac_operation_error' = TRUE
    /\ pending_hmac_result' = NoText
    /\ UNCHANGED <<current_hwid, pc, op, license, text, elapsed, verdict,
                   calls, issued, abandoned, met>>

-----------------------------------------------------------------------------
(* The methods.                                                             *)

Begins(o) ==
    /\ pc = "idle"
    /\ calls < MaxCalls
    /\ calls' = calls + 1
    /\ op' = o
    /\ met' = {current_hwid}
    /\ UNCHANGED <<globals, current_hwid, inFlight, elapsed, issued, abandoned>>

generateLicense(u) ==
    /\ Begins("generate")
    /\ text' = <<u, current_hwid>>
    /\ pc' = "start"
    /\ UNCHANGED <<license, verdict>>

\* Defective variant: the hardware is not compared.
validateLicense_AnyHardware(l) ==
    /\ Begins("validate")
    /\ license' = l
    /\ text' = l.text
    /\ pc' = "start"
    /\ UNCHANGED verdict

\* The hardware is compared before the signature is computed.
validateLicense(l) ==
    /\ Begins("validate")
    /\ license' = l
    /\ text' = l.text
    /\ IF l.text[2] # current_hwid
       THEN pc' = "ret" /\ verdict' = "hardware mismatch"
       ELSE pc' = "start" /\ verdict' = verdict

\* It does not wait for the browser, so it may run while another call sleeps.
generateNewHwid ==
    /\ EventLoopRuns
    /\ current_hwid' \in Hwids
    /\ met' = IF pc = "idle" THEN met ELSE met \cup {current_hwid'}
    /\ UNCHANGED <<globals, inFlight, pc, op, license, text, elapsed, verdict,
                   calls, issued, abandoned>>

-----------------------------------------------------------------------------
(* compute_hmac_sha256.                                                     *)

\* Defective variant: the flag of the previous operation is not reset.
Start_NoReset ==
    /\ pc = "start"
    /\ hmac_operation_error' = FALSE
    /\ pending_hmac_result' = NoText
    /\ inFlight' = inFlight \cup {[id |-> calls, text |-> text]}
    /\ elapsed' = 0
    /\ pc' = "test"
    /\ UNCHANGED <<hmac_operation_complete, current_hwid, op, license, text, verdict,
                   calls, issued, abandoned, met>>

Start ==
    /\ pc = "start"
    /\ hmac_operation_complete' = FALSE
    /\ hmac_operation_error' = FALSE
    /\ pending_hmac_result' = NoText
    /\ inFlight' = inFlight \cup {[id |-> calls, text |-> text]}
    /\ elapsed' = 0
    /\ pc' = "test"
    /\ UNCHANGED <<current_hwid, op, license, text, verdict, calls, issued, abandoned, met>>

Unanswered == \E r \in inFlight : r.id = calls

\* Defective variant: no timeout.
Waits_Unbounded == ~hmac_operation_complete

\* The loop condition, then the test after the loop, which throws away a reply
\* that arrived in the last interval.
Waits == ~hmac_operation_complete /\ elapsed < Timeout
GivesUp == hmac_operation_error \/ elapsed >= Timeout

Test ==
    /\ pc = "test"
    /\ \/ Waits /\ pc' = "asleep" /\ abandoned' = abandoned
       \/ ~Waits /\ ~GivesUp /\ pc' = "computed" /\ abandoned' = abandoned
       \/ ~Waits /\ GivesUp /\ pc' = "threw" /\ abandoned' = (abandoned \/ Unanswered)
    /\ UNCHANGED <<globals, current_hwid, inFlight, op, license, text, elapsed,
                   verdict, calls, issued, met>>

\* Defective variant: the time asleep is not counted.
Wake_Uncounted ==
    /\ pc = "asleep"
    /\ pc' = "test"
    /\ UNCHANGED <<globals, current_hwid, inFlight, op, license, text, elapsed,
                   verdict, calls, issued, abandoned, met>>

\* emscripten_sleep returns.
Wake ==
    /\ pc = "asleep"
    /\ elapsed' = elapsed + 1
    /\ pc' = "test"
    /\ UNCHANGED <<globals, current_hwid, inFlight, op, license, text, verdict,
                   calls, issued, abandoned, met>>

\* generateLicense lets the exception through; validateLicense reports it.
Threw ==
    /\ pc = "threw"
    /\ verdict' = IF op = "generate" THEN "exception" ELSE "error"
    /\ pc' = "ret"
    /\ UNCHANGED <<globals, current_hwid, inFlight, op, license, text, elapsed,
                   calls, issued, abandoned, met>>

Computed ==
    /\ pc = "computed"
    /\ IF op = "generate"
       THEN /\ issued' = issued \cup {[text |-> text, signature |-> pending_hmac_result]}
            /\ verdict' = "done"
       ELSE /\ issued' = issued
            /\ verdict' = IF license.signature = pending_hmac_result
                          THEN "valid" ELSE "invalid signature"
    /\ pc' = "ret"
    /\ UNCHANGED <<globals, current_hwid, inFlight, op, license, text, elapsed,
                   calls, abandoned, met>>

Return ==
    /\ pc = "ret"
    /\ pc' = "idle"
    /\ op' = "none"
    /\ license' = NoLicense
    /\ text' = NoText
    /\ elapsed' = 0
    /\ verdict' = "none"
    /\ met' = {}
    /\ UNCHANGED <<globals, current_hwid, inFlight, calls, issued, abandoned>>

Running == Start \/ Test \/ Wake \/ Computed \/ Threw \/ Return

Next ==
    \/ hmac_ready
    \/ hmac_error
    \/ \E u \in Users : generateLicense(u)
    \/ \E l \in Licenses : validateLicense(l)
    \/ generateNewHwid
    \/ Running

Spec == Init /\ [][Next]_vars

\* A call that has started keeps running: timers fire.  The browser owes no answer.
FairSpec == Spec /\ WF_vars(Running)
-----------------------------------------------------------------------------
Working == {"start", "test", "asleep", "computed", "threw"}
Verdicts == {"none", "done", "exception", "error", "valid", "invalid signature",
             "hardware mismatch"}

TypeOK ==
    /\ pc \in Working \cup {"idle", "ret"}
    /\ op \in {"none", "generate", "validate"}
    /\ verdict \in Verdicts
    /\ pending_hmac_result \in Signatures
    /\ hmac_operation_complete \in BOOLEAN
    /\ hmac_operation_error \in BOOLEAN
    /\ current_hwid \in Hwids
    /\ inFlight \subseteq [id : 1..calls, text : Texts]
    /\ text \in Signatures
    /\ elapsed \in 0..Timeout
    /\ calls \in 0..MaxCalls
    /\ issued \subseteq Licenses
    /\ license \in Licenses \cup {NoLicense}
    /\ abandoned \in BOOLEAN
    /\ met \subseteq Hwids

Genuine(l) == l.signature = l.text

\* Every license that is handed out carries its own signature: compute_hmac_sha256
\* returns the HMAC of the text it was given (a synchronous wrapper, cpp:76).
IssuedGenuine == \A l \in issued : Genuine(l)

\* validateLicense calls a signature valid, or invalid, only when it is.
VerdictRight ==
    /\ verdict = "valid" => Genuine(license)
    /\ verdict = "invalid signature" => ~Genuine(license)

\* A wrong signature or verdict needs an earlier call that gave up waiting: the
\* reset at the start of each call (cpp:79-81) is enough against answers that were
\* in time, and against failures.
WrongOnlyIfAbandoned == abandoned \/ (IssuedGenuine /\ VerdictRight)

\* generateNewHwid may replace the hardware id while a validation sleeps (cpp:220),
\* so a verdict need not be true of the id there is when it is given: but the page
\* had the id of a license that passes at some moment of the call, and another id
\* than that of a license whose hardware does not match.
MatchedDuringCall ==
    /\ verdict = "valid" => license.text[2] \in met
    /\ verdict = "hardware mismatch" => met \ {license.text[2]} # {}

\* A call that gave up leaves at most its own request behind, and a second reply
\* cannot answer the same call: what is in flight is older than the call or its own.
OneRequestPerCall ==
    /\ \A r, s \in inFlight : r.id = s.id => r = s
    /\ pc \in {"test", "asleep"} /\ ~hmac_operation_complete => Unanswered
    /\ ~abandoned /\ pc \in {"idle", "start"} => inFlight = {}

\* Every call ends, though the browser may never answer.
CallEnds == pc # "idle" ~> pc = "idle"

-----------------------------------------------------------------------------
(* Why it is so: an invariant that every step preserves.  Proved in           *)
(* WasmBridgeProofs.                                                         *)

\* The arguments of the call in progress.
Located ==
    /\ pc = "idle" => op = "none" /\ license = NoLicense
    /\ pc # "idle" => op \in {"generate", "validate"} /\ calls > 0
    /\ pc # "ret" => verdict = "none"
    /\ pc \in Working => text \in Texts
    /\ pc \in Working /\ op = "validate" => license \in Licenses /\ license.text = text
    /\ pc = "asleep" => elapsed < Timeout

\* A request in flight is one of the calls', each call has made one at most, and
\* the call in progress waits while its own is in flight.
Requests ==
    /\ \A r, s \in inFlight : r.id = s.id => r = s
    /\ \A r \in inFlight : r.id = calls => pc # "start" /\ (pc \in Working => r.text = text)
    /\ pc \in {"test", "asleep"} /\ ~hmac_operation_complete => Unanswered

\* While no call has given up, nothing but the request of the call in progress is in
\* flight, so what the globals hold is the answer to it.
Answers ==
    /\ pc \in {"test", "asleep"} => \A r \in inFlight : r.id = calls
    /\ pc \notin {"test", "asleep"} \/ hmac_operation_complete => inFlight = {}
    /\ pc = "computed" => hmac_operation_complete /\ ~hmac_operation_error
    /\ pc \in {"test", "asleep", "computed"} /\ hmac_operation_complete =>
           hmac_operation_error \/ pending_hmac_result = text
    /\ IssuedGenuine
    /\ VerdictRight

\* A validation begins on its license's machine.
Meetings ==
    /\ pc \in Working /\ op = "validate" => license.text[2] \in met
    /\ MatchedDuringCall

IInv == TypeOK /\ Located /\ Requests /\ (abandoned \/ Answers) /\ Meetings
=============================================================================
