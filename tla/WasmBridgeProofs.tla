-------------------------- MODULE WasmBridgeProofs --------------------------
(***************************************************************************)
(* Proofs about WasmBridge, for any texts, hardware ids, timeout and number  *)
(* of calls.                                                                 *)
(***************************************************************************)
EXTENDS WasmBridge, TLAPS

USE TimeoutAssumption, CallsAssumption, NoTextAssumption

\* A license and the text that stands for its signature.
LEMMA LicenseFields ==
    ASSUME NEW l \in Licenses
    PROVE  /\ l.text \in Texts /\ l.signature \in Signatures
           /\ l.text[1] \in Users /\ l.text[2] \in Hwids
           /\ l # NoLicense
BY DEF Licenses, Texts, NoLicense

\* A new call's number is greater than those of the requests made before it.
LEMMA Numbers ==
    ASSUME TypeOK
    PROVE  /\ calls \in Nat
           /\ \A r \in inFlight : /\ r.id \in 1..calls /\ r.id # calls + 1
                                  /\ r = [id |-> r.id, text |-> r.text]
           /\ inFlight \subseteq [id : 1..(calls + 1), text : Texts]
<1>1. calls \in Nat /\ inFlight \subseteq [id : 1..calls, text : Texts]
  BY DEF TypeOK
<1>2. 1..calls \subseteq 1..(calls + 1)
  BY <1>1
<1>3. ASSUME NEW r \in inFlight
      PROVE  /\ r.id \in 1..calls /\ r.id # calls + 1
             /\ r = [id |-> r.id, text |-> r.text]
             /\ r \in [id : 1..(calls + 1), text : Texts]
  BY <1>1, <1>2
<1> QED
  BY <1>1, <1>3

\* The bridge before the first call.
LEMMA InvariantInit == Init => IInv
<1> SUFFICES ASSUME Init PROVE IInv
  OBVIOUS
<1>1. TypeOK
  <2>1. 0 \in 0..Timeout /\ 0 \in 0..MaxCalls
    OBVIOUS
  <2> QED
    BY <2>1 DEF Init, TypeOK, Signatures, Working, Verdicts
<1>2. Located /\ Requests
  BY DEF Init, Located, Requests, Working
<1>3. Answers /\ Meetings
  BY DEF Init, Answers, Meetings, Working, IssuedGenuine, VerdictRight, MatchedDuringCall
<1> QED
  BY <1>1, <1>2, <1>3 DEF IInv

-----------------------------------------------------------------------------
(* Types.                                                                    *)

\* Every step keeps the types and the place of the call in progress.
LEMMA TypingStep ==
    ASSUME TypeOK, Located, [Next]_vars
    PROVE  TypeOK' /\ Located'
<1> USE DEF Signatures, Working, Verdicts, globals, EventLoopRuns
<1>1. CASE hmac_ready
  <2>1. TypeOK'
    BY <1>1 DEF hmac_ready, TypeOK, Located
  <2>2. Located'
    BY <1>1 DEF hmac_ready, TypeOK, Located
  <2> QED
    BY <2>1, <2>2
<1>2. CASE hmac_error
  <2>1. TypeOK'
    BY <1>2 DEF hmac_error, TypeOK, Located
  <2>2. Located'
    BY <1>2 DEF hmac_error, TypeOK, Located
  <2> QED
    BY <2>1, <2>2
<1>3. ASSUME NEW u \in Users, generateLicense(u) PROVE TypeOK' /\ Located'
  <2>0. <<u, current_hwid>> \in Texts
    BY DEF TypeOK, Texts
  <2>1. TypeOK'
    BY <1>3, <2>0, Numbers DEF generateLicense, Begins, TypeOK, Located
  <2>2. Located'
    BY <1>3, <2>0, Numbers DEF generateLicense, Begins, Located
  <2> QED
    BY <2>1, <2>2
<1>4. ASSUME NEW l \in Licenses, validateLicense(l) PROVE TypeOK' /\ Located'
  <2>0. l.text \in Texts
    BY LicenseFields
  <2>1. /\ \/ pc' = "start" /\ verdict' = verdict
           \/ pc' = "ret" /\ verdict' = "hardware mismatch"
        /\ pc = "idle" /\ license' = l /\ text' = l.text /\ op' = "validate"
        /\ calls' = calls + 1 /\ calls < MaxCalls /\ met' = {current_hwid}
        /\ UNCHANGED <<globals, current_hwid, inFlight, elapsed, issued, abandoned>>
    BY <1>4 DEF validateLicense, Begins
  <2>2. calls' \in 0..MaxCalls /\ calls' > 0
    <3>1. calls \in 0..MaxCalls
      BY DEF TypeOK
    <3>2. calls' = calls + 1 /\ calls < MaxCalls
      BY <2>1
    <3> QED
      BY <3>1, <3>2
  <2>3. TypeOK'
    BY <2>0, <2>1, <2>2, Numbers DEF TypeOK
  <2>4. Located'
    BY <2>0, <2>1, <2>2 DEF Located
  <2> QED
    BY <2>3, <2>4
<1>5. CASE generateNewHwid
  <2>1. TypeOK'
    BY <1>5 DEF generateNewHwid, TypeOK, Located
  <2>2. Located'
    BY <1>5 DEF generateNewHwid, TypeOK, Located
  <2> QED
    BY <2>1, <2>2
<1>6. CASE Start
  <2>1. TypeOK'
    <3>1. [id |-> calls, text |-> text] \in [id : 1..calls, text : Texts]
      BY <1>6, Numbers DEF Start, Located
    <3> QED
      <4>1. inFlight' \subseteq [id : 1..calls, text : Texts]
        BY <1>6, <3>1 DEF Start, TypeOK
      <4>2. elapsed' \in 0..Timeout /\ UNCHANGED calls
        BY <1>6 DEF Start
      <4> QED
        BY <1>6, <4>1, <4>2 DEF Start, TypeOK
  <2>2. Located'
    BY <1>6 DEF Start, TypeOK, Located
  <2> QED
    BY <2>1, <2>2
<1>7. CASE Test
  <2>1. TypeOK'
    BY <1>7 DEF Test, Waits, GivesUp, TypeOK, Located
  <2>2. Located'
    BY <1>7 DEF Test, Waits, GivesUp, TypeOK, Located
  <2> QED
    BY <2>1, <2>2
<1>8. CASE Wake
  <2>1. TypeOK'
    BY <1>8 DEF Wake, TypeOK, Located
  <2>2. Located'
    BY <1>8 DEF Wake, TypeOK, Located
  <2> QED
    BY <2>1, <2>2
<1>9. CASE Threw
  <2>1. TypeOK'
    BY <1>9 DEF Threw, TypeOK, Located
  <2>2. Located'
    BY <1>9 DEF Threw, TypeOK, Located
  <2> QED
    BY <2>1, <2>2
<1>10. CASE Computed
  <2>1. TypeOK'
    <3>1. [text |-> text, signature |-> pending_hmac_result] \in Licenses
      BY <1>10 DEF Computed, TypeOK, Located, Licenses
    <3>2. issued' \subseteq Licenses /\ verdict' \in Verdicts
      BY <1>10, <3>1 DEF Computed, TypeOK
    <3> QED
      BY <1>10, <3>2 DEF Computed, TypeOK
  <2>2. Located'
    BY <1>10 DEF Computed, TypeOK, Located
  <2> QED
    BY <2>1, <2>2
<1>11. CASE Return
  <2>1. TypeOK'
    <3>1. elapsed' \in 0..Timeout
      BY <1>11 DEF Return
    <3> QED
      BY <1>11, <3>1 DEF Return, TypeOK
  <2>2. Located'
    BY <1>11 DEF Return, TypeOK, Located
  <2> QED
    BY <2>1, <2>2
<1>12. CASE UNCHANGED vars
  <2>1. TypeOK'
    BY <1>12 DEF vars, TypeOK, Located
  <2>2. Located'
    BY <1>12 DEF vars, TypeOK, Located
  <2> QED
    BY <2>1, <2>2
<1> QED
  BY <1>1, <1>2, <1>3, <1>4, <1>5, <1>6, <1>7, <1>8, <1>9, <1>10, <1>11, <1>12 DEF Next, Running

-----------------------------------------------------------------------------
(* What is in flight.                                                        *)

\* Every step keeps one request for each call.
LEMMA RequestsStep ==
    ASSUME TypeOK, Located, Requests, [Next]_vars
    PROVE  Requests'
<1> USE DEF Working, globals, EventLoopRuns, Unanswered
<1>1. CASE hmac_ready
  BY <1>1 DEF hmac_ready, TypeOK, Located, Requests
<1>2. CASE hmac_error
  BY <1>2 DEF hmac_error, TypeOK, Located, Requests
<1>3. ASSUME NEW u \in Users, generateLicense(u) PROVE Requests'
  BY <1>3 DEF generateLicense, Begins, TypeOK, Located, Requests
<1>4. ASSUME NEW l \in Licenses, validateLicense(l) PROVE Requests'
  <2>1. calls' = calls + 1 /\ inFlight' = inFlight /\ pc' \in {"start", "ret"}
    BY <1>4 DEF validateLicense, Begins
  <2> QED
    BY <2>1, Numbers DEF Requests
<1>5. CASE generateNewHwid
  BY <1>5 DEF generateNewHwid, TypeOK, Located, Requests
<1>6. CASE Start
  <2> DEFINE q == [id |-> calls, text |-> text]
  <2>1. /\ pc = "start" /\ pc' = "test" /\ inFlight' = inFlight \cup {q}
        /\ UNCHANGED <<calls, text>>
    BY <1>6 DEF Start
  <2>2. q.id = calls /\ q.text = text
    OBVIOUS
  <2> HIDE DEF q
  <2>3. \A r \in inFlight : r.id # calls
    BY <2>1 DEF Requests
  <2>4. \A r, s \in inFlight' : r.id = s.id => r = s
    BY <2>1, <2>2, <2>3 DEF Requests
  <2> QED
    BY <2>1, <2>2, <2>3, <2>4 DEF Requests
<1>7. CASE Test
  BY <1>7 DEF Test, Waits, GivesUp, TypeOK, Located, Requests
<1>8. CASE Wake
  BY <1>8 DEF Wake, TypeOK, Located, Requests
<1>9. CASE Threw
  BY <1>9 DEF Threw, TypeOK, Located, Requests
<1>10. CASE Computed
  BY <1>10 DEF Computed, TypeOK, Located, Requests
<1>11. CASE Return
  BY <1>11 DEF Return, TypeOK, Located, Requests
<1>12. CASE UNCHANGED vars
  BY <1>12 DEF vars, TypeOK, Located, Requests
<1> QED
  BY <1>1, <1>2, <1>3, <1>4, <1>5, <1>6, <1>7, <1>8, <1>9, <1>10, <1>11, <1>12 DEF Next, Running

-----------------------------------------------------------------------------
(* What the globals hold.                                                    *)

\* Every step keeps the answers those of their own calls, until a call is abandoned.
LEMMA AnswersStep ==
    ASSUME TypeOK, Located, Requests, abandoned \/ Answers, [Next]_vars
    PROVE  abandoned' \/ Answers'
<1> USE DEF Working, globals, EventLoopRuns, Unanswered, Genuine, IssuedGenuine, VerdictRight
<1> SUFFICES ASSUME ~abandoned' PROVE Answers'
  OBVIOUS
<1>1. CASE hmac_ready
  BY <1>1 DEF hmac_ready, TypeOK, Located, Requests, Answers
<1>2. CASE hmac_error
  BY <1>2 DEF hmac_error, TypeOK, Located, Requests, Answers
<1>3. ASSUME NEW u \in Users, generateLicense(u) PROVE Answers'
  BY <1>3 DEF generateLicense, Begins, TypeOK, Located, Requests, Answers
<1>4. ASSUME NEW l \in Licenses, validateLicense(l) PROVE Answers'
  BY <1>4 DEF validateLicense, Begins, TypeOK, Located, Requests, Answers
<1>5. CASE generateNewHwid
  BY <1>5 DEF generateNewHwid, TypeOK, Located, Requests, Answers
<1>6. CASE Start
  BY <1>6 DEF Start, TypeOK, Located, Requests, Answers
<1>7. CASE Test
  <2>0. ~abandoned /\ (pc' = "threw" => ~Unanswered)
    <3>1. abandoned \in BOOLEAN
      BY DEF TypeOK
    <3>2. \/ pc' \in {"asleep", "computed"} /\ abandoned' = abandoned
          \/ pc' = "threw" /\ abandoned' = (abandoned \/ \E r \in inFlight : r.id = calls)
      BY <1>7 DEF Test
    <3> QED
      BY <3>1, <3>2
  <2>1. Answers /\ (pc' = "threw" => ~Unanswered)
    BY <2>0
  <2>2. /\ pc = "test" /\ UNCHANGED <<globals, inFlight, text, issued, verdict, license, calls>>
    BY <1>7 DEF Test
  <2>3. CASE pc' = "asleep"
    BY <2>1, <2>2, <2>3 DEF Answers
  <2>4. CASE pc' = "computed" /\ ~Waits /\ ~GivesUp
    <3>1. hmac_operation_complete /\ ~hmac_operation_error
      BY <2>4 DEF Waits, GivesUp, TypeOK
    <3> QED
      BY <2>1, <2>2, <2>4, <3>1 DEF Answers
  <2>5. CASE pc' = "threw"
    <3>1. inFlight = {}
      BY <2>1, <2>2, <2>5 DEF Answers
    <3> QED
      BY <2>1, <2>2, <2>5, <3>1 DEF Answers
  <2> QED
    BY <1>7, <2>3, <2>4, <2>5 DEF Test
<1>8. CASE Wake
  BY <1>8 DEF Wake, TypeOK, Located, Requests, Answers
<1>9. CASE Threw
  BY <1>9 DEF Threw, TypeOK, Located, Requests, Answers
<1>10. CASE Computed
  <2>1. /\ Answers /\ pc = "computed" /\ pc' = "ret" /\ op \in {"generate", "validate"}
        /\ UNCHANGED <<globals, inFlight, text, license, calls>>
    BY <1>10 DEF Computed, Located
  <2>2. pending_hmac_result = text /\ inFlight = {}
    BY <2>1 DEF Answers
  <2>3. IssuedGenuine'
    <3> DEFINE l == [text |-> text, signature |-> pending_hmac_result]
    <3>1. Genuine(l)
      BY <2>2
    <3>2. issued' \subseteq issued \cup {l}
      BY <1>10 DEF Computed
    <3> HIDE DEF l
    <3> QED
      BY <2>1, <3>1, <3>2 DEF Answers
  <2>4. VerdictRight'
    <3>1. CASE op = "generate"
      BY <1>10, <3>1 DEF Computed
    <3>2. CASE op = "validate"
      <4>1. license.text = text
        BY <2>1, <3>2 DEF Located
      <4>2. verdict' = IF license.signature = license.text THEN "valid" ELSE "invalid signature"
        BY <1>10, <2>2, <3>2, <4>1 DEF Computed
      <4> QED
        BY <2>1, <4>2
    <3> QED
      BY <2>1, <3>1, <3>2
  <2> QED
    BY <2>1, <2>2, <2>3, <2>4 DEF Answers
<1>11. CASE Return
  BY <1>11 DEF Return, TypeOK, Located, Requests, Answers
<1>12. CASE UNCHANGED vars
  BY <1>12 DEF vars, TypeOK, Located, Requests, Answers
<1> QED
  BY <1>1, <1>2, <1>3, <1>4, <1>5, <1>6, <1>7, <1>8, <1>9, <1>10, <1>11, <1>12 DEF Next, Running

-----------------------------------------------------------------------------
(* Whom a validation has met.                                                *)

\* Every step keeps the hardware id of a matching license one met during the call.
LEMMA MeetingsStep ==
    ASSUME TypeOK, Located, Meetings, [Next]_vars
    PROVE  Meetings'
<1> USE DEF Working, globals, EventLoopRuns, MatchedDuringCall
<1>1. CASE hmac_ready
  BY <1>1 DEF hmac_ready, TypeOK, Located, Meetings
<1>2. CASE hmac_error
  BY <1>2 DEF hmac_error, TypeOK, Located, Meetings
<1>3. ASSUME NEW u \in Users, generateLicense(u) PROVE Meetings'
  BY <1>3 DEF generateLicense, Begins, TypeOK, Located, Meetings
<1>4. ASSUME NEW l \in Licenses, validateLicense(l) PROVE Meetings'
  BY <1>4 DEF validateLicense, Begins, TypeOK, Located, Meetings
<1>5. CASE generateNewHwid
  BY <1>5 DEF generateNewHwid, TypeOK, Located, Meetings
<1>6. CASE Start
  BY <1>6 DEF Start, TypeOK, Located, Meetings
<1>7. CASE Test
  BY <1>7 DEF Test, Waits, GivesUp, TypeOK, Located, Meetings
<1>8. CASE Wake
  BY <1>8 DEF Wake, TypeOK, Located, Meetings
<1>9. CASE Threw
  BY <1>9 DEF Threw, TypeOK, Located, Meetings
<1>10. CASE Computed
  BY <1>10 DEF Computed, TypeOK, Located, Meetings
<1>11. CASE Return
  BY <1>11 DEF Return, TypeOK, Located, Meetings
<1>12. CASE UNCHANGED vars
  BY <1>12 DEF vars, TypeOK, Located, Meetings
<1> QED
  BY <1>1, <1>2, <1>3, <1>4, <1>5, <1>6, <1>7, <1>8, <1>9, <1>10, <1>11, <1>12 DEF Next, Running

-----------------------------------------------------------------------------
(* The invariant and what follows from it.                                   *)

\* The inductive invariant: which requests may be in flight at each label, and
\* whose answer the globals hold while no call has given up.
THEOREM Invariance == Spec => []IInv
<1>1. Init => IInv
  BY InvariantInit
<1>2. IInv /\ [Next]_vars => IInv'
  BY TypingStep, RequestsStep, AnswersStep, MeetingsStep DEF IInv
<1> QED
  BY <1>1, <1>2, PTL DEF Spec

\* The globals, the call and the requests are of their types; the polling loop of
\* compute_hmac_sha256 (license_core_wasm.cpp:89-96) never counts past its timeout.
THEOREM Typing == Spec => []TypeOK
<1>1. IInv => TypeOK
  BY DEF IInv
<1> QED
  BY <1>1, Invariance, PTL

\* However late, failing or missing the browser's answers, a wrong signature or
\* verdict needs an earlier call that gave up waiting.
THEOREM NoWrongAnswer == Spec => []WrongOnlyIfAbandoned
<1>1. IInv => WrongOnlyIfAbandoned
  BY DEF IInv, Answers, WrongOnlyIfAbandoned
<1> QED
  BY <1>1, Invariance, PTL

\* A call leaves at most its own request behind, and waits no longer than that is
\* in flight.
THEOREM OneRequest == Spec => []OneRequestPerCall
<1>1. IInv => OneRequestPerCall
  BY DEF IInv, Requests, Answers, OneRequestPerCall
<1> QED
  BY <1>1, Invariance, PTL

\* A verdict on the hardware was right at some moment of the call.
THEOREM Matched == Spec => []MatchedDuringCall
<1>1. IInv => MatchedDuringCall
  BY DEF IInv, Meetings
<1> QED
  BY <1>1, Invariance, PTL
=============================================================================
