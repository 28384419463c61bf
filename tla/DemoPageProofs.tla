--------------------------- MODULE DemoPageProofs ---------------------------
(***************************************************************************)
(* Proofs about DemoPage, for any limit and any number of clicks and hours.  *)
(***************************************************************************)
EXTENDS DemoPage, FiniteSetTheorems, TLAPS

USE LimitAssumption, BoundAssumption

\* What bounds a sum bounds one of smaller numbers, or of one more and one less.
LEMMA Sums ==
    ASSUME NEW a \in Nat, NEW b \in Nat, NEW c \in Nat, NEW d \in Nat, NEW k \in Int,
           a + b <= k, d <= b, c <= a \/ (c <= a + 1 /\ d <= b - 1)
    PROVE  c + d <= k
OBVIOUS

\* The maximum of two numbers is one of them and at least each.
LEMMA MaxPair ==
    ASSUME NEW a \in Nat, NEW b \in Nat
    PROVE  /\ Max({a, b}) \in Nat
           /\ Max({a, b}) = a \/ Max({a, b}) = b
           /\ Max({a, b}) >= a /\ Max({a, b}) >= b
<1>1. CASE a >= b
  BY <1>1 DEF Max
<1>2. CASE b >= a
  BY <1>2 DEF Max
<1> QED
  BY <1>1, <1>2

\* Of the handlers that wait, the generations are a finite part.
LEMMA FinitePart ==
    ASSUME NEW ws, IsFiniteSet(ws)
    PROVE  /\ IsFiniteSet(Generations(ws))
           /\ Cardinality(Generations(ws)) \in Nat
BY FS_Subset, FS_CardinalityType DEF Generations

\* A handler that begins to wait.
LEMMA OneMore ==
    ASSUME NEW ws, IsFiniteSet(ws), NEW w
    PROVE  /\ IsFiniteSet(ws \cup {w})
           /\ Cardinality(Generations(ws \cup {w})) <= Cardinality(Generations(ws)) + 1
           /\ w.op \notin {"generate", "measure"} => Generations(ws \cup {w}) = Generations(ws)
<1>1. IsFiniteSet(ws \cup {w})
  BY FS_AddElement
<1>2. w.op \notin {"generate", "measure"} => Generations(ws \cup {w}) = Generations(ws)
  BY DEF Generations
<1>3. w.op \in {"generate", "measure"} => Generations(ws \cup {w}) = Generations(ws) \cup {w}
  BY DEF Generations
<1>4. Cardinality(Generations(ws \cup {w})) <= Cardinality(Generations(ws)) + 1
  <2>1. IsFiniteSet(Generations(ws)) /\ Cardinality(Generations(ws)) \in Nat
    BY FinitePart
  <2>2. Cardinality(Generations(ws) \cup {w}) <= Cardinality(Generations(ws)) + 1
    <3>1. Cardinality(Generations(ws) \cup {w}) =
              IF w \in Generations(ws) THEN Cardinality(Generations(ws))
                                       ELSE Cardinality(Generations(ws)) + 1
      BY <2>1, FS_AddElement
    <3> QED
      BY <2>1, <3>1
  <2> QED
    BY <1>2, <1>3, <2>1, <2>2
<1> QED
  BY <1>1, <1>2, <1>4

\* A handler that is done waiting.
LEMMA OneLess ==
    ASSUME NEW ws, IsFiniteSet(ws), NEW w \in ws
    PROVE  /\ IsFiniteSet(ws \ {w})
           /\ Cardinality(Generations(ws \ {w})) =
                  Cardinality(Generations(ws)) - (IF w.op \in {"generate", "measure"} THEN 1 ELSE 0)
<1>1. IsFiniteSet(ws \ {w})
  BY FS_RemoveElement
<1>2. CASE w.op \in {"generate", "measure"}
  <2>1. Generations(ws \ {w}) = Generations(ws) \ {w} /\ w \in Generations(ws)
    BY <1>2 DEF Generations
  <2> QED
    BY <1>1, <1>2, <2>1, FinitePart, FS_RemoveElement
<1>3. CASE w.op \notin {"generate", "measure"}
  <2>1. Generations(ws \ {w}) = Generations(ws)
    BY <1>3 DEF Generations
  <2> QED
    BY <1>1, <1>3, <2>1, FinitePart
<1> QED
  BY <1>2, <1>3

\* A new text overtakes every handler that waits; no generation is added.
LEMMA Overtaking ==
    ASSUME NEW ws, IsFiniteSet(ws), ws \subseteq Waiting
    PROVE  LET vs == {[w EXCEPT !.overtaken = TRUE] : w \in ws}
           IN  /\ IsFiniteSet(vs)
               /\ vs \subseteq Waiting
               /\ \A v \in vs : v.overtaken = TRUE /\ \E w \in ws : v.op = w.op
               /\ Cardinality(Generations(vs)) <= Cardinality(Generations(ws))
<1> DEFINE vs == {[w EXCEPT !.overtaken = TRUE] : w \in ws}
           gs == Generations(ws)
           f == [w \in ws |-> [w EXCEPT !.overtaken = TRUE]]
           g == [w \in gs |-> [w EXCEPT !.overtaken = TRUE]]
<1>1. \A w \in ws : /\ [w EXCEPT !.overtaken = TRUE] \in Waiting
                    /\ [w EXCEPT !.overtaken = TRUE].overtaken = TRUE
                    /\ [w EXCEPT !.overtaken = TRUE].op = w.op
  BY DEF Waiting
<1>2. vs \subseteq Waiting /\ \A v \in vs : v.overtaken = TRUE /\ \E w \in ws : v.op = w.op
  BY <1>1
<1>3. IsFiniteSet(vs)
  <2>1. f \in Surjection(ws, vs)
    BY DEF Surjection
  <2> QED
    BY <2>1, FS_Surjection
<1>4. Cardinality(Generations(vs)) <= Cardinality(gs)
  <2>1. Generations(vs) = {[w EXCEPT !.overtaken = TRUE] : w \in gs}
    BY <1>1, ZenonT(40) DEF Generations
  <2>2. g \in Surjection(gs, Generations(vs))
    BY <2>1 DEF Surjection
  <2> QED
    BY <2>2, FinitePart, FS_Surjection
<1> QED
  BY <1>2, <1>3, <1>4

\* The next license of the performance test waits in the place of the one before.
LEMMA NextIteration ==
    ASSUME TypeOK, NEW w \in Waiting, w.left > 0
    PROVE  Again(w) \in Waiting /\ Again(w).op = w.op
<1>1. /\ w.left \in 0..(Iterations - 1) /\ currentHwid \in 0..currentHwid
      /\ w.license \in Texts
  BY DEF TypeOK, Waiting
<1>2. w.left - 1 \in 0..(Iterations - 1)
  BY <1>1
<1>3. [w.license EXCEPT !.hardware_hash = currentHwid] \in Texts
  BY <1>1 DEF Texts
<1>4. PICK v : v = [w EXCEPT !.left = w.left - 1]
  OBVIOUS
<1>5. v \in Waiting /\ v.op = w.op /\ v.license = w.license
  BY <1>2, <1>4 DEF Waiting
<1>6. Again(w) = [v EXCEPT !.license = [v.license EXCEPT !.hardware_hash = currentHwid]]
  BY <1>4 DEF Again
<1> QED
  BY <1>3, <1>5, <1>6 DEF Waiting

-----------------------------------------------------------------------------
(* The limit on licenses per hour.                                           *)

\* The limit is tested before anything is counted.
LEMMA Tested ==
    ASSUME TypeOK, NEW count \in Nat, NEW b \in BOOLEAN, checkRateLimit(count, b)
    PROVE  /\ licenseCount' \in Nat /\ licenseCount' <= count
           /\ sessionStart' \in 0..hour
           /\ ~b => licenseCount' <= MaxLicenses - 1
<1>1. sessionStart \in 0..hour /\ hour \in Nat
  BY DEF TypeOK
<1>2. b <=> (licenseCount' >= MaxLicenses)
  BY DEF checkRateLimit
<1>3. CASE hour > sessionStart
  BY <1>1, <1>2, <1>3 DEF checkRateLimit
<1>4. CASE ~(hour > sessionStart)
  BY <1>1, <1>2, <1>4 DEF checkRateLimit
<1> QED
  BY <1>3, <1>4

\* Counting no more, or one more for one handler that waits no longer, keeps the account.
LEMMA FewerCounted ==
    ASSUME TypeOK, Counts, peak' = peak, IsFiniteSet(awaiting'),
           licenseCount' \in Nat, Pending' <= Pending,
           licenseCount' <= licenseCount \/ (licenseCount' <= licenseCount + 1 /\ Pending' <= Pending - 1)
    PROVE  Counts'
<1>1. /\ licenseCount \in Nat /\ peak \in Nat /\ Pending \in Nat /\ Pending' \in Nat
      /\ Pending <= peak
      /\ licenseCount + Pending <= MaxLicenses - 1 + Max({1, peak})
  BY FinitePart DEF TypeOK, Counts, Pending
<1>2. Max({1, peak})' = Max({1, peak}) /\ Max({1, peak}) \in Nat
  BY <1>1, MaxPair
<1>3. PICK m : m = MaxLicenses - 1 + Max({1, peak})
  OBVIOUS
<1>4. m \in Int /\ licenseCount + Pending <= m
  BY <1>1, <1>2, <1>3
<1>5. licenseCount' + Pending' <= m
  <2>1. PICK before : before = Pending
    OBVIOUS
  <2>2. PICK after : after = Pending'
    OBVIOUS
  <2>3. before \in Nat /\ after \in Nat /\ licenseCount + before <= m /\ after <= before
    BY <1>1, <1>4, <2>1, <2>2
  <2>4. licenseCount' <= licenseCount \/ (licenseCount' <= licenseCount + 1 /\ after <= before - 1)
    BY <2>1, <2>2
  <2>5. licenseCount' + after <= m
    BY <1>1, <1>4, <2>3, <2>4, Sums
  <2> QED
    BY <2>2, <2>5
<1> QED
  BY <1>1, <1>2, <1>3, <1>5 DEF Counts

\* A generation that passes the test is one more that waits, and counts nothing yet.
LEMMA OnePasses ==
    ASSUME TypeOK, Counts, licenseCount' \in Nat, licenseCount' <= MaxLicenses - 1,
           IsFiniteSet(awaiting'), peak' \in Nat, Pending' <= peak'
    PROVE  Counts'
<1>1. Pending' \in Nat
  BY FinitePart DEF Pending
<1>2. Max({1, peak})' \in Nat /\ Max({1, peak})' >= peak'
  BY MaxPair
<1> QED
  BY <1>1, <1>2 DEF Counts

\* The JavaScript generation up to its await.
LEMMA JSCounts ==
    ASSUME TypeOK, Counts, NEW op \in {"generate", "measure"}, NEW left, NEW refused,
           generateLicenseJS(op, left, refused)
    PROVE  Counts' /\ peak' \in Nat
<1>1. /\ licenseCount \in Nat /\ peak \in Nat /\ IsFiniteSet(awaiting) /\ Pending \in Nat
  BY FinitePart DEF TypeOK, Counts, Pending
<1>2. CASE checkRateLimit(licenseCount, TRUE) /\ UNCHANGED <<awaiting, peak>>
  <2>1. licenseCount' \in Nat /\ licenseCount' <= licenseCount
    BY <1>1, <1>2, Tested
  <2>2. Pending' = Pending
    BY <1>2 DEF Pending
  <2>3. Pending' <= Pending
    BY <1>1, <2>2
  <2> QED
    BY <1>1, <1>2, <2>1, <2>3, FewerCounted
<1>3. CASE /\ checkRateLimit(licenseCount, FALSE) /\ Wait(op, License, left)
           /\ peak' = Max({peak, Cardinality(Generations(awaiting'))})
  <2>1. PICK w : awaiting' = awaiting \cup {w}
    BY <1>3 DEF Wait
  <2>2. IsFiniteSet(awaiting') /\ Pending' \in Nat
    BY <1>1, <2>1, OneMore, FinitePart DEF Pending
  <2>3. peak' \in Nat /\ peak' >= Pending'
    BY <1>1, <1>3, <2>2, MaxPair DEF Pending
  <2>4. licenseCount' \in Nat /\ licenseCount' <= MaxLicenses - 1
    BY <1>1, <1>3, Tested
  <2> QED
    BY <2>2, <2>3, <2>4, OnePasses
<1> QED
  BY <1>2, <1>3 DEF generateLicenseJS

\* Handlers that count nothing: they wait, or put another text on display.
LEMMA NothingCounted ==
    ASSUME TypeOK, Counts, UNCHANGED <<licenseCount, peak>>,
           \/ UNCHANGED awaiting
           \/ \E w : w.op \notin {"generate", "measure"} /\ awaiting' = awaiting \cup {w}
           \/ \E license : Display(awaiting, license)
    PROVE  Counts'
<1>1. /\ licenseCount \in Nat /\ IsFiniteSet(awaiting) /\ awaiting \subseteq Waiting /\ Pending \in Nat
  BY FinitePart DEF TypeOK, Counts, Pending
<1>2. IsFiniteSet(awaiting') /\ Pending' <= Pending /\ Pending' \in Nat
  <2>1. CASE UNCHANGED awaiting
    BY <1>1, <2>1 DEF Pending
  <2>2. CASE \E w : w.op \notin {"generate", "measure"} /\ awaiting' = awaiting \cup {w}
    BY <1>1, <2>2, OneMore DEF Pending
  <2>3. CASE awaiting' = {[w EXCEPT !.overtaken = TRUE] : w \in awaiting}
    BY <1>1, <2>3, Overtaking, FinitePart DEF Pending
  <2> QED
    BY <2>1, <2>2, <2>3 DEF Display
<1>3. licenseCount' \in Nat /\ licenseCount' <= licenseCount
  BY <1>1
<1> QED
  BY <1>2, <1>3, FewerCounted

\* What a handler counts when its promise settles, it is no longer waited for.
LEMMA SettledCounts ==
    ASSUME TypeOK, Counts, Settles
    PROVE  Counts'
<1>1. /\ licenseCount \in Nat /\ IsFiniteSet(awaiting) /\ awaiting \subseteq Waiting
      /\ Pending \in Nat /\ peak \in Nat /\ Pending <= peak
  BY FinitePart DEF TypeOK, Counts, Pending
<1>2. PICK w \in awaiting : \/ Signed(w) \/ Measured(w) \/ Resigned(w)
                            \/ Verified(w) \/ Copied(w) \/ Tip(w) \/ Rejected(w)
  BY DEF Settles
<1>3. UNCHANGED peak
  BY DEF Settles
<1> DEFINE rest == awaiting \ {w}
           r == Cardinality(Generations(rest))
<1>4. /\ IsFiniteSet(rest) /\ rest \subseteq Waiting /\ r \in Nat
      /\ r = Pending - (IF w.op \in {"generate", "measure"} THEN 1 ELSE 0)
  BY <1>1, OneLess, FinitePart DEF Pending
<1> HIDE DEF rest, r
<1>5. ASSUME NEW license, Display(rest, license),
             \/ licenseCount' = licenseCount
             \/ licenseCount' = licenseCount + 1 /\ w.op \in {"generate", "measure"}
      PROVE  Counts'
  <2>1. awaiting' = {[v EXCEPT !.overtaken = TRUE] : v \in rest}
    BY <1>5 DEF Display
  <2>2. IsFiniteSet(awaiting') /\ Pending' <= r /\ Pending' \in Nat
    BY <1>4, <2>1, Overtaking, FinitePart DEF Pending, r
  <2>3. /\ licenseCount' \in Nat /\ Pending' <= Pending
        /\ licenseCount' <= licenseCount \/ (licenseCount' <= licenseCount + 1 /\ Pending' <= Pending - 1)
    BY <1>1, <1>4, <1>5, <2>2
  <2> QED
    BY <1>3, <2>2, <2>3, FewerCounted
<1>6. ASSUME awaiting' = rest, licenseCount' \in Nat,
             \/ licenseCount' <= licenseCount
             \/ licenseCount' <= licenseCount + 1 /\ w.op \in {"generate", "measure"}
      PROVE  Counts'
  <2>1. IsFiniteSet(awaiting') /\ Pending' = r
    BY <1>4, <1>6 DEF Pending, r
  <2>2. Pending' \in Nat /\ Pending' <= Pending
    BY <1>1, <1>4, <2>1
  <2>3. licenseCount' <= licenseCount \/ (licenseCount' <= licenseCount + 1 /\ Pending' <= Pending - 1)
    BY <1>1, <1>4, <1>6, <2>1
  <2> QED
    BY <1>3, <1>6, <2>1, <2>2, <2>3, FewerCounted
<1>7. CASE Signed(w)
  BY <1>5, <1>7 DEF Signed, rest
<1>8. CASE Resigned(w)
  BY <1>5, <1>8 DEF Resigned, limits, rest
<1>9. CASE Verified(w) \/ Copied(w) \/ Tip(w) \/ Rejected(w)
  <2>1. awaiting' = rest /\ UNCHANGED licenseCount
    BY <1>9 DEF Verified, Copied, Tip, Rejected, Says, limits, rest
  <2> QED
    BY <1>1, <1>6, <2>1
<1>10. CASE Measured(w)
  <2>0. w.op = "measure" /\ licenseCount + 1 \in Nat
    BY <1>1, <1>10 DEF Measured
  <2>1. CASE w.left = 0 /\ licenseCount' = licenseCount + 1 /\ awaiting' = rest
    BY <1>1, <1>6, <2>0, <2>1
  <2>2. CASE checkRateLimit(licenseCount + 1, TRUE) /\ awaiting' = rest
    <3>1. licenseCount' \in Nat /\ licenseCount' <= licenseCount + 1
      BY <2>0, <2>2, Tested
    <3> QED
      BY <1>6, <2>0, <2>2, <3>1
  <2>3. CASE w.left > 0 /\ checkRateLimit(licenseCount + 1, FALSE) /\ awaiting' = rest \cup {Again(w)}
    <3>1. licenseCount' \in Nat /\ licenseCount' <= MaxLicenses - 1
      BY <2>0, <2>3, Tested
    <3>2. /\ IsFiniteSet(awaiting') /\ Pending' \in Nat
          /\ Pending' <= r + 1
      BY <1>4, <2>3, OneMore, FinitePart DEF Pending, r
    <3>3. Pending' <= peak'
      BY <1>1, <1>3, <1>4, <2>0, <3>2
    <3> QED
      BY <1>1, <1>3, <3>1, <3>2, <3>3, OnePasses
  <2> QED
    BY <1>10, <2>1, <2>2, <2>3 DEF Measured, rest
<1> QED
  BY <1>2, <1>7, <1>8, <1>9, <1>10

\* Every click, answer and hour keeps the account of the licenses counted and awaited.
LEMMA CountsStep ==
    ASSUME TypeOK, Counts, [Next]_vars
    PROVE  Counts' /\ peak' \in Nat
<1> USE DEF limits
<1>1. peak \in Nat
  BY DEF TypeOK
<1>2. CASE initializeWasm \/ DOMContentLoaded \/ ClickNewHwid \/ Fades \/ NextHour \/ UNCHANGED vars
  <2>1. UNCHANGED <<awaiting, peak, licenseCount>>
    BY <1>2 DEF initializeWasm, DOMContentLoaded, ClickNewHwid, Fades, NextHour, vars
  <2> QED
    BY <1>1, <2>1, NothingCounted
<1>3. CASE generateLicense
  <2>1. CASE generateLicenseWasm \/ Refused
    <3>1. UNCHANGED <<peak, licenseCount>> /\ (UNCHANGED awaiting \/ Display(awaiting, License))
      BY <2>1 DEF generateLicenseWasm, Refused
    <3> QED
      BY <1>1, <3>1, NothingCounted
  <2>2. CASE generateLicenseJS("generate", 0, "error")
    BY <2>2, JSCounts
  <2> QED
    BY <1>3, <2>1, <2>2 DEF generateLicense
<1>4. CASE runPerformanceTest
  <2>1. CASE generateLicenseJS("measure", Iterations - 1, "status")
    BY <2>1, JSCounts
  <2>2. CASE UNCHANGED <<awaiting, peak, licenseCount>>
    BY <1>1, <2>2, NothingCounted
  <2> QED
    BY <1>4, <2>1, <2>2 DEF runPerformanceTest
<1>5. CASE simulateHardwareChange \/ validateLicense \/ copyLicense \/ simulateExpiredLicense \/ tamperLicense
  <2>1. UNCHANGED <<peak, licenseCount>>
    BY <1>5 DEF simulateHardwareChange, validateLicense, copyLicense, simulateExpiredLicense,
                tamperLicense, OnText
  <2>2. \/ UNCHANGED awaiting
        \/ \E w : w.op \notin {"generate", "measure"} /\ awaiting' = awaiting \cup {w}
        \/ \E license : Display(awaiting, license)
    <3>1. ASSUME NEW op \in {"validate", "expire", "copy", "tip"}, NEW license,
                 awaiting' = awaiting \cup {Handler(op, license, 0)}
          PROVE  \E w : w.op \notin {"generate", "measure"} /\ awaiting' = awaiting \cup {w}
      <4>1. Handler(op, license, 0).op = op
        BY DEF Handler
      <4> QED
        BY <3>1, <4>1
    <3> QED
      BY <1>5, <3>1 DEF simulateHardwareChange, validateLicense, copyLicense,
                        simulateExpiredLicense, tamperLicense, Wait
  <2> QED
    BY <1>1, <2>1, <2>2, NothingCounted
<1>6. CASE Settles
  <2>1. UNCHANGED peak
    BY <1>6 DEF Settles
  <2> QED
    BY <1>1, <1>6, <2>1, SettledCounts
<1> QED
  BY <1>2, <1>3, <1>4, <1>5, <1>6 DEF Next

-----------------------------------------------------------------------------
(* Types.                                                                    *)

\* More clicks and hardware ids only add to what the page may show and await.
LEMMA Growing ==
    ASSUME clicks \in Nat, clicks' \in Nat, currentHwid \in Nat, currentHwid' \in Nat,
           clicks <= clicks', currentHwid <= currentHwid'
    PROVE  Texts \subseteq Texts' /\ Waiting \subseteq Waiting'
<1>1. /\ 0..clicks \subseteq 0..clicks' /\ 1..clicks \subseteq 1..clicks'
      /\ 0..currentHwid \subseteq 0..currentHwid'
  OBVIOUS
<1>2. Texts \subseteq Texts'
  BY <1>1 DEF Texts
<1> QED
  BY <1>1, <1>2 DEF Waiting

\* Clicks and hardware ids are never taken back.
LEMMA NumbersStep ==
    ASSUME TypeOK, [Next]_vars
    PROVE  /\ clicks' \in Nat /\ clicks <= clicks' /\ currentHwid' \in Nat /\ currentHwid <= currentHwid'
           /\ hour' \in Nat /\ hour <= hour' /\ shown' \in BOOLEAN
           /\ shownHwid' \in 0..currentHwid' /\ assigned' \in 0..currentHwid'
           /\ phase' \in {"loading", "wasm", "js"}
           /\ phase' # phase => phase = "loading" /\ UNCHANGED awaiting
<1>1. /\ clicks \in Nat /\ currentHwid \in Nat /\ hour \in Nat /\ shown \in BOOLEAN
      /\ shownHwid \in 0..currentHwid /\ assigned \in 0..currentHwid
      /\ phase \in {"loading", "wasm", "js"}
  BY DEF TypeOK
<1>2. CASE initializeWasm \/ DOMContentLoaded
  <2>1. CASE initializeWasm
    <3>1. /\ phase = "loading" /\ phase' \in {"wasm", "js"}
          /\ currentHwid' = currentHwid + 1 /\ assigned' = currentHwid'
          /\ UNCHANGED <<shownHwid, shown, awaiting, hour, clicks>>
      BY <2>1 DEF initializeWasm, NewHwid
    <3> QED
      BY <1>1, <3>1
  <2>2. CASE DOMContentLoaded
    <3>1. /\ shown' = TRUE /\ shownHwid' = currentHwid
          /\ UNCHANGED <<phase, currentHwid, assigned, hour, clicks>>
      BY <2>2 DEF DOMContentLoaded
    <3> QED
      BY <1>1, <3>1
  <2> QED
    BY <1>2, <2>1, <2>2
<1>3. CASE ClickNewHwid \/ simulateHardwareChange
  <2>1. /\ clicks' = clicks + 1 /\ UNCHANGED <<phase, shown, assigned, hour>>
        /\ currentHwid' = currentHwid + 1 /\ shownHwid' = currentHwid'
    BY <1>3 DEF ClickNewHwid, simulateHardwareChange, Click, generateNewHwid, NewHwid
  <2> QED
    BY <1>1, <2>1
<1>4. CASE generateLicense \/ runPerformanceTest
  <2>1. clicks' = clicks + 1 /\ UNCHANGED <<phase, shown, assigned, hour, currentHwid, shownHwid>>
    BY <1>4 DEF generateLicense, runPerformanceTest, Click
  <2> QED
    BY <1>1, <2>1
<1>5. CASE validateLicense \/ copyLicense \/ simulateExpiredLicense \/ tamperLicense
  <2>1. clicks' = clicks + 1 /\ UNCHANGED <<phase, shown, assigned, hour, currentHwid, shownHwid>>
    BY <1>5 DEF validateLicense, copyLicense, simulateExpiredLicense, tamperLicense, OnText, Click
  <2> QED
    BY <1>1, <2>1
<1>6. CASE Settles \/ Fades \/ NextHour \/ UNCHANGED vars
  BY <1>1, <1>6 DEF Settles, Fades, NextHour, vars, hwids
<1> QED
  BY <1>2, <1>3, <1>4, <1>5, <1>6 DEF Next

\* Only the JavaScript version lets these handlers wait.
InJS(ws) == \A w \in ws : w.op \in {"generate", "validate", "expire"} => phase = "js"
Results == [kind : Kinds, license : Texts, overtaken : BOOLEAN]

\* The two sets an action may leave the handlers in, and the text of a new one.
LEMMA HandlerTyped ==
    ASSUME clicks' \in Nat, clicks' > 0,
           NEW op \in {"generate", "measure", "validate", "expire", "copy", "tip"},
           NEW license \in Texts', NEW left \in 0..(Iterations - 1)
    PROVE  Handler(op, license, left) \in Waiting' /\ Handler(op, license, left).op = op
BY DEF Handler, Waiting

\* Messages and verdicts have their type.
LEMMA MessagesTyped ==
    ASSUME clicks \in Nat, currentHwid \in Nat
    PROVE  /\ NoLicense \in Texts
           /\ \A kind \in Kinds : Message(kind) \in Results
           /\ \A w : \A kind \in Kinds : w.license \in Texts /\ w.overtaken \in BOOLEAN
                                           => About(w, kind) \in Results
           /\ \A license : Compared(license) \in Verdicts
<1>1. NoLicense \in Texts
  BY DEF NoLicense, Texts
<1>2. \A license : Compared(license) \in Verdicts
  BY DEF Compared, validateLicenseJS, validateLicenseWasm, Verdicts
<1> QED
  BY <1>1, <1>2 DEF Message, About, Results

\* Every step keeps the types.
LEMMA TypingStep ==
    ASSUME TypeOK, Counts, [Next]_vars
    PROVE  TypeOK'
<1> USE DEF limits
<1>1. /\ clicks \in Nat /\ currentHwid \in Nat /\ hour \in Nat /\ licenseCount \in Nat
      /\ sessionStart \in 0..hour /\ currentLicense \in Texts /\ licenseOutput \in Texts
      /\ awaiting \subseteq Waiting /\ InJS(awaiting) /\ IsFiniteSet(awaiting)
      /\ validationResult \in Results /\ phase \in {"loading", "wasm", "js"}
      /\ 0 \in 0..(Iterations - 1) /\ Iterations - 1 \in 0..(Iterations - 1)
  BY DEF TypeOK, InJS, Results, Counts
<1>2. /\ clicks' \in Nat /\ clicks <= clicks' /\ currentHwid' \in Nat /\ currentHwid <= currentHwid'
      /\ hour' \in Nat /\ hour <= hour' /\ shown' \in BOOLEAN
      /\ shownHwid' \in 0..currentHwid' /\ assigned' \in 0..currentHwid'
      /\ phase' \in {"loading", "wasm", "js"}
      /\ phase' # phase => phase = "loading" /\ UNCHANGED awaiting
  BY NumbersStep
<1>3. peak' \in Nat
  BY CountsStep
<1>4. Texts \subseteq Texts' /\ Waiting \subseteq Waiting'
  BY <1>1, <1>2, Growing
<1>5. Results \subseteq Results'
  BY <1>4 DEF Results, Kinds, Verdicts
<1>6. /\ NoLicense \in Texts' /\ Message("status") \in Results' /\ Message("error") \in Results'
      /\ Message("none") \in Results'
  <2>1. "status" \in Kinds /\ "error" \in Kinds /\ "none" \in Kinds
    BY DEF Kinds
  <2> QED
    BY <1>1, <1>4, <1>5, <2>1, MessagesTyped
<1>7. sessionStart \in 0..hour'
  BY <1>1, <1>2
<1>8. SUFFICES /\ currentLicense' \in Texts' /\ licenseOutput' \in Texts'
               /\ validationResult' \in Results'
               /\ licenseCount' \in Nat /\ sessionStart' \in 0..hour'
               /\ awaiting' \subseteq Waiting' /\ InJS(awaiting)'
  BY <1>2, <1>3 DEF TypeOK, InJS, Results
<1>9. InJS(awaiting)' <=> \A w \in awaiting' : w.op \in {"generate", "validate", "expire"} => phase' = "js"
  BY DEF InJS
<1>10. ASSUME NEW ws, ws \subseteq awaiting, awaiting' = ws
       PROVE  awaiting' \subseteq Waiting' /\ InJS(awaiting)'
  <2>1. \A w \in awaiting : w.op \in {"generate", "validate", "expire"} => phase' = "js"
    BY <1>1, <1>2 DEF InJS
  <2> QED
    BY <1>1, <1>4, <1>9, <1>10, <2>1
<1>11. ASSUME NEW op \in {"generate", "measure", "validate", "expire", "copy", "tip"},
              NEW license \in Texts', NEW left \in 0..(Iterations - 1),
              awaiting' = awaiting \cup {Handler(op, license, left)},
              clicks' = clicks + 1, UNCHANGED phase,
              op \in {"generate", "validate", "expire"} => phase = "js"
       PROVE  awaiting' \subseteq Waiting' /\ InJS(awaiting)'
  <2>1. Handler(op, license, left) \in Waiting' /\ Handler(op, license, left).op = op
    BY <1>1, <1>11, HandlerTyped
  <2>2. \A w \in awaiting : w.op \in {"generate", "validate", "expire"} => phase = "js"
    BY <1>1 DEF InJS
  <2> HIDE DEF Handler
  <2>3. awaiting' \subseteq Waiting'
    BY <1>1, <1>4, <1>11, <2>1
  <2>4. InJS(awaiting)'
    BY <1>9, <1>11, <2>1, <2>2
  <2> QED
    BY <2>3, <2>4
<1>12. ASSUME NEW ws, ws \subseteq awaiting, NEW license \in Texts', Display(ws, license), UNCHANGED phase
       PROVE  /\ licenseOutput' \in Texts' /\ validationResult' \in Results'
              /\ awaiting' \subseteq Waiting' /\ InJS(awaiting)'
  <2>1. awaiting' = {[w EXCEPT !.overtaken = TRUE] : w \in ws}
    BY <1>12 DEF Display
  <2>2. IsFiniteSet(ws) /\ ws \subseteq Waiting
    BY <1>1, <1>12, FS_Subset
  <2>3. awaiting' \subseteq Waiting /\ \A v \in awaiting' : \E w \in ws : v.op = w.op
    BY <2>1, <2>2, Overtaking
  <2>4. \A w \in ws : w.op \in {"generate", "validate", "expire"} => phase = "js"
    BY <1>1, <1>12 DEF InJS
  <2>5. InJS(awaiting)'
    BY <1>9, <1>12, <2>3, <2>4
  <2> QED
    BY <1>4, <1>6, <1>12, <2>3, <2>5 DEF Display
<1>13. \A w : \A kind \in Kinds : w.license \in Texts' /\ w.overtaken \in BOOLEAN
                                    => About(w, kind) \in Results'
  BY <1>2 DEF About, Results, Kinds, Verdicts
<1>14. \A license : Compared(license) \in Kinds
  BY <1>1, MessagesTyped DEF Kinds
<1>15. ASSUME clicks' = clicks + 1
       PROVE  /\ clicks' \in 0..clicks' /\ License \in Texts'
              /\ \A b \in BOOLEAN : Expired(b) \in Texts'
              /\ [licenseOutput EXCEPT !.id = clicks', !.signed = FALSE] \in Texts'
  <2>1. clicks' \in 0..clicks' /\ currentHwid \in 0..currentHwid'
    BY <1>1, <1>2
  <2>2. License \in Texts'
    BY <2>1 DEF License, Texts
  <2>3. licenseOutput \in Texts'
    BY <1>1, <1>4
  <2>4. PICK text : text = [licenseOutput EXCEPT !.id = clicks']
    OBVIOUS
  <2>5. text \in Texts'
    BY <2>1, <2>3, <2>4 DEF Texts
  <2>6. [licenseOutput EXCEPT !.id = clicks', !.signed = FALSE] = [text EXCEPT !.signed = FALSE]
    BY <2>4
  <2>7. ASSUME NEW b \in BOOLEAN PROVE Expired(b) \in Texts'
    <3>1. PICK signed : signed = [text EXCEPT !.signed = b]
      OBVIOUS
    <3>2. signed \in Texts'
      BY <2>5, <3>1 DEF Texts
    <3>3. Expired(b) = [signed EXCEPT !.expired = TRUE]
      BY <2>4, <3>1 DEF Expired
    <3> QED
      BY <3>2, <3>3 DEF Texts
  <2>8. [text EXCEPT !.signed = FALSE] \in Texts'
    BY <2>5 DEF Texts
  <2> QED
    BY <2>1, <2>2, <2>6, <2>7, <2>8
<1>16. ASSUME NEW op \in {"generate", "measure"}, NEW left \in 0..(Iterations - 1),
              NEW refused \in {"status", "error"}, generateLicenseJS(op, left, refused),
              clicks' = clicks + 1, UNCHANGED <<phase, hour>>, op = "generate" => phase = "js"
       PROVE  /\ validationResult' \in Results'
              /\ licenseCount' \in Nat /\ sessionStart' \in 0..hour'
              /\ awaiting' \subseteq Waiting' /\ InJS(awaiting)'
  <2>1. PICK b \in BOOLEAN : checkRateLimit(licenseCount, b)
    BY <1>16 DEF generateLicenseJS
  <2>2. licenseCount' \in Nat /\ sessionStart' \in 0..hour'
    BY <1>1, <1>16, <2>1, Tested
  <2>3. validationResult' \in Results'
    BY <1>6, <1>16 DEF generateLicenseJS, Wait
  <2>4. CASE UNCHANGED awaiting
    BY <1>10, <2>2, <2>3, <2>4
  <2>5. CASE awaiting' = awaiting \cup {Handler(op, License, left)}
    <3>1. License \in Texts'
      BY <1>15, <1>16
    <3>2. awaiting' \subseteq Waiting' /\ InJS(awaiting)'
      BY <1>11, <1>16, <2>5, <3>1
    <3> QED
      BY <2>2, <2>3, <3>2
  <2> QED
    BY <1>16, <2>4, <2>5 DEF generateLicenseJS, Wait
<1> HIDE DEF limits
<1>20. CASE initializeWasm \/ DOMContentLoaded \/ Fades \/ NextHour \/ UNCHANGED vars
  <2>1. UNCHANGED <<currentLicense, licenseOutput, licenseCount, sessionStart, awaiting>>
    BY <1>20 DEF initializeWasm, DOMContentLoaded, Fades, NextHour, vars, limits
  <2>2. validationResult' = validationResult \/ validationResult' = Message("none")
    BY <1>20 DEF initializeWasm, DOMContentLoaded, Fades, NextHour, vars
  <2> QED
    BY <1>1, <1>4, <1>5, <1>6, <1>7, <1>10, <2>1, <2>2
<1>21. CASE ClickNewHwid \/ simulateHardwareChange
  <2>1. /\ UNCHANGED <<currentLicense, licenseOutput, licenseCount, sessionStart, phase>>
        /\ validationResult' = Message("status") /\ clicks' = clicks + 1
        /\ UNCHANGED awaiting \/ awaiting' = awaiting \cup {Handler("tip", licenseOutput, 0)}
    BY <1>21 DEF ClickNewHwid, simulateHardwareChange, Click, generateNewHwid, limits
  <2>2. licenseOutput \in Texts'
    BY <1>1, <1>4
  <2>3. awaiting' \subseteq Waiting' /\ InJS(awaiting)'
    BY <1>1, <1>10, <1>11, <2>1, <2>2
  <2> QED
    BY <1>1, <1>4, <1>6, <1>7, <2>1, <2>3
<1>22. CASE generateLicense
  <2>0. UNCHANGED <<phase, hour, currentLicense>> /\ clicks' = clicks + 1
    BY <1>22 DEF generateLicense, Click
  <2>1. CASE generateLicenseWasm
    <3>1. Display(awaiting, License) /\ UNCHANGED <<licenseCount, sessionStart>>
      BY <2>1 DEF generateLicenseWasm, limits
    <3>2. License \in Texts'
      BY <1>15, <2>0
    <3>3. /\ licenseOutput' \in Texts' /\ validationResult' \in Results'
          /\ awaiting' \subseteq Waiting' /\ InJS(awaiting)'
      BY <1>12, <2>0, <3>1, <3>2
    <3> QED
      BY <1>1, <1>4, <1>7, <2>0, <3>1, <3>3
  <2>2. CASE Refused
    <3>1. /\ validationResult' = Message("error")
          /\ UNCHANGED <<licenseCount, sessionStart, licenseOutput, awaiting>>
      BY <2>2 DEF Refused, limits
    <3> QED
      BY <1>1, <1>4, <1>6, <1>7, <1>10, <2>0, <3>1
  <2>3. CASE phase = "js" /\ generateLicenseJS("generate", 0, "error") /\ UNCHANGED licenseOutput
    <3>1. /\ validationResult' \in Results'
          /\ licenseCount' \in Nat /\ sessionStart' \in 0..hour'
          /\ awaiting' \subseteq Waiting' /\ InJS(awaiting)'
      BY <1>1, <1>16, <2>0, <2>3
    <3> QED
      BY <1>1, <1>4, <2>0, <2>3, <3>1
  <2> QED
    BY <1>22, <2>1, <2>2, <2>3 DEF generateLicense
<1>23. CASE runPerformanceTest
  <2>0. UNCHANGED <<phase, hour, currentLicense, licenseOutput>> /\ clicks' = clicks + 1
    BY <1>23 DEF runPerformanceTest, Click
  <2>1. CASE generateLicenseJS("measure", Iterations - 1, "status")
    <3>1. /\ validationResult' \in Results'
          /\ licenseCount' \in Nat /\ sessionStart' \in 0..hour'
          /\ awaiting' \subseteq Waiting' /\ InJS(awaiting)'
      BY <1>1, <1>16, <2>0, <2>1
    <3> QED
      BY <1>1, <1>4, <2>0, <3>1
  <2>2. CASE validationResult' = Message("status") /\ UNCHANGED <<limits, awaiting, peak>>
    <3>1. UNCHANGED <<licenseCount, sessionStart>>
      BY <2>2 DEF limits
    <3> QED
      BY <1>1, <1>4, <1>6, <1>7, <1>10, <2>0, <2>2, <3>1
  <2> QED
    BY <1>23, <2>1, <2>2 DEF runPerformanceTest
<1>24. CASE validateLicense \/ copyLicense \/ simulateExpiredLicense \/ tamperLicense
  <2>0. UNCHANGED <<phase, hour, currentLicense, licenseCount, sessionStart>> /\ clicks' = clicks + 1
    BY <1>24 DEF validateLicense, copyLicense, simulateExpiredLicense, tamperLicense, OnText, Click, limits
  <2>1. ASSUME NEW license \in Texts', Display(awaiting, license)
        PROVE  /\ licenseOutput' \in Texts' /\ validationResult' \in Results'
               /\ awaiting' \subseteq Waiting' /\ InJS(awaiting)'
    BY <1>12, <2>0, <2>1
  <2>2. ASSUME UNCHANGED licenseOutput, validationResult' \in Results',
               \/ UNCHANGED awaiting
               \/ \E op \in {"validate", "expire", "copy"}, license \in Texts' :
                      /\ awaiting' = awaiting \cup {Handler(op, license, 0)}
                      /\ op # "copy" => phase = "js"
        PROVE  /\ licenseOutput' \in Texts' /\ validationResult' \in Results'
               /\ awaiting' \subseteq Waiting' /\ InJS(awaiting)'
    BY <1>1, <1>4, <1>10, <1>11, <2>0, <2>2
  <2>3. /\ licenseOutput' \in Texts' /\ validationResult' \in Results'
        /\ awaiting' \subseteq Waiting' /\ InJS(awaiting)'
    <3>0. licenseOutput \in Texts' /\ validationResult \in Results'
      BY <1>1, <1>4, <1>5
    <3>1. CASE validateLicense
      <4>1. About(Handler("validate", licenseOutput, 0), Compared(licenseOutput)) \in Results'
        <5>1. /\ Handler("validate", licenseOutput, 0).license = licenseOutput
              /\ Handler("validate", licenseOutput, 0).overtaken = FALSE
          BY DEF Handler
        <5> QED
          BY <1>13, <1>14, <3>0, <5>1
      <4> QED
        BY <1>6, <2>2, <3>0, <3>1, <4>1 DEF validateLicense, Wait
    <3>2. CASE copyLicense
      BY <1>6, <2>2, <3>0, <3>2 DEF copyLicense
    <3>3. CASE simulateExpiredLicense
      <4>1. Expired(TRUE) \in Texts' /\ Expired(FALSE) \in Texts'
        BY <1>15, <2>0
      <4> QED
        BY <2>1, <2>2, <3>0, <3>3, <4>1 DEF simulateExpiredLicense
    <3>4. CASE tamperLicense
      <4>1. [licenseOutput EXCEPT !.id = clicks', !.signed = FALSE] \in Texts'
        BY <1>15, <2>0
      <4> QED
        BY <2>1, <3>4, <4>1 DEF tamperLicense
    <3> QED
      BY <1>24, <3>1, <3>2, <3>3, <3>4
  <2> QED
    BY <1>1, <1>4, <1>7, <2>0, <2>3
<1>25. CASE Settles
  <2>0. UNCHANGED <<phase, hour>>
    BY <1>25 DEF Settles
  <2>1. PICK w \in awaiting : \/ Signed(w) \/ Measured(w) \/ Resigned(w)
                              \/ Verified(w) \/ Copied(w) \/ Tip(w) \/ Rejected(w)
    BY <1>25 DEF Settles
  <2>2. w \in Waiting /\ awaiting \ {w} \subseteq awaiting
    BY <1>1
  <2>3. w.license \in Texts' /\ w.overtaken \in BOOLEAN
    BY <1>4, <2>2 DEF Waiting
  <2>4. currentLicense \in Texts' /\ licenseOutput \in Texts' /\ validationResult \in Results'
    BY <1>1, <1>4, <1>5
  <2>5. CASE Signed(w)
    <3>1. /\ licenseCount' = licenseCount + 1 /\ currentLicense' = w.license
          /\ Display(awaiting \ {w}, w.license) /\ UNCHANGED sessionStart
      BY <2>5 DEF Signed
    <3>2. /\ licenseOutput' \in Texts' /\ validationResult' \in Results'
          /\ awaiting' \subseteq Waiting' /\ InJS(awaiting)'
      BY <1>12, <2>0, <2>2, <2>3, <3>1
    <3> QED
      BY <1>1, <1>7, <2>3, <3>1, <3>2
  <2>6. CASE Resigned(w)
    <3>1. Display(awaiting \ {w}, w.license) /\ UNCHANGED <<licenseCount, sessionStart, currentLicense>>
      BY <2>6 DEF Resigned, limits
    <3>2. /\ licenseOutput' \in Texts' /\ validationResult' \in Results'
          /\ awaiting' \subseteq Waiting' /\ InJS(awaiting)'
      BY <1>12, <2>0, <2>2, <2>3, <3>1
    <3> QED
      BY <1>1, <1>7, <2>4, <3>1, <3>2
  <2>7. CASE Verified(w) \/ Copied(w) \/ Tip(w) \/ Rejected(w)
    <3>1. /\ awaiting' = awaiting \ {w}
          /\ UNCHANGED <<licenseCount, sessionStart, currentLicense, licenseOutput>>
      BY <2>7 DEF Verified, Copied, Tip, Rejected, Says, limits
    <3>2. validationResult' \in Results'
      <4>1. "tip" \in Kinds
        BY DEF Kinds
      <4>2. About(w, Compared(w.license)) \in Results' /\ About(w, "tip") \in Results'
        BY <1>13, <1>14, <2>3, <4>1
      <4> QED
        BY <1>6, <2>4, <2>7, <4>2 DEF Verified, Copied, Tip, Rejected, Says
    <3> QED
      BY <1>1, <1>7, <1>10, <2>2, <2>4, <3>1, <3>2
  <2>8. CASE Measured(w)
    <3>0. w.op = "measure" /\ currentLicense' = w.license /\ UNCHANGED licenseOutput
      BY <2>8 DEF Measured
    <3>1. validationResult' \in Results'
      BY <1>6, <2>4, <2>8 DEF Measured
    <3>2. licenseCount' \in Nat /\ sessionStart' \in 0..hour'
      <4>1. licenseCount + 1 \in Nat
        BY <1>1
      <4>2. \/ licenseCount' = licenseCount + 1 /\ UNCHANGED sessionStart
            \/ \E b \in BOOLEAN : checkRateLimit(licenseCount + 1, b)
        BY <2>8 DEF Measured
      <4> QED
        BY <1>7, <2>0, <4>1, <4>2, Tested
    <3>3. CASE awaiting' = awaiting \ {w}
      BY <1>10, <2>2, <2>3, <2>4, <3>0, <3>1, <3>2, <3>3
    <3>4. CASE w.left > 0 /\ awaiting' = (awaiting \ {w}) \cup {Again(w)}
      <4>1. Again(w) \in Waiting /\ Again(w).op = "measure"
        BY <2>2, <3>0, <3>4, NextIteration
      <4>2. awaiting' \subseteq Waiting'
        BY <1>1, <1>4, <3>4, <4>1
      <4>3. \A v \in awaiting : v.op \in {"generate", "validate", "expire"} => phase' = "js"
        BY <1>1, <2>0 DEF InJS
      <4>4. InJS(awaiting)'
        BY <1>9, <3>4, <4>1, <4>3
      <4> QED
        BY <2>3, <2>4, <3>0, <3>1, <3>2, <4>2, <4>4
    <3> QED
      BY <2>8, <3>3, <3>4 DEF Measured
  <2> QED
    BY <2>1, <2>5, <2>6, <2>7, <2>8
<1> QED
  BY <1>20, <1>21, <1>22, <1>23, <1>24, <1>25 DEF Next

-----------------------------------------------------------------------------
(* What is on display.                                                       *)

\* Until initializeWasm ends there is no text, and nothing was validated.
Unloaded == phase = "loading" => licenseOutput = NoLicense /\ validationResult.kind \notin Verdicts

\* A message that is no verdict.
LEMMA NoVerdict ==
    /\ \A kind \in {"none", "status", "error"} :
           Message(kind).kind \notin Verdicts /\ Message(kind).kind # "tip"
    /\ \A w : About(w, "tip").kind \notin Verdicts
BY DEF Message, About, Verdicts

\* No step of the page while it loads displays a text or a verdict.
LEMMA UnloadedStep ==
    ASSUME TypeOK, Unloaded, [Next]_vars
    PROVE  Unloaded'
<1> SUFFICES ASSUME phase' = "loading"
             PROVE  licenseOutput' = NoLicense /\ validationResult'.kind \notin Verdicts
  BY DEF Unloaded
<1>1. phase = "loading"
  BY NumbersStep
<1>2. licenseOutput = NoLicense /\ validationResult.kind \notin Verdicts
  BY <1>1 DEF Unloaded
<1>3. ASSUME UNCHANGED licenseOutput,
             \/ UNCHANGED validationResult
             \/ \E kind \in {"none", "status", "error"} : validationResult' = Message(kind)
             \/ \E w : validationResult' = About(w, "tip")
      PROVE  licenseOutput' = NoLicense /\ validationResult'.kind \notin Verdicts
  BY <1>2, <1>3, NoVerdict
<1>4. CASE initializeWasm \/ DOMContentLoaded \/ Fades \/ NextHour \/ UNCHANGED vars
  BY <1>3, <1>4 DEF initializeWasm, DOMContentLoaded, Fades, NextHour, vars
<1>5. CASE ClickNewHwid \/ simulateHardwareChange
  BY <1>3, <1>5 DEF ClickNewHwid, simulateHardwareChange, generateNewHwid
<1>6. CASE generateLicense
  BY <1>1, <1>3, <1>6 DEF generateLicense, generateLicenseWasm, Refused
<1>7. CASE runPerformanceTest
  BY <1>1, <1>3, <1>7 DEF runPerformanceTest, generateLicenseJS, Wait
<1>8. CASE validateLicense \/ copyLicense \/ simulateExpiredLicense \/ tamperLicense
  BY <1>2, <1>8 DEF validateLicense, copyLicense, simulateExpiredLicense, tamperLicense, OnText
<1>9. CASE Settles
  <2>1. PICK w \in awaiting : \/ Signed(w) \/ Measured(w) \/ Resigned(w)
                              \/ Verified(w) \/ Copied(w) \/ Tip(w) \/ Rejected(w)
    BY <1>9 DEF Settles
  <2>2. w.op \notin {"generate", "validate", "expire"}
    BY <1>1 DEF TypeOK
  <2>3. Measured(w) \/ Copied(w) \/ Tip(w) \/ Rejected(w)
    BY <2>1, <2>2 DEF Signed, Resigned, Verified
  <2> QED
    BY <1>1, <1>3, <2>3 DEF Measured, Copied, Tip, Rejected, Says
<1> QED
  BY <1>4, <1>5, <1>6, <1>7, <1>8, <1>9 DEF Next

\* Only initializeWasm gives the page an id that it does not display.
LEMMA ShownStep ==
    ASSUME TypeOK, shownHwid = currentHwid \/ currentHwid = assigned, [Next]_vars
    PROVE  shownHwid' = currentHwid' \/ currentHwid' = assigned'
<1>1. CASE initializeWasm \/ DOMContentLoaded
  BY <1>1 DEF initializeWasm, DOMContentLoaded
<1>2. CASE ClickNewHwid \/ simulateHardwareChange
  BY <1>2 DEF ClickNewHwid, simulateHardwareChange, generateNewHwid
<1>3. CASE generateLicense \/ runPerformanceTest
  BY <1>3 DEF generateLicense, runPerformanceTest, Click
<1>4. CASE validateLicense \/ copyLicense \/ simulateExpiredLicense \/ tamperLicense
  BY <1>4 DEF validateLicense, copyLicense, simulateExpiredLicense, tamperLicense, OnText, Click
<1>5. CASE Settles \/ Fades \/ NextHour \/ UNCHANGED vars
  BY <1>5 DEF Settles, Fades, NextHour, vars, hwids
<1> QED
  BY <1>1, <1>2, <1>3, <1>4, <1>5 DEF Next

\* A step either keeps the hardware id or makes one that no text has.
LEMMA HwidStep ==
    ASSUME TypeOK, [Next]_vars
    PROVE  \/ UNCHANGED currentHwid
           \/ /\ \A license \in Texts : license.hardware_hash # currentHwid'
              /\ UNCHANGED licenseOutput
<1>1. currentHwid \in Nat
  BY DEF TypeOK
<1>2. CASE initializeWasm \/ ClickNewHwid \/ simulateHardwareChange
  <2>1. currentHwid' = currentHwid + 1 /\ UNCHANGED licenseOutput
    BY <1>2 DEF initializeWasm, ClickNewHwid, simulateHardwareChange, generateNewHwid, NewHwid
  <2> QED
    BY <1>1, <2>1 DEF Texts
<1>3. CASE generateLicense \/ runPerformanceTest \/ DOMContentLoaded
  BY <1>3 DEF generateLicense, runPerformanceTest, DOMContentLoaded
<1>4. CASE validateLicense \/ copyLicense \/ simulateExpiredLicense \/ tamperLicense
  BY <1>4 DEF validateLicense, copyLicense, simulateExpiredLicense, tamperLicense, OnText
<1>5. CASE Settles \/ Fades \/ NextHour \/ UNCHANGED vars
  BY <1>5 DEF Settles, Fades, NextHour, vars, hwids
<1> QED
  BY <1>2, <1>3, <1>4, <1>5 DEF Next

\* A handler that waits on is about the text on display, or was overtaken.
LEMMA AwaitedStep ==
    ASSUME TypeOK, IsFiniteSet(awaiting), Awaited, [Next]_vars
    PROVE  Awaited'
<1> DEFINE Right(w) == \/ w.op \notin {"validate", "tip"} \/ w.overtaken
                       \/ /\ w.license = licenseOutput'
                          /\ w.op = "tip" => w.license.hardware_hash # currentHwid'
<1>1. Awaited' <=> \A w \in awaiting' : Right(w)
  BY DEF Awaited
<1>2. awaiting \subseteq Waiting /\ licenseOutput \in Texts
  BY DEF TypeOK
<1>3. ASSUME UNCHANGED licenseOutput
      PROVE  \A w \in awaiting : Right(w)
  <2> SUFFICES ASSUME NEW w \in awaiting PROVE Right(w)
    OBVIOUS
  <2>1. w.license \in Texts
    BY <1>2 DEF Waiting
  <2>2. w.op = "tip" /\ w.license.hardware_hash # currentHwid => w.license.hardware_hash # currentHwid'
    BY <2>1, HwidStep
  <2> QED
    BY <1>3, <2>2 DEF Awaited
<1>4. ASSUME NEW license, NEW ws, ws \subseteq awaiting, IsFiniteSet(ws), Display(ws, license)
      PROVE  Awaited'
  BY <1>1, <1>2, <1>4, Overtaking DEF Display
<1>5. ASSUME UNCHANGED licenseOutput, NEW w, Right(w), awaiting' \subseteq awaiting \cup {w}
      PROVE  Awaited'
  BY <1>1, <1>3, <1>5
<1>6. ASSUME UNCHANGED licenseOutput, awaiting' \subseteq awaiting
      PROVE  Awaited'
  BY <1>1, <1>3, <1>6
<1>7. ASSUME NEW op, NEW license, NEW left
      PROVE  /\ Handler(op, license, left).op = op
             /\ Handler(op, license, left).license = license
  BY DEF Handler
<1> HIDE DEF Right
<1>8. ASSUME NEW op \in {"generate", "measure", "expire", "copy"}, NEW license, NEW left,
             awaiting' = awaiting \cup {Handler(op, license, left)}, UNCHANGED licenseOutput
      PROVE  Awaited'
  <2>1. Right(Handler(op, license, left))
    BY <1>7 DEF Right
  <2> QED
    BY <1>5, <1>8, <2>1
<1>10. CASE initializeWasm \/ DOMContentLoaded \/ ClickNewHwid \/ Fades \/ NextHour \/ UNCHANGED vars
  <2>1. UNCHANGED <<licenseOutput, awaiting>>
    BY <1>10 DEF initializeWasm, DOMContentLoaded, ClickNewHwid, Fades, NextHour, vars
  <2> QED
    BY <1>6, <2>1
<1>11. CASE simulateHardwareChange
  <2>1. /\ UNCHANGED licenseOutput /\ currentHwid' = currentHwid + 1
        /\ awaiting' = awaiting \cup {Handler("tip", licenseOutput, 0)}
    BY <1>11 DEF simulateHardwareChange, generateNewHwid, NewHwid
  <2>2. licenseOutput.hardware_hash # currentHwid'
    BY <1>2, <2>1 DEF TypeOK, Texts
  <2>3. Right(Handler("tip", licenseOutput, 0))
    BY <1>7, <2>1, <2>2 DEF Right
  <2> QED
    BY <1>5, <2>1, <2>3
<1>12. CASE generateLicense
  <2>1. CASE generateLicenseWasm
    BY <1>4, <2>1 DEF generateLicenseWasm
  <2>2. CASE Refused
    BY <1>6, <2>2 DEF Refused
  <2>3. CASE generateLicenseJS("generate", 0, "error") /\ UNCHANGED licenseOutput
    BY <1>6, <1>8, <2>3 DEF generateLicenseJS, Wait
  <2> QED
    BY <1>12, <2>1, <2>2, <2>3 DEF generateLicense
<1>13. CASE runPerformanceTest
  BY <1>6, <1>8, <1>13 DEF runPerformanceTest, generateLicenseJS, Wait
<1>14. CASE validateLicense
  <2>1. UNCHANGED licenseOutput
    BY <1>14 DEF validateLicense
  <2>2. CASE UNCHANGED awaiting
    BY <1>6, <2>1, <2>2
  <2>3. CASE awaiting' = awaiting \cup {Handler("validate", licenseOutput, 0)}
    <3>1. Right(Handler("validate", licenseOutput, 0))
      BY <1>7, <2>1 DEF Right
    <3> QED
      BY <1>5, <2>1, <2>3, <3>1
  <2> QED
    BY <1>14, <2>2, <2>3 DEF validateLicense, Wait
<1>15. CASE copyLicense
  BY <1>8, <1>15 DEF copyLicense
<1>16. CASE simulateExpiredLicense
  BY <1>4, <1>8, <1>16 DEF simulateExpiredLicense
<1>17. CASE tamperLicense
  BY <1>4, <1>17 DEF tamperLicense
<1>18. CASE Settles
  <2>1. PICK w \in awaiting : \/ Signed(w) \/ Measured(w) \/ Resigned(w)
                              \/ Verified(w) \/ Copied(w) \/ Tip(w) \/ Rejected(w)
    BY <1>18 DEF Settles
  <2>2. IsFiniteSet(awaiting \ {w}) /\ awaiting \ {w} \subseteq awaiting
    BY FS_RemoveElement
  <2>3. CASE Signed(w) \/ Resigned(w)
    BY <1>4, <2>2, <2>3 DEF Signed, Resigned
  <2>4. CASE Verified(w) \/ Copied(w) \/ Tip(w) \/ Rejected(w)
    BY <1>6, <2>2, <2>4 DEF Verified, Copied, Tip, Rejected, Says
  <2>5. CASE Measured(w)
    <3>1. UNCHANGED licenseOutput
      BY <2>5 DEF Measured
    <3>2. CASE awaiting' = awaiting \ {w}
      BY <1>6, <3>1, <3>2
    <3>3. CASE w.left > 0 /\ awaiting' = (awaiting \ {w}) \cup {Again(w)}
      <4>1. w \in Waiting /\ w.op = "measure"
        BY <1>2, <2>5 DEF Measured
      <4>2. Again(w).op = "measure"
        BY <3>3, <4>1, NextIteration
      <4>3. Right(Again(w))
        BY <4>2 DEF Right
      <4> QED
        BY <1>5, <3>1, <3>3, <4>3
    <3> QED
      BY <2>5, <3>2, <3>3 DEF Measured
  <2> QED
    BY <2>1, <2>3, <2>4, <2>5
<1> QED
  BY <1>10, <1>11, <1>12, <1>13, <1>14, <1>15, <1>16, <1>17, <1>18 DEF Next

\* The verdict of a text depends on it, the version and the hardware id.
LEMMA SameVerdict ==
    ASSUME UNCHANGED <<phase, currentHwid>>, NEW license
    PROVE  Compared(license)' = Compared(license)
BY DEF Compared, validateLicenseJS, validateLicenseWasm

\* A text of other hardware is never valid.
LEMMA OtherHardware ==
    ASSUME NEW license, license.hardware_hash # currentHwid
    PROVE  Compared(license) # "valid"
BY DEF Compared, validateLicenseJS, validateLicenseWasm

\* Of the messages, a verdict is given and a tip appears only by these steps; any
\* other step shows no verdict and no tip, or leaves what they depend on alone.
LEMMA MessageStep ==
    ASSUME TypeOK, Unloaded, [Next]_vars
    PROVE  \/ validationResult'.kind \notin Verdicts \cup {"tip"}
           \/ UNCHANGED <<validationResult, licenseOutput, phase, currentHwid>>
           \/ /\ UNCHANGED <<validationResult, licenseOutput>>
              /\ validationResult.kind \notin Verdicts
           \/ /\ UNCHANGED <<licenseOutput, phase, currentHwid>>
              /\ validationResult' = About(Handler("validate", licenseOutput, 0), Compared(licenseOutput))
           \/ /\ UNCHANGED <<licenseOutput, phase, currentHwid>>
              /\ \E w \in awaiting : \/ w.op = "validate" /\ validationResult' = About(w, Compared(w.license))
                                     \/ w.op = "tip" /\ validationResult' = About(w, "tip")
<1>1. \A kind \in {"none", "status", "error"} : Message(kind).kind \notin Verdicts \cup {"tip"}
  BY NoVerdict
<1>2. ASSUME NEW kind \in {"none", "status", "error"}, validationResult' = Message(kind)
      PROVE  validationResult'.kind \notin Verdicts \cup {"tip"}
  BY <1>1, <1>2
<1>3. CASE initializeWasm
  <2>1. UNCHANGED <<validationResult, licenseOutput>> /\ validationResult.kind \notin Verdicts
    BY <1>3 DEF initializeWasm, Unloaded
  <2> QED
    BY <2>1
<1>4. CASE DOMContentLoaded \/ NextHour \/ UNCHANGED vars
  BY <1>4 DEF DOMContentLoaded, NextHour, vars, hwids
<1>5. CASE ClickNewHwid \/ simulateHardwareChange
  BY <1>2, <1>5 DEF ClickNewHwid, simulateHardwareChange, generateNewHwid
<1>6. CASE generateLicense
  <2>1. validationResult' = Message("status") \/ validationResult' = Message("error")
    BY <1>6 DEF generateLicense, generateLicenseWasm, generateLicenseJS, Refused, Wait, Display
  <2> QED
    BY <1>2, <2>1
<1>7. CASE runPerformanceTest
  <2>1. validationResult' = Message("status")
    BY <1>7 DEF runPerformanceTest, generateLicenseJS, Wait
  <2> QED
    BY <1>2, <2>1
<1>8. CASE validateLicense
  <2>1. UNCHANGED <<licenseOutput, phase, currentHwid>>
    BY <1>8 DEF validateLicense, OnText, Click
  <2> QED
    BY <1>2, <1>8, <2>1 DEF validateLicense, Wait
<1>9. CASE copyLicense \/ simulateExpiredLicense \/ tamperLicense
  <2>1. \/ validationResult' = Message("status")
        \/ UNCHANGED <<validationResult, licenseOutput>>
    BY <1>9 DEF copyLicense, simulateExpiredLicense, tamperLicense, Display
  <2>2. UNCHANGED <<phase, currentHwid>>
    BY <1>9 DEF copyLicense, simulateExpiredLicense, tamperLicense, OnText, Click
  <2> QED
    BY <1>2, <2>1, <2>2
<1>10. CASE Settles
  <2>1. PICK w \in awaiting : \/ Signed(w) \/ Measured(w) \/ Resigned(w)
                              \/ Verified(w) \/ Copied(w) \/ Tip(w) \/ Rejected(w)
    BY <1>10 DEF Settles
  <2>2. UNCHANGED <<phase, currentHwid>>
    BY <1>10 DEF Settles, hwids
  <2>3. CASE Signed(w) \/ Resigned(w)
    BY <1>2, <2>3 DEF Signed, Resigned, Display
  <2>4. CASE Measured(w)
    BY <1>2, <2>2, <2>4 DEF Measured
  <2>5. CASE Verified(w) \/ Tip(w)
    BY <2>2, <2>5 DEF Verified, Tip, Says
  <2>6. CASE Copied(w) \/ Rejected(w)
    <3>1. validationResult' \in {Message("status"), Message("error"), validationResult} /\ UNCHANGED licenseOutput
      BY <2>6 DEF Copied, Rejected, Says
    <3> QED
      BY <1>2, <2>2, <3>1
  <2> QED
    BY <2>1, <2>3, <2>4, <2>5, <2>6
<1>11. CASE Fades
  BY <1>2, <1>11 DEF Fades
<1> QED
  BY <1>3, <1>4, <1>5, <1>6, <1>7, <1>8, <1>9, <1>10, <1>11 DEF Next

\* What a message says of its text stays true while it is on display.
LEMMA ToldStep ==
    ASSUME TypeOK, Unloaded, Awaited, VerdictHolds, Told, [Next]_vars
    PROVE  VerdictHolds' /\ Told'
<1>1. CASE validationResult'.kind \notin Verdicts \cup {"tip"}
  BY <1>1 DEF VerdictHolds, Told
<1>2. CASE UNCHANGED <<validationResult, licenseOutput, phase, currentHwid>>
  <2>1. Compared(validationResult.license)' = Compared(validationResult.license)
    BY <1>2, SameVerdict
  <2> QED
    BY <1>2, <2>1 DEF VerdictHolds, Told
<1>3. CASE UNCHANGED <<validationResult, licenseOutput>> /\ validationResult.kind \notin Verdicts
  <2>1. validationResult.license \in Texts
    BY DEF TypeOK
  <2>2. Told'
    BY <1>3, <2>1, HwidStep DEF Told
  <2> QED
    BY <1>3, <2>2 DEF VerdictHolds
<1>4. CASE /\ UNCHANGED <<licenseOutput, phase, currentHwid>>
           /\ validationResult' = About(Handler("validate", licenseOutput, 0), Compared(licenseOutput))
  <2>1. validationResult'.kind = Compared(licenseOutput) /\ validationResult'.license = licenseOutput
    BY <1>4 DEF About, Handler
  <2>2. Compared(licenseOutput)' = Compared(licenseOutput) /\ Compared(licenseOutput) # "tip"
    BY <1>4 DEF Compared, validateLicenseJS, validateLicenseWasm
  <2> QED
    BY <1>4, <2>1, <2>2 DEF VerdictHolds, Told
<1>5. ASSUME NEW w \in awaiting, w.op = "validate", validationResult' = About(w, Compared(w.license)),
             UNCHANGED <<licenseOutput, phase, currentHwid>>
      PROVE  VerdictHolds' /\ Told'
  <2>1. /\ validationResult'.kind = Compared(w.license) /\ validationResult'.license = w.license
        /\ validationResult'.overtaken = w.overtaken
    BY <1>5 DEF About
  <2>2. Compared(w.license)' = Compared(w.license)
    BY <1>5, SameVerdict
  <2>3. Compared(w.license) # "tip"
    BY DEF Compared, validateLicenseJS, validateLicenseWasm
  <2>4. w.overtaken \/ w.license = licenseOutput
    BY <1>5 DEF Awaited
  <2> QED
    BY <1>5, <2>1, <2>2, <2>3, <2>4 DEF VerdictHolds, Told
<1>6. ASSUME NEW w \in awaiting, w.op = "tip", validationResult' = About(w, "tip"),
             UNCHANGED <<licenseOutput, phase, currentHwid>>
      PROVE  VerdictHolds' /\ Told'
  <2>1. /\ validationResult'.kind = "tip" /\ validationResult'.license = w.license
        /\ validationResult'.overtaken = w.overtaken
    BY <1>6 DEF About
  <2>2. w.overtaken \/ (w.license = licenseOutput /\ w.license.hardware_hash # currentHwid)
    BY <1>6 DEF Awaited
  <2> QED
    BY <1>6, <2>1, <2>2 DEF VerdictHolds, Told, Verdicts
<1> QED
  BY <1>1, <1>2, <1>3, <1>4, <1>5, <1>6, MessageStep

-----------------------------------------------------------------------------
\* The page as it is loaded.
LEMMA InvariantInit == Init => IInv
<1> SUFFICES ASSUME Init PROVE IInv
  OBVIOUS
<1>1. Generations({}) = {}
  BY DEF Generations
<1>2. IsFiniteSet({}) /\ Pending = 0
  BY <1>1, FS_EmptySet DEF Init, Pending
<1>3. Max({1, peak}) \in Nat /\ Max({1, peak}) >= 1
  BY MaxPair DEF Init
<1>4. NoLicense \in Texts /\ Message("none") \in Results
  <2>1. "none" \in Kinds
    BY DEF Kinds
  <2> QED
    BY <2>1, MessagesTyped DEF Init
<1>5. TypeOK
  <2>1. shownHwid \in 0..currentHwid /\ assigned \in 0..currentHwid /\ sessionStart \in 0..hour
    BY DEF Init
  <2>2. /\ currentLicense \in Texts /\ licenseOutput \in Texts
        /\ validationResult \in [kind : Kinds, license : Texts, overtaken : BOOLEAN]
    BY <1>4 DEF Init, Results
  <2> QED
    BY <2>1, <2>2 DEF Init, TypeOK
<1>6. Counts
  BY <1>2, <1>3 DEF Init, Counts
<1>7. validationResult.kind \notin Verdicts /\ validationResult.kind # "tip"
  BY NoVerdict DEF Init
<1> QED
  BY <1>5, <1>6, <1>7 DEF Init, IInv, Awaited, VerdictHolds, Told

\* Every step keeps the inductive invariant.
LEMMA InvariantStep == IInv /\ [Next]_vars => IInv'
<1> SUFFICES ASSUME IInv, [Next]_vars PROVE IInv'
  OBVIOUS
<1>1. Counts' /\ TypeOK'
  BY CountsStep, TypingStep DEF IInv
<1>2. Unloaded'
  BY UnloadedStep DEF IInv, Unloaded
<1>3. shownHwid' = currentHwid' \/ currentHwid' = assigned'
  BY ShownStep DEF IInv
<1>4. Awaited'
  BY AwaitedStep DEF IInv, Counts
<1>5. VerdictHolds' /\ Told'
  BY ToldStep DEF IInv, Unloaded
<1> QED
  BY <1>1, <1>2, <1>3, <1>4, <1>5 DEF IInv, Unloaded

\* Every step of the page keeps the invariant: the account of the licenses, what each
\* waiting handler is about, and what the message on display is about.
THEOREM Invariance == Spec => []IInv
BY InvariantInit, InvariantStep, PTL DEF Spec

\* Every variable has its type, and only the JavaScript version leaves signatures and
\* checks waiting that the display will show.
THEOREM Typing == Spec => []TypeOK
<1>1. IInv => TypeOK
  BY DEF IInv
<1> QED
  BY <1>1, Invariance, PTL

\* An hour's licenses exceed the maximum by no more than the generations that waited
\* together beyond the first, however many wait and in whatever order they end.
THEOREM Limit == Spec => []LimitUpToOverlap
<1>1. IInv => LimitUpToOverlap
  <2> SUFFICES ASSUME IInv PROVE LimitUpToOverlap
    OBVIOUS
  <2>1. /\ licenseCount \in Nat /\ peak \in Nat
        /\ licenseCount + Pending <= MaxLicenses - 1 + Max({1, peak})
    BY DEF IInv, TypeOK, Counts
  <2>2. Pending \in Nat
    BY FinitePart DEF IInv, Counts, Pending
  <2>3. Max({1, peak}) \in Nat
    BY <2>1, MaxPair
  <2> QED
    BY <2>1, <2>2, <2>3 DEF LimitUpToOverlap
<1> QED
  BY <1>1, Invariance, PTL

\* A verdict on display is what its text would get now, and its text is the one on
\* display unless a generation or a scenario overtook the validation.
THEOREM TrueVerdicts == Spec => []VerdictHolds
<1>1. IInv => VerdictHolds
  BY DEF IInv
<1> QED
  BY <1>1, Invariance, PTL

\* A license shown to be valid is bound to the hardware id on display, unless the page's
\* id is the one that initializeWasm gave it.
THEOREM ValidForShown == Spec => []ShownAgrees
<1>1. IInv => ShownAgrees
  <2> SUFFICES ASSUME IInv, validationResult.kind = "valid"
               PROVE  validationResult.license.hardware_hash = shownHwid \/ currentHwid = assigned
    BY DEF ShownAgrees
  <2>1. Compared(validationResult.license) = "valid"
    BY DEF IInv, VerdictHolds, Verdicts
  <2>2. validationResult.license.hardware_hash = currentHwid
    BY <2>1, OtherHardware
  <2> QED
    BY <2>2 DEF IInv
<1> QED
  BY <1>1, Invariance, PTL

\* When the tip of a hardware change is on display, the license on display fails its
\* validation, unless another text was displayed since the hardware changed.
THEOREM TrueTips == Spec => []TipHolds
<1>1. IInv => TipHolds
  BY OtherHardware DEF IInv, Told, TipHolds
<1> QED
  BY <1>1, Invariance, PTL
=============================================================================
