------------------------------ MODULE DemoPage ------------------------------
(***************************************************************************)
(* The demo page (docs/wasm.js): one LicenseCoreDemo object and the handlers *)
(* of its buttons, those it creates when it loads (the scenarios and the     *)
(* performance test) included.  The browser runs one handler at a time, up   *)
(* to its next await; what follows an await or a setTimeout runs when the    *)
(* promise settles or the timer ends, after any number of other clicks and   *)
(* in any order.                                                             *)
(*                                                                          *)
(* While the WebAssembly module loads, and once it has loaded, useWasm is    *)
(* TRUE; without it the page signs and verifies in JavaScript, with the Web  *)
(* Crypto API.  The prebuilt module answers at once.  A license of the page  *)
(* outlives the session, unless a scenario sets its expiry to the day        *)
(* before.  Customer ids are such that the module's text is JSON.            *)
(***************************************************************************)
EXTENDS Integers, FiniteSets, FiniteSetsExt

CONSTANTS
    MaxLicenses,            \* maxLicensesPerHour
    Iterations,             \* of the performance test
    MaxClicks, MaxHour      \* bounds

ASSUME LimitAssumption == MaxLicenses \in Nat \ {0} /\ Iterations \in Nat \ {0}
ASSUME BoundAssumption == MaxClicks \in Nat /\ MaxHour \in Nat

VARIABLES
    phase,              \* useWasm and wasmManager: "loading", "wasm" or "js"
    currentHwid,        \* 0 is null; hardware ids are numbered as they are made
    currentLicense, licenseCount, sessionStart,
    shownHwid,          \* the hardware id on display; 0 before there is one
    shown,              \* the timer of DOMContentLoaded has set the display
    licenseOutput,      \* the text on display
    validationResult,   \* the message on display; for a verdict or a tip, its text
    awaiting,           \* the handlers that wait for a promise or a timer
    hour, clicks,
    assigned,           \* history: the id initializeWasm gave the page
    peak                \* history: the most generations that waited together

limits == <<licenseCount, sessionStart>>
hwids == <<currentHwid, shownHwid, shown, assigned>>
vars == <<phase, hwids, currentLicense, limits, licenseOutput, validationResult, awaiting,
          hour, clicks, peak>>

\* A text: the click that made it, and what a validation reads in it.
NoLicense == [id |-> 0, hardware_hash |-> 0, signed |-> FALSE, expired |-> FALSE]
Message(kind) == [kind |-> kind, license |-> NoLicense, overtaken |-> FALSE]
About(w, kind) == [kind |-> kind, license |-> w.license, overtaken |-> w.overtaken]

\* The handlers that have passed checkRateLimit and will count a license.
Generations(ws) == {w \in ws : w.op \in {"generate", "measure"}}

Init ==
    /\ phase = "loading"
    /\ currentHwid = 0
    /\ shownHwid = 0 /\ shown = FALSE /\ assigned = 0
    /\ currentLicense = NoLicense
    /\ licenseCount = 0
    /\ sessionStart = 0
    /\ licenseOutput = NoLicense
    /\ validationResult = Message("none")
    /\ awaiting = {}
    /\ hour = 0
    /\ clicks = 0
    /\ peak = 0

-----------------------------------------------------------------------------
(* Hardware ids.                                                             *)

\* Random parts, or the time, make every mock hardware id a new one.
NewHwid == currentHwid' = currentHwid + 1

\* The end of initializeWasm, either way.  The display is left alone.
initializeWasm ==
    /\ phase = "loading"
    /\ phase' \in {"wasm", "js"}
    /\ NewHwid
    /\ assigned' = currentHwid'
    /\ UNCHANGED <<shownHwid, shown, currentLicense, limits, licenseOutput, validationResult,
                   awaiting, hour, clicks, peak>>

\* 100 ms after the document is there, loaded or not.
DOMContentLoaded ==
    /\ ~shown
    /\ shown' = TRUE
    /\ shownHwid' = currentHwid
    /\ UNCHANGED <<phase, currentHwid, assigned, currentLicense, limits, licenseOutput,
                   validationResult, awaiting, hour, clicks, peak>>

Click ==
    /\ clicks < MaxClicks
    /\ clicks' = clicks + 1
    /\ UNCHANGED <<phase, shown, assigned, hour>>

\* A handler that waits from this click on.
Handler(op, license, left) ==
    [click |-> clicks', op |-> op, license |-> license, left |-> left, overtaken |-> FALSE]

\* Defective variant: the verdict on display is left there.
generateNewHwid_Silent ==
    /\ NewHwid
    /\ shownHwid' = currentHwid'
    /\ UNCHANGED validationResult

\* Defective variant: updateHwidDisplay is not called.
generateNewHwid_Undisplayed ==
    /\ NewHwid
    /\ UNCHANGED shownHwid
    /\ validationResult' = Message("status")

\* Defective variant: the simulated hardware is the same again.
generateNewHwid_Same ==
    /\ UNCHANGED <<currentHwid, shownHwid>>
    /\ validationResult' = Message("status")

generateNewHwid ==
    /\ NewHwid
    /\ shownHwid' = currentHwid'
    /\ validationResult' = Message("status")

\* The first button of the two; the scenario adds its tip a second later.
ClickNewHwid ==
    /\ Click
    /\ generateNewHwid
    /\ UNCHANGED <<currentLicense, limits, licenseOutput, awaiting, peak>>

simulateHardwareChange ==
    /\ Click
    /\ generateNewHwid
    /\ awaiting' = awaiting \cup {Handler("tip", licenseOutput, 0)}
    /\ UNCHANGED <<currentLicense, limits, licenseOutput, peak>>

-----------------------------------------------------------------------------
(* Generating.                                                               *)

\* Defective variant: the maximum itself passes.
checkRateLimit_OffByOne(count, throws) ==
    /\ IF hour > sessionStart THEN licenseCount' = 0 /\ sessionStart' = hour
                              ELSE licenseCount' = count /\ UNCHANGED sessionStart
    /\ throws <=> (licenseCount' > MaxLicenses)

checkRateLimit(count, throws) ==
    /\ IF hour > sessionStart THEN licenseCount' = 0 /\ sessionStart' = hour
                              ELSE licenseCount' = count /\ UNCHANGED sessionStart
    /\ throws <=> (licenseCount' >= MaxLicenses)

License == [id |-> clicks', hardware_hash |-> currentHwid, signed |-> TRUE, expired |-> FALSE]

Wait(op, license, left) ==
    /\ awaiting' = awaiting \cup {Handler(op, license, left)}
    /\ validationResult' = Message("status")

\* The new text takes the place of the one that other handlers are about.
Display(ws, license) ==
    /\ licenseOutput' = license
    /\ awaiting' = {[w EXCEPT !.overtaken = TRUE] : w \in ws}
    /\ validationResult' = Message("status")

generateLicenseWasm ==
    /\ phase = "wasm"
    /\ Display(awaiting, License)
    /\ UNCHANGED <<limits, peak>>

\* The JavaScript version up to its await; refused, it throws.
generateLicenseJS(op, left, refused) ==
    \/ /\ checkRateLimit(licenseCount, FALSE)
       /\ Wait(op, License, left)
       /\ peak' = Max({peak, Cardinality(Generations(awaiting'))})
    \/ /\ checkRateLimit(licenseCount, TRUE)
       /\ validationResult' = Message(refused)
       /\ UNCHANGED <<awaiting, peak>>

\* No feature is selected; or useWasm is TRUE and there is no manager yet.
Refused ==
    /\ validationResult' = Message("error")
    /\ UNCHANGED <<limits, licenseOutput, awaiting, peak>>

generateLicense ==
    /\ Click
    /\ \/ generateLicenseWasm
       \/ phase = "js" /\ generateLicenseJS("generate", 0, "error") /\ UNCHANGED licenseOutput
       \/ Refused
    /\ UNCHANGED <<currentHwid, shownHwid, currentLicense>>

\* The first half signs in JavaScript, one license after the other, and displays none.
\* What the first license throws is caught by nobody.
runPerformanceTest ==
    /\ Click
    /\ \/ /\ phase # "js"
          /\ generateLicenseJS("measure", Iterations - 1, "status")
       \/ /\ phase = "js"
          /\ validationResult' = Message("status")
          /\ UNCHANGED <<limits, awaiting, peak>>
    /\ UNCHANGED <<currentHwid, shownHwid, currentLicense, licenseOutput>>

-----------------------------------------------------------------------------
(* Validating, and the scenarios that change the text.                       *)

validateLicenseJS(license) ==
    CASE ~license.signed -> "signature"
      [] license.signed /\ license.expired -> "expired"
      [] OTHER -> IF license.hardware_hash = currentHwid THEN "valid" ELSE "hardware"

\* The module does not look at the expiry.
validateLicenseWasm(license) ==
    CASE license.hardware_hash # currentHwid -> "hardware"
      [] OTHER -> IF license.signed THEN "valid" ELSE "signature"

Compared(license) ==
    IF phase = "js" THEN validateLicenseJS(license) ELSE validateLicenseWasm(license)

\* The handlers below have nothing to do until there is a text.
OnText ==
    /\ Click
    /\ licenseOutput # NoLicense
    /\ UNCHANGED <<limits, currentHwid, shownHwid, currentLicense, peak>>

validateLicense ==
    /\ OnText
    /\ \/ /\ phase = "wasm"
          /\ validationResult' = About(Handler("validate", licenseOutput, 0), Compared(licenseOutput))
          /\ UNCHANGED awaiting
       \/ phase = "js" /\ Wait("validate", licenseOutput, 0)
    /\ UNCHANGED licenseOutput

\* A text with another expiry; its signature is the old one, or a new one.
Expired(signed) == [licenseOutput EXCEPT !.id = clicks', !.signed = signed, !.expired = TRUE]

\* Defective variant: the text is signed again in either version.
simulateExpiredLicense_Resigns ==
    /\ OnText
    /\ awaiting' = awaiting \cup {Handler("expire", Expired(TRUE), 0)}
    /\ UNCHANGED <<licenseOutput, validationResult>>

simulateExpiredLicense ==
    /\ OnText
    /\ \/ phase = "wasm" /\ Display(awaiting, Expired(FALSE))
       \/ /\ phase = "js"
          /\ awaiting' = awaiting \cup {Handler("expire", Expired(TRUE), 0)}
          /\ UNCHANGED <<licenseOutput, validationResult>>

tamperLicense ==
    /\ OnText
    /\ Display(awaiting, [licenseOutput EXCEPT !.id = clicks', !.signed = FALSE])

copyLicense ==
    /\ OnText
    /\ awaiting' = awaiting \cup {Handler("copy", NoLicense, 0)}
    /\ UNCHANGED <<licenseOutput, validationResult>>

-----------------------------------------------------------------------------
(* What runs when a promise settles or a timer ends.                         *)

\* The signature of a generation arrives; the handler runs to its end.
Signed(w) ==
    /\ w.op = "generate"
    /\ licenseCount' = licenseCount + 1
    /\ currentLicense' = w.license
    /\ Display(awaiting \ {w}, w.license)
    /\ UNCHANGED sessionStart

\* The next license of the performance test.
Again(w) == [w EXCEPT !.left = @ - 1, !.license.hardware_hash = currentHwid]

\* The signature of a license of the performance test arrives.  The next one may be
\* refused, which ends the test without a word.  After the last comes the second half,
\* in the module; with none it throws.
Measured(w) ==
    /\ w.op = "measure"
    /\ currentLicense' = w.license
    /\ \/ /\ w.left > 0
          /\ checkRateLimit(licenseCount + 1, FALSE)
          /\ awaiting' = (awaiting \ {w}) \cup {Again(w)}
          /\ validationResult' = Message("status")
       \/ /\ w.left > 0
          /\ checkRateLimit(licenseCount + 1, TRUE)
          /\ awaiting' = awaiting \ {w}
          /\ UNCHANGED validationResult
       \/ /\ w.left = 0
          /\ licenseCount' = licenseCount + 1
          /\ awaiting' = awaiting \ {w}
          /\ validationResult' = IF phase = "wasm" THEN Message("status") ELSE validationResult
          /\ UNCHANGED sessionStart
    /\ UNCHANGED licenseOutput

Resigned(w) ==
    /\ w.op = "expire"
    /\ Display(awaiting \ {w}, w.license)
    /\ UNCHANGED <<limits, currentLicense>>

\* A handler that only shows a message at its end.
Says(w, message) ==
    /\ validationResult' = message
    /\ awaiting' = awaiting \ {w}
    /\ UNCHANGED <<limits, currentLicense, licenseOutput>>

Verified(w) == w.op = "validate" /\ Says(w, About(w, Compared(w.license)))
Copied(w) == w.op = "copy" /\ Says(w, Message("status"))
Tip(w) == w.op = "tip" /\ Says(w, About(w, "tip"))

\* crypto.subtle or the clipboard fails.  Two handlers catch it.
Rejected(w) ==
    \/ w.op \in {"generate", "validate"} /\ Says(w, Message("error"))
    \/ w.op \in {"expire", "measure", "copy"} /\ Says(w, validationResult)

Settles ==
    /\ \E w \in awaiting :
           \/ Signed(w) \/ Measured(w) \/ Resigned(w)
           \/ Verified(w) \/ Copied(w) \/ Tip(w) \/ Rejected(w)
    /\ UNCHANGED <<phase, hwids, hour, clicks, peak>>

\* Three seconds later, unless it was replaced, a message that is no error or verdict goes.
Fades ==
    /\ validationResult.kind \in {"status", "tip"}
    /\ validationResult' = Message("none")
    /\ UNCHANGED <<phase, hwids, currentLicense, limits, licenseOutput, awaiting, hour,
                   clicks, peak>>

NextHour ==
    /\ hour < MaxHour
    /\ hour' = hour + 1
    /\ UNCHANGED <<phase, hwids, currentLicense, limits, licenseOutput, validationResult,
                   awaiting, clicks, peak>>

Next ==
    \/ initializeWasm
    \/ DOMContentLoaded
    \/ ClickNewHwid
    \/ generateLicense
    \/ validateLicense
    \/ copyLicense
    \/ simulateHardwareChange
    \/ simulateExpiredLicense
    \/ tamperLicense
    \/ runPerformanceTest
    \/ Settles
    \/ Fades
    \/ NextHour

Spec == Init /\ [][Next]_vars
-----------------------------------------------------------------------------
Texts == [id : 0..clicks, hardware_hash : 0..currentHwid, signed : BOOLEAN, expired : BOOLEAN]
Verdicts == {"valid", "signature", "expired", "hardware"}
Kinds == {"none", "status", "error", "tip"} \cup Verdicts
Waiting == [click : 1..clicks, op : {"generate", "measure", "validate", "expire", "copy", "tip"},
            license : Texts, left : 0..(Iterations - 1), overtaken : BOOLEAN]

\* The types; only the JavaScript version lets a signature, or its check, be awaited
\* that the display will show.
TypeOK ==
    /\ phase \in {"loading", "wasm", "js"}
    /\ hour \in Nat /\ clicks \in Nat /\ peak \in Nat /\ shown \in BOOLEAN
    /\ currentHwid \in Nat
    /\ shownHwid \in 0..currentHwid /\ assigned \in 0..currentHwid
    /\ currentLicense \in Texts
    /\ licenseOutput \in Texts
    /\ validationResult \in [kind : Kinds, license : Texts, overtaken : BOOLEAN]
    /\ licenseCount \in Nat
    /\ sessionStart \in 0..hour
    /\ awaiting \subseteq Waiting
    /\ \A w \in awaiting : w.op \in {"generate", "validate", "expire"} => phase = "js"

\* licenseCount is tested before the signature is awaited and incremented after it:
\* of the licenses of one hour, those of the performance test included, no more than
\* the maximum are issued, but for one each for the generations that waited together
\* beyond the first.
LimitUpToOverlap == licenseCount <= MaxLicenses - 1 + Max({1, peak})

\* A verdict on display is the one its text would get now, with the hardware id the page
\* has now, however long ago its handler began; and its text is the one on display,
\* unless a generation or a scenario replaced that while the validation waited.
VerdictHolds ==
    validationResult.kind \in Verdicts =>
        /\ validationResult.kind = Compared(validationResult.license)
        /\ validationResult.overtaken \/ validationResult.license = licenseOutput

\* A license that is shown to be valid is bound to the hardware id on display, unless
\* initializeWasm gave the page its id, which the page never displays by itself once
\* the timer of DOMContentLoaded is over.
ShownAgrees ==
    validationResult.kind = "valid" =>
        validationResult.license.hardware_hash = shownHwid \/ currentHwid = assigned

\* The tip that the license should now fail comes a second after the hardware changed:
\* the license on display does fail, unless another text was displayed meanwhile.
TipHolds ==
    validationResult.kind = "tip" =>
        \/ validationResult.overtaken
        \/ /\ validationResult.license = licenseOutput
           /\ Compared(licenseOutput) # "valid"

-----------------------------------------------------------------------------
(* Why it is so: an invariant that every step preserves.  Proved in           *)
(* DemoPageProofs.                                                           *)

Pending == Cardinality(Generations(awaiting))

\* The licenses counted and those that will be when their signatures arrive.
Counts ==
    /\ IsFiniteSet(awaiting)
    /\ Pending <= peak
    /\ licenseCount + Pending <= MaxLicenses - 1 + Max({1, peak})

\* A validation or a tip is about the text on display, unless that was replaced since;
\* and a tip is about a text of other hardware.
Awaited ==
    \A w \in awaiting :
        \/ w.op \notin {"validate", "tip"} \/ w.overtaken
        \/ w.license = licenseOutput /\ (w.op = "tip" => w.license.hardware_hash # currentHwid)

\* The same of the message on display.
Told ==
    validationResult.kind = "tip" =>
        \/ validationResult.overtaken
        \/ /\ validationResult.license = licenseOutput
           /\ validationResult.license.hardware_hash # currentHwid

IInv ==
    /\ TypeOK
    /\ Counts
    /\ phase = "loading" => licenseOutput = NoLicense /\ validationResult.kind \notin Verdicts
    /\ shownHwid = currentHwid \/ currentHwid = assigned
    /\ Awaited
    /\ VerdictHolds
    /\ Told
=============================================================================
