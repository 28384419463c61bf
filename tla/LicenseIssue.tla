---------------------------- MODULE LicenseIssue ----------------------------
(***************************************************************************)
(* The life of a license text: generated for a machine (license_generator,   *)
(* LicenseManager::generate_license) or written and signed by other means    *)
(* (HMACValidator::sign_json), altered on its way, loaded on some machine at *)
(* some time, and issued again from what was loaded.                         *)
(*                                                                          *)
(* A text is what SimpleJson makes of it, a function from field names to     *)
(* values; SimpleJson shows that writing and reading do not change it.  A    *)
(* string is tagged with what the code can read in it: a number, a date with *)
(* or without its time of day, an HMAC, or nothing ("text").  Times are      *)
(* counted in ticks of system_clock, a word of 2 * HalfRange values.  Signed    *)
(* words that overflow wrap, as they do on the processors the build is for.    *)
(***************************************************************************)
EXTENDS Integers, FiniteSets, Functions

CONSTANTS
    Keys, ShortKeys,    \* secret keys; those of fewer than 16 characters
    Key,                \* the key of the program that loads
    Hwids,              \* fingerprints of machines
    TicksPerSecond,
    HalfRange,          \* 2^63 ticks
    TicksPerHour,
    HourRange,          \* 2^31 hours
    VersionRange,       \* 2^32
    LongRange,          \* 2^64
    Lists,              \* lists of features
    Validities,         \* --days, in hours
    Drafts,             \* texts written by other means, not yet signed
    Alterations,        \* field and value pairs that may get into a text
    MaxClock, MaxSigned, MaxChanges     \* bounds

Text(s) == <<"text", s>>
Number(n) == <<"number", n>>
Date(s) == <<"date", s>>            \* "%Y-%m-%dT%H:%M:%SZ", in seconds
Day(s) == <<"day", s>>              \* "%Y-%m-%d", its midnight
List(fs) == <<"list", fs>>
Empty == Text("")

Required == {"user_id", "license_id", "expiry", "hardware_hash", "features",
             "hmac_signature"}
Fields == Required \cup {"issued_at", "version", "note"}

\* What is read as a number or a date is one.
Readable(v) == v[1] \in {"number", "date", "day"} => v[2] \in Int

ASSUME KeysAssumption == ShortKeys \subseteq Keys /\ Key \in Keys \ ShortKeys
ASSUME HwidsAssumption == \A h \in Hwids : h[1] = "text" /\ h # Empty
ASSUME WordAssumption == /\ TicksPerSecond \in Nat \ {0} /\ HalfRange \in Nat \ {0}
                         /\ VersionRange \in Nat \ {0, 1} /\ LongRange \in Nat
                         /\ VersionRange <= LongRange /\ LongRange % VersionRange = 0
\* An int holds more hours than the clock does.
ASSUME HoursAssumption == /\ TicksPerHour \in Nat \ {0} /\ HourRange \in Nat \ {0}
                          /\ 2 * HalfRange <= HourRange * TicksPerHour
ASSUME ValiditiesAssumption == Validities \subseteq Int
ASSUME DraftsAssumption ==
    \A d \in Drafts : /\ DOMAIN d \subseteq Fields \ {"hmac_signature"}
                      /\ \A f \in DOMAIN d : Readable(d[f])
\* No one can make up an HMAC without the key.
ASSUME AlterationsAssumption ==
    \A a \in Alterations : /\ a[1] \in Fields /\ Readable(a[2])
                           /\ a[1] = "hmac_signature" => a[2][1] # "hmac"
ASSUME BoundAssumption == MaxClock \in 1 .. HalfRange - 1 /\ MaxSigned \in Nat /\ MaxChanges \in Nat

VARIABLES
    clock,
    license,    \* the text at hand
    changes,    \* fields altered so far
    last,       \* the last load_and_validate: its text, place, time and outcome
    signed      \* history: what was signed, by whom, and the expiry that was meant

vars == <<clock, license, changes, last, signed>>

NoText == Restrict([f \in Fields |-> Empty], {})
NotLoaded == [license |-> NoText, hwid |-> Text("none"), at |-> 0, outcome |-> "none"]

-----------------------------------------------------------------------------
(* Dates and numbers.                                                       *)

\* The value of n in a signed word of 2 * half values: a count of ticks, an int.
Word(n, half) == ((n + half) % (2 * half)) - half
Wrap(n) == Word(n, HalfRange)
Hours(n) == Word(n, HourRange)

\* Defective variant: rounding to the next second.
to_time_t_Up(t) == (t + TicksPerSecond - 1) \div TicksPerSecond

\* duration_cast truncates toward zero.
to_time_t(t) == IF t >= 0 THEN t \div TicksPerSecond ELSE -((-t) \div TicksPerSecond)

format_iso8601(t) == Date(to_time_t(t))

\* timegm's -1 is taken for its failure.
IsDate(v) == v[1] \in {"date", "day"} /\ v[2] # -1
parse_iso8601(v) == Wrap(v[2] * TicksPerSecond)

\* Defective variant: the number is not narrowed.
Version_Wide(n) == n % LongRange

\* stoul takes "-1" as well and refuses what no unsigned long holds; uint32_t then
\* keeps the low half.
IsVersion(v) == v[1] = "number" /\ v[2] < LongRange /\ v[2] > -LongRange
Version(n) == (n % LongRange) % VersionRange

-----------------------------------------------------------------------------
(* HMACValidator and SimpleJson's getters.                                  *)

get_string(d, f) == IF f \in DOMAIN d /\ d[f][1] # "list" THEN d[f] ELSE Empty
get_string_array(d, f) == IF f \in DOMAIN d /\ d[f][1] = "list" THEN d[f][2] ELSE {}

\* HMAC-SHA256 takes different keys and texts to different strings.
sign(k, d) == <<"hmac", k, d>>
sign_json(k, d) == sign(k, d)

\* Defective variant: only the fields the program knows are signed and verified.
Unsigned_Known(d) == Restrict(d, (DOMAIN d \cap (Required \cup {"issued_at", "version"}))
                                 \ {"hmac_signature"})

Unsigned(d) == Restrict(d, DOMAIN d \ {"hmac_signature"})
verify(k, d, signature) == signature = sign(k, d)
verify_json(k, d) ==
    "hmac_signature" \in DOMAIN d /\ verify(k, Unsigned(d), get_string(d, "hmac_signature"))

With(d, f, v) == [g \in DOMAIN d \cup {f} |-> IF g = f THEN v ELSE d[g]]

\* Defective variant: a license is still good at the tick after its expiry.
validate_license_Late(info, hwid, now) ==
    IF info.hardware_hash # hwid \/ info.expiry + 1 < now THEN "LicenseValidation" ELSE "true"

\* HMACValidator::validate_license.
validate_license(info, hwid, now) ==
    IF info.hardware_hash # hwid \/ info.expiry < now THEN "LicenseValidation" ELSE "true"

-----------------------------------------------------------------------------
(* LicenseManager.                                                          *)

\* What load_and_validate extracts; LicenseInfo has the defaults.
Info(d) ==
    [user_id       |-> get_string(d, "user_id"),
     license_id    |-> get_string(d, "license_id"),
     hardware_hash |-> get_string(d, "hardware_hash"),
     features      |-> get_string_array(d, "features"),
     version       |-> IF "version" \in DOMAIN d THEN Version(get_string(d, "version")[2]) ELSE 1,
     expiry        |-> parse_iso8601(d["expiry"]),
     issued_at     |-> IF "issued_at" \in DOMAIN d THEN parse_iso8601(d["issued_at"]) ELSE 0]

Nameless(d) ==
    \E f \in {"user_id", "license_id", "hardware_hash"} : get_string(d, f) = Empty

Malformed(d) ==
    \/ ~(Required \subseteq DOMAIN d)
    \/ Nameless(d)
    \/ "version" \in DOMAIN d /\ ~IsVersion(get_string(d, "version"))
    \/ ~IsDate(get_string(d, "expiry"))
    \/ "issued_at" \in DOMAIN d /\ ~IsDate(get_string(d, "issued_at"))

load_and_validate(d, hwid, now) ==
    IF Malformed(d) THEN "MalformedLicense"
    ELSE IF now > Info(d).expiry THEN "ExpiredLicense"
    ELSE IF ~verify(Key, Unsigned(d), get_string(d, "hmac_signature")) THEN "InvalidSignature"
    ELSE IF hwid # Info(d).hardware_hash THEN "HardwareMismatch"
    ELSE "ok"

\* Defective variant: the version is left out, since 1 is the default.
Written_NoVersion(info) ==
    [f \in Fields \ {"hmac_signature", "note", "version"} |->
        CASE f \in {"user_id", "license_id", "hardware_hash"} -> info[f]
          [] f \in {"expiry", "issued_at"} -> format_iso8601(info[f])
          [] f = "features" -> List(info.features)]

\* The text generate_license signs.  (It refuses empty names, which neither the
\* generator nor load_and_validate yields.)
Written(info) ==
    [f \in Fields \ {"hmac_signature", "note"} |->
        CASE f \in {"user_id", "license_id", "hardware_hash"} -> info[f]
          [] f \in {"expiry", "issued_at"} -> format_iso8601(info[f])
          [] f = "features" -> List(info.features)
          [] f = "version" -> Number(info.version)]
generate_license(k, info) ==
    With(Written(info), "hmac_signature", sign(k, Written(info)))

-----------------------------------------------------------------------------
Init ==
    /\ clock = 1
    /\ license = NoText
    /\ changes = 0
    /\ last = NotLoaded
    /\ signed = {}

Tick ==
    /\ \E t \in clock + 1 .. MaxClock : clock' = t
    /\ UNCHANGED <<license, changes, last, signed>>

\* A signature is kept with the expiry its author had in mind.
Signs(k, d, text, meant, by) ==
    /\ license' = text
    /\ signed' = signed \cup {[key |-> k, text |-> text, data |-> d, meant |-> meant, by |-> by]}
    /\ last' = NotLoaded
    /\ UNCHANGED <<clock, changes>>

MaySign(k) == k \in Keys \ ShortKeys \* HMACValidator's constructor refuses the others

\* license_generator: expiry = now + hours(24 * days); the product may overflow an
\* int, the sum the clock.  It ends with a Load of its own, whose manager dies with it.
Generate(k) ==
    /\ MaySign(k)
    /\ Cardinality(signed) < MaxSigned
    /\ \E v \in Validities, h \in Hwids, fs \in Lists :
          LET info == [user_id |-> Text("u"), license_id |-> Text("lic"), hardware_hash |-> h,
                       features |-> fs, version |-> 1, issued_at |-> clock,
                       expiry |-> Wrap(clock + Hours(v) * TicksPerHour)]
          IN  Signs(k, Written(info), generate_license(k, info), clock + v * TicksPerHour,
                    "generate")

\* A text written by other means, signed with sign_json and completed.
Draft(k) ==
    /\ MaySign(k)
    /\ Cardinality(signed) < MaxSigned
    /\ \E d \in Drafts :
          Signs(k, d, With(d, "hmac_signature", sign_json(k, d)),
                d["expiry"][2] * TicksPerSecond, "draft")

\* A field is lost, replaced or added; a signature comes from another text.
Alter ==
    /\ license # NoText
    /\ changes < MaxChanges
    /\ changes' = changes + 1
    /\ \/ \E f \in DOMAIN license : license' = Restrict(license, DOMAIN license \ {f})
       \/ \E a \in Alterations : license' = With(license, a[1], a[2])
       \/ \E r \in signed : license' = With(license, "hmac_signature", sign(r.key, r.data))
    /\ last' = NotLoaded
    /\ UNCHANGED <<clock, signed>>

Load ==
    /\ license # NoText
    /\ \E h \in Hwids :
          last' = [license |-> license, hwid |-> h, at |-> clock,
                   outcome |-> load_and_validate(license, h, clock)]
    /\ UNCHANGED <<clock, license, changes, signed>>

\* generate_license for the LicenseInfo that load_and_validate returned.
Reissue ==
    /\ last.outcome = "ok"
    /\ Cardinality(signed) < MaxSigned
    /\ LET info == Info(last.license)
       IN  Signs(Key, Written(info), generate_license(Key, info), info.expiry, "generate")

Next ==
    \/ Tick
    \/ \E k \in Keys : Generate(k) \/ Draft(k)
    \/ Alter
    \/ Load
    \/ Reissue

Spec == Init /\ [][Next]_vars
-----------------------------------------------------------------------------
InRange(t) == t \in -HalfRange .. HalfRange - 1
Accepted == last.outcome = "ok"
Loaded == Info(last.license)

TypeOK ==
    /\ clock \in 1..MaxClock
    /\ changes \in 0..MaxChanges
    /\ DOMAIN license \subseteq Fields
    /\ Cardinality(signed) <= MaxSigned
    /\ last.outcome \in {"none", "ok", "MalformedLicense", "ExpiredLicense",
                          "InvalidSignature", "HardwareMismatch"}
    /\ Accepted => /\ Loaded.version \in 0 .. VersionRange - 1
                   /\ InRange(Loaded.expiry) /\ InRange(Loaded.issued_at)

\* Whatever happened to a text on its way, it is accepted only if a holder of the
\* key signed exactly the fields it now has, those the program does not know and
\* those it could do without included.
Genuine ==
    Accepted => \E r \in signed :
        /\ r.key = Key
        /\ r.data = Restrict(last.license, DOMAIN last.license \ {"hmac_signature"})

\* An untouched license is accepted after the expiry its author meant only if that
\* expiry lies before the clock's first instant (in 1677): parse_iso8601 makes another
\* date of it, which may be still to come.  What lies after the last instant ends
\* earlier than was meant.  And one from the generator that fits the clock is accepted
\* until less than a second before its expiry, by the machine it is for and by no
\* other.  The code counts hours in an int, writes whole seconds and reads them back in
\* another unit.  (The exception: issued again, an issue date that no clock holds may
\* have become the second before 1970, which cannot be read.)
AsMeant ==
    \A r \in signed :
        r.key = Key /\ r.text = last.license =>
            /\ Accepted /\ last.at > r.meant => r.meant < -HalfRange
            /\ r.by = "generate" /\ IsDate(r.data["issued_at"]) /\ last # NotLoaded
               /\ InRange(r.meant) /\ last.at + TicksPerSecond <= r.meant =>
                  last.outcome = IF last.hwid = r.data["hardware_hash"]
                                 THEN "ok" ELSE "HardwareMismatch"

\* What tests/test_simple.cpp:86-95 and exceptions.hpp:38 say: a license that has
\* expired is refused.  It is not so for an expiry the clock cannot hold.
NeverLate ==
    \A r \in signed :
        r.key = Key /\ r.text = last.license /\ Accepted => last.at <= r.meant

InstantsFit(d) ==
    \A f \in {"expiry", "issued_at"} \cap DOMAIN d : InRange(d[f][2] * TicksPerSecond)

\* Issuing a license again from what was loaded gives a license that loads to the
\* same members at the same time and place, though dates, versions and defaults
\* went through text: as long as the dates fit the clock.
ReissueStable ==
    Accepted /\ InstantsFit(last.license) =>
        LET again == generate_license(Key, Loaded)
        IN  load_and_validate(again, last.hwid, last.at) = "ok" /\ Info(again) = Loaded

\* The validators of the library agree on a license that was loaded, whenever and
\* wherever it is looked at again, and verify_json on the signature it came with.
ValidatorsAgree ==
    /\ last.outcome \in {"ok", "HardwareMismatch"} => verify_json(Key, last.license)
    /\ Accepted => \A h \in Hwids :
        load_and_validate(last.license, h, clock) = "ok" <=>
            validate_license(Loaded, h, clock) = "true"

-----------------------------------------------------------------------------
(* Why it is so: an invariant that every step preserves, and that implies the *)
(* properties.  Proved in LicenseIssueProofs.                                 *)

Names == {"user_id", "license_id", "hardware_hash"}

\* An HMAC in its place is one that a holder of the key made.
Provenance ==
    "hmac_signature" \in DOMAIN license /\ license["hmac_signature"][1] = "hmac" =>
        \E r \in signed : license["hmac_signature"] = sign(r.key, r.data)

\* What the generator signed can be read back, its issue date excepted.
Issued(r) ==
    /\ r.data = Restrict(r.data, Fields \ {"hmac_signature", "note"})
    /\ \A f \in Names : r.data[f] # Empty /\ r.data[f][1] # "list"
    /\ \E n \in 0 .. VersionRange - 1 : r.data["version"] = Number(n)
    /\ r.meant \in Int
    /\ \E t \in Int : /\ r.data["expiry"] = format_iso8601(Wrap(t))
                      /\ InRange(r.meant) => t = r.meant
    /\ r.data["issued_at"][1] = "date" /\ r.data["issued_at"][2] \in Int

Records ==
    \A r \in signed :
        /\ r.text = With(r.data, "hmac_signature", sign(r.key, r.data))
        /\ \/ r.by = "generate" /\ Issued(r)
           \/ r.by = "draft" /\ r.meant = r.data["expiry"][2] * TicksPerSecond

\* The last load was of the text at hand.
LastLoad ==
    last = NotLoaded \/
        /\ last.license = license
        /\ last.hwid \in Hwids
        /\ last.at \in 1..clock
        /\ last.outcome = load_and_validate(license, last.hwid, last.at)

IInv ==
    /\ clock \in 1..MaxClock
    /\ changes \in 0..MaxChanges
    /\ DOMAIN license \subseteq Fields
    /\ \A f \in DOMAIN license : Readable(license[f])
    /\ IsFiniteSet(signed) /\ Cardinality(signed) <= MaxSigned
    /\ Provenance
    /\ Records
    /\ LastLoad
=============================================================================
