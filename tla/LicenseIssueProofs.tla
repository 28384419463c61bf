------------------------- MODULE LicenseIssueProofs -------------------------
(***************************************************************************)
(* Proofs about LicenseIssue, for any keys, machines, texts and alterations, *)
(* and for words and seconds of any size.                                    *)
(***************************************************************************)
EXTENDS LicenseIssue, FiniteSetTheorems, TLAPS

USE KeysAssumption, WordAssumption

-----------------------------------------------------------------------------
(* Words and seconds.                                                        *)

\* The range of a remainder.
LEMMA Remainder ==
    ASSUME NEW n \in Int, NEW m \in Nat \ {0}
    PROVE  n % m \in 0 .. m - 1 /\ (n \in 0 .. m - 1 => n % m = n)
OBVIOUS

\* The division of naturals.
LEMMA Quotient ==
    ASSUME NEW n \in Nat, NEW m \in Nat \ {0}
    PROVE  n \div m \in Nat /\ (n \div m) * m <= n /\ n < (n \div m) * m + m
OBVIOUS

\* A count of ticks that fits the word is kept, any other becomes one that fits.
LEMMA Wrapping ==
    ASSUME NEW n \in Int
    PROVE  /\ Wrap(n) \in Int /\ InRange(Wrap(n))
           /\ InRange(n) => Wrap(n) = n
<1> DEFINE m == 2 * HalfRange
<1>1. m \in Nat \ {0} /\ n + HalfRange \in Int
  OBVIOUS
<1>2. /\ (n + HalfRange) % m \in 0 .. m - 1
      /\ n + HalfRange \in 0 .. m - 1 => (n + HalfRange) % m = n + HalfRange
  BY <1>1, Remainder
<1> QED
  BY <1>2 DEF Wrap, Word, InRange

\* Hours that bring the clock to a time it holds are hours an int holds.
LEMMA HoursFit ==
    ASSUME NEW v \in Int, NEW now \in 1 .. HalfRange - 1, InRange(now + v * TicksPerHour)
    PROVE  Hours(v) = v
<1> USE HoursAssumption
<1>1. ASSUME NEW a \in Int, a >= HourRange
      PROVE  a * TicksPerHour >= 2 * HalfRange
  <2>1. (a - HourRange) * TicksPerHour >= 0
    <3>1. \A x, y \in Nat : x * y >= 0
      OBVIOUS
    <3>2. a - HourRange \in Nat
      BY <1>1
    <3> QED
      BY <3>1, <3>2
  <2>2. (a - HourRange) * TicksPerHour = a * TicksPerHour - HourRange * TicksPerHour
    OBVIOUS
  <2>3. a * TicksPerHour \in Int /\ HourRange * TicksPerHour \in Int
    OBVIOUS
  <2> QED
    BY <2>1, <2>2, <2>3
<1>2. v * TicksPerHour \in Int /\ (-v) * TicksPerHour = -(v * TicksPerHour)
  OBVIOUS
<1>3. v * TicksPerHour < 2 * HalfRange /\ -(v * TicksPerHour) < 2 * HalfRange
  BY <1>2 DEF InRange
<1>4. v < HourRange
  BY <1>1, <1>3
<1>5. -v < HourRange
  <2>1. -v \in Int
    OBVIOUS
  <2>2. CASE -v >= HourRange
    BY <1>1, <1>2, <1>3, <2>1, <2>2
  <2> QED
    BY <2>1, <2>2
<1> DEFINE m == 2 * HourRange
<1>6. m \in Nat \ {0} /\ v + HourRange \in 0 .. m - 1 /\ v + HourRange \in Int
  BY <1>4, <1>5
<1>7. (v + HourRange) % m = v + HourRange
  <2> HIDE DEF m
  <2> QED
    BY <1>6, Remainder
<1> QED
  BY <1>7 DEF Hours, Word

\* The hours of an int are a number.
LEMMA HoursType ==
    ASSUME NEW v \in Int
    PROVE  Hours(v) \in Int
<1> DEFINE m == 2 * HourRange
<1>1. m \in Nat \ {0} /\ v + HourRange \in Int
  BY HoursAssumption
<1>2. (v + HourRange) % m \in Int
  <2> HIDE DEF m
  <2> QED
    BY <1>1, Remainder
<1> QED
  BY <1>2, HoursAssumption DEF Hours, Word

\* Truncation drops less than a second and never goes past zero.
LEMMA Seconds ==
    ASSUME NEW t \in Int
    PROVE  /\ to_time_t(t) \in Int /\ to_time_t(t) * TicksPerSecond \in Int
           /\ t >= 0 => /\ to_time_t(t) >= 0
                        /\ to_time_t(t) * TicksPerSecond <= t
                        /\ t < to_time_t(t) * TicksPerSecond + TicksPerSecond
           /\ t < 0 => /\ t <= to_time_t(t) * TicksPerSecond
                       /\ to_time_t(t) * TicksPerSecond <= 0
           /\ InRange(t) => InRange(to_time_t(t) * TicksPerSecond)
<1>1. CASE t >= 0
  <2>1. to_time_t(t) = t \div TicksPerSecond
    BY <1>1 DEF to_time_t
  <2>2. /\ to_time_t(t) \in Nat /\ to_time_t(t) * TicksPerSecond <= t
        /\ t < to_time_t(t) * TicksPerSecond + TicksPerSecond
    BY <1>1, <2>1, Quotient
  <2>3. to_time_t(t) * TicksPerSecond \in Nat
    BY <2>2
  <2> QED
    BY <1>1, <2>2, <2>3 DEF InRange
<1>2. CASE t < 0
  <2> DEFINE q == (-t) \div TicksPerSecond
  <2>1. to_time_t(t) = -q
    BY <1>2 DEF to_time_t
  <2>2. q \in Nat /\ q * TicksPerSecond <= -t
    BY <1>2, Quotient
  <2> HIDE DEF q
  <2>3. q * TicksPerSecond \in Nat /\ (-q) * TicksPerSecond = -(q * TicksPerSecond)
    BY <2>2
  <2> QED
    BY <1>2, <2>1, <2>2, <2>3 DEF InRange
<1> QED
  BY <1>1, <1>2

\* Whole seconds survive the conversion to ticks and back.
LEMMA SecondsBack ==
    ASSUME NEW s \in Int
    PROVE  s * TicksPerSecond \in Int /\ to_time_t(s * TicksPerSecond) = s
<1>1. \A n \in Int : (n * TicksPerSecond) \div TicksPerSecond = n
  OBVIOUS
<1>2. s * TicksPerSecond \in Int /\ -(s * TicksPerSecond) = (-s) * TicksPerSecond
  OBVIOUS
<1> QED
  BY <1>1, <1>2 DEF to_time_t

\* A version is narrowed once.
LEMMA Narrowing ==
    ASSUME NEW n \in Int
    PROVE  Version(n) \in 0 .. VersionRange - 1 /\ (n \in 0 .. VersionRange - 1 => Version(n) = n)
<1>1. n % LongRange \in Int /\ (n \in 0 .. VersionRange - 1 => n % LongRange = n)
  BY Remainder
<1> QED
  BY <1>1, Remainder DEF Version

-----------------------------------------------------------------------------
(* Texts.                                                                    *)

\* Adding the signature to a document, and removing it again for the verification.
LEMMA Completed ==
    ASSUME NEW d, "hmac_signature" \notin DOMAIN d, NEW v,
           NEW text, text = With(d, "hmac_signature", v)
    PROVE  /\ DOMAIN text = DOMAIN d \cup {"hmac_signature"}
           /\ text["hmac_signature"] = v
           /\ \A f \in DOMAIN d : text[f] = d[f]
           /\ Unsigned(text) = Restrict(d, DOMAIN d)
BY DEF With, Unsigned, Restrict

\* The outcome of a load: accepted exactly when every check of the code passes.
LEMMA Outcomes ==
    ASSUME NEW d, NEW h, NEW t
    PROVE  LET o == load_and_validate(d, h, t)
               good == /\ ~Malformed(d) /\ ~(t > Info(d).expiry)
                       /\ verify(Key, Unsigned(d), get_string(d, "hmac_signature"))
           IN  /\ o \in {"ok", "MalformedLicense", "ExpiredLicense", "InvalidSignature",
                         "HardwareMismatch"}
               /\ o = "ok" <=> good /\ h = Info(d).hardware_hash
               /\ o = "HardwareMismatch" <=> good /\ h # Info(d).hardware_hash
BY DEF load_and_validate

\* What a text that is not malformed yields.
LEMMA Extracted ==
    ASSUME NEW d, \A f \in DOMAIN d : Readable(d[f]), ~Malformed(d)
    PROVE  /\ Required \subseteq DOMAIN d
           /\ \A f \in Names : get_string(d, f) = d[f] /\ d[f] # Empty /\ d[f][1] # "list"
           /\ Info(d).version \in 0 .. VersionRange - 1
           /\ /\ get_string(d, "expiry") = d["expiry"] /\ IsDate(d["expiry"])
              /\ d["expiry"][2] \in Int /\ Info(d).expiry = Wrap(d["expiry"][2] * TicksPerSecond)
              /\ Info(d).expiry \in Int /\ InRange(Info(d).expiry)
           /\ "issued_at" \in DOMAIN d =>
                /\ d["issued_at"][2] \in Int \ {-1}
                /\ Info(d).issued_at = Wrap(d["issued_at"][2] * TicksPerSecond)
           /\ "issued_at" \notin DOMAIN d => Info(d).issued_at = 0
           /\ Info(d).issued_at \in Int /\ InRange(Info(d).issued_at)
<1>1. Required \subseteq DOMAIN d /\ ~Nameless(d)
  BY DEF Malformed
<1>2. Empty[1] = "text"
  BY DEF Empty, Text
<1>3. \A f \in Names : get_string(d, f) = d[f] /\ d[f] # Empty /\ d[f][1] # "list"
  BY <1>1 DEF Names, Required, Nameless, get_string
<1>4. Info(d).version \in 0 .. VersionRange - 1
  <2>1. CASE "version" \in DOMAIN d
    <3>1. IsVersion(get_string(d, "version"))
      BY <2>1 DEF Malformed
    <3>2. get_string(d, "version")[2] \in Int
      BY <1>2, <2>1, <3>1 DEF IsVersion, get_string, Readable
    <3> QED
      BY <2>1, <3>2, Narrowing DEF Info
  <2>2. CASE "version" \notin DOMAIN d
    BY <2>2 DEF Info
  <2> QED
    BY <2>1, <2>2
<1>5. \A f \in DOMAIN d : IsDate(get_string(d, f)) =>
          /\ get_string(d, f) = d[f] /\ IsDate(d[f]) /\ d[f][2] \in Int \ {-1}
          /\ d[f][2] * TicksPerSecond \in Int
  BY <1>2 DEF IsDate, get_string, Readable
<1>6. /\ get_string(d, "expiry") = d["expiry"] /\ IsDate(d["expiry"])
      /\ d["expiry"][2] \in Int /\ d["expiry"][2] * TicksPerSecond \in Int
  BY <1>1, <1>5 DEF Malformed, Required
<1>7. Info(d).expiry = Wrap(d["expiry"][2] * TicksPerSecond)
  BY DEF Info, parse_iso8601
<1>8. CASE "issued_at" \in DOMAIN d
  <2>1. d["issued_at"][2] \in Int \ {-1} /\ d["issued_at"][2] * TicksPerSecond \in Int
    BY <1>5, <1>8 DEF Malformed
  <2>2. Info(d).issued_at = Wrap(d["issued_at"][2] * TicksPerSecond)
    BY <1>8 DEF Info, parse_iso8601
  <2> QED
    BY <1>1, <1>3, <1>4, <1>6, <1>7, <1>8, <2>1, <2>2, Wrapping
<1>9. CASE "issued_at" \notin DOMAIN d
  <2>1. Info(d).issued_at = 0 /\ InRange(0)
    BY <1>9 DEF Info, InRange
  <2> QED
    BY <1>1, <1>3, <1>4, <1>6, <1>7, <1>9, <2>1, Wrapping
<1> QED
  BY <1>8, <1>9

\* What generate_license makes of a LicenseInfo with names and dates that fit.
Issuable(info) ==
    /\ info.user_id # Empty /\ info.user_id[1] # "list" /\ Readable(info.user_id)
    /\ info.license_id # Empty /\ info.license_id[1] # "list" /\ Readable(info.license_id)
    /\ info.hardware_hash # Empty /\ info.hardware_hash[1] # "list"
    /\ Readable(info.hardware_hash)
    /\ info.version \in 0 .. VersionRange - 1
    /\ info.expiry \in Int /\ info.issued_at \in Int

\* The fields generate_license writes.
LEMMA Writing ==
    ASSUME NEW info
    PROVE  /\ DOMAIN Written(info) = Fields \ {"hmac_signature", "note"}
           /\ Written(info) = Restrict(Written(info), Fields \ {"hmac_signature", "note"})
           /\ Written(info)["user_id"] = info.user_id
           /\ Written(info)["license_id"] = info.license_id
           /\ Written(info)["hardware_hash"] = info.hardware_hash
           /\ Written(info)["expiry"] = format_iso8601(info.expiry)
           /\ Written(info)["issued_at"] = format_iso8601(info.issued_at)
           /\ Written(info)["features"] = List(info.features)
           /\ Written(info)["version"] = Number(info.version)
<1>1. Fields \ {"hmac_signature", "note"} =
          {"user_id", "license_id", "expiry", "hardware_hash", "features", "issued_at", "version"}
  BY DEF Fields, Required
<1>2. DOMAIN Written(info) = Fields \ {"hmac_signature", "note"}
  BY DEF Written
<1>3. Written(info) = Restrict(Written(info), Fields \ {"hmac_signature", "note"})
  <2> DEFINE S == Fields \ {"hmac_signature", "note"}
             value(f) == CASE f \in {"user_id", "license_id", "hardware_hash"} -> info[f]
                           [] f \in {"expiry", "issued_at"} -> format_iso8601(info[f])
                           [] f = "features" -> List(info.features)
                           [] f = "version" -> Number(info.version)
  <2>1. Written(info) = [f \in S |-> value(f)]
    BY DEF Written
  <2> HIDE DEF value, S
  <2>2. Written(info) = Restrict(Written(info), S)
    BY <2>1 DEF Restrict
  <2> QED
    BY <2>2 DEF S
<1> QED
  BY <1>1, <1>2, <1>3 DEF Written

\* Every field it writes can be read back.
LEMMA WritingReadable ==
    ASSUME NEW info, Issuable(info)
    PROVE  \A f \in DOMAIN Written(info) : Readable(Written(info)[f])
<1>1. DOMAIN Written(info) =
          {"user_id", "license_id", "expiry", "hardware_hash", "features", "issued_at", "version"}
  BY Writing DEF Fields, Required
<1>2. /\ Readable(format_iso8601(info.expiry)) /\ Readable(format_iso8601(info.issued_at))
      /\ Readable(List(info.features)) /\ Readable(Number(info.version))
  BY Seconds DEF Issuable, Readable, format_iso8601, Date, List, Number
<1> QED
  BY <1>1, <1>2, Writing DEF Issuable

-----------------------------------------------------------------------------
(* The invariant.                                                            *)

\* Before the first license.
LEMMA InvariantInit == Init => IInv
<1> SUFFICES ASSUME Init PROVE IInv
  OBVIOUS
<1>1. DOMAIN license = {}
  BY DEF Init, NoText, Restrict
<1>2. IsFiniteSet(signed) /\ Cardinality(signed) = 0
  BY FS_EmptySet DEF Init
<1> QED
  BY <1>1, <1>2, BoundAssumption DEF Init, IInv, Provenance, Records, LastLoad

\* A text is signed and completed.
LEMMA SignsStep ==
    ASSUME IInv, NEW k, NEW d, NEW text, NEW meant, NEW by, Signs(k, d, text, meant, by),
           Cardinality(signed) < MaxSigned,
           DOMAIN d \subseteq Fields \ {"hmac_signature"}, \A f \in DOMAIN d : Readable(d[f]),
           text = With(d, "hmac_signature", sign(k, d)),
           \/ by = "generate" /\ Issued([key |-> k, text |-> text, data |-> d, meant |-> meant,
                                        by |-> by])
           \/ by = "draft" /\ meant = d["expiry"][2] * TicksPerSecond
    PROVE  IInv'
<1> DEFINE r == [key |-> k, text |-> text, data |-> d, meant |-> meant, by |-> by]
<1>1. /\ license' = text /\ signed' = signed \cup {r} /\ last' = NotLoaded
      /\ clock' = clock /\ changes' = changes
  BY DEF Signs
<1>2. /\ DOMAIN text = DOMAIN d \cup {"hmac_signature"}
      /\ text["hmac_signature"] = sign(k, d) /\ \A f \in DOMAIN d : text[f] = d[f]
  BY DEF With
<1>3. Readable(sign(k, d))
  BY DEF sign, Readable
<1>4. DOMAIN text \subseteq Fields /\ \A f \in DOMAIN text : Readable(text[f])
  BY <1>2, <1>3 DEF Fields, Required
<1>5. IsFiniteSet(signed') /\ Cardinality(signed') <= MaxSigned
  <2>1. IsFiniteSet(signed) /\ Cardinality(signed) \in Nat
    BY FS_CardinalityType DEF IInv
  <2>2. IsFiniteSet(signed') /\ (Cardinality(signed') = Cardinality(signed)
                               \/ Cardinality(signed') = Cardinality(signed) + 1)
    BY <1>1, <2>1, FS_AddElement
  <2> QED
    BY <2>1, <2>2, BoundAssumption
<1>6. /\ r.key = k /\ r.text = text /\ r.data = d /\ r.meant = meant /\ r.by = by
      /\ r \in signed'
  BY <1>1
<1> HIDE DEF r
<1>7. Provenance'
  BY <1>1, <1>2, <1>6 DEF Provenance
<1>8. Records'
  <2>1. /\ r.text = With(r.data, "hmac_signature", sign(r.key, r.data))
        /\ \/ r.by = "generate" /\ Issued(r)
           \/ r.by = "draft" /\ r.meant = r.data["expiry"][2] * TicksPerSecond
    BY <1>6 DEF r
  <2> QED
    BY <1>1, <2>1 DEF IInv, Records
<1> QED
  BY <1>1, <1>4, <1>5, <1>7, <1>8 DEF IInv, LastLoad

\* Signing a license keeps the invariant: its text is its license and its date what was
\* meant, if that fits the clock.
LEMMA GenerateStep ==
    ASSUME IInv, NEW k, NEW info, Issuable(info), NEW meant \in Int, NEW t \in Int,
           info.expiry = Wrap(t), InRange(meant) => t = meant, Cardinality(signed) < MaxSigned,
           Signs(k, Written(info), generate_license(k, info), meant, "generate")
    PROVE  IInv'
<1> DEFINE d == Written(info)
           r == [key |-> k, text |-> generate_license(k, info), data |-> d, meant |-> meant,
                 by |-> "generate"]
<1>1. DOMAIN d \subseteq Fields \ {"hmac_signature"} /\ \A f \in DOMAIN d : Readable(d[f])
  BY Writing, WritingReadable
<1>2. generate_license(k, info) = With(d, "hmac_signature", sign(k, d))
  BY DEF generate_license
<1>3. Issued(r)
  <2>1. d["issued_at"][1] = "date" /\ d["issued_at"][2] \in Int
    BY Writing, Seconds DEF Issuable, format_iso8601, Date
  <2>2. d = Restrict(d, Fields \ {"hmac_signature", "note"})
    BY Writing
  <2>3. \A f \in Names : d[f] # Empty /\ d[f][1] # "list"
    BY Writing DEF Issuable, Names
  <2>4. \E n \in 0 .. VersionRange - 1 : d["version"] = Number(n)
    BY Writing DEF Issuable
  <2>5. d["expiry"] = format_iso8601(Wrap(t))
    BY Writing
  <2> HIDE DEF d
  <2> QED
    BY <2>1, <2>2, <2>3, <2>4, <2>5 DEF Issued
<1> HIDE DEF d
<1> QED
  BY <1>1, <1>2, <1>3, SignsStep DEF d

\* Every step keeps the inductive invariant.
LEMMA InvariantStep == IInv /\ [Next]_vars => IInv'
<1> SUFFICES ASSUME IInv, [Next]_vars PROVE IInv'
  OBVIOUS
<1>1. /\ clock \in 1..MaxClock /\ changes \in 0..MaxChanges
      /\ DOMAIN license \subseteq Fields /\ \A f \in DOMAIN license : Readable(license[f])
      /\ IsFiniteSet(signed) /\ Cardinality(signed) <= MaxSigned
      /\ Provenance /\ Records /\ LastLoad
      /\ MaxClock \in Nat /\ MaxChanges \in Nat
  BY BoundAssumption DEF IInv
<1>2. CASE Tick
  <2>1. /\ clock' \in 1..MaxClock /\ clock <= clock' /\ UNCHANGED <<license, changes, last, signed>>
    BY <1>1, <1>2 DEF Tick
  <2>2. LastLoad'
    <3>1. 1..clock \subseteq 1..clock'
      BY <1>1, <2>1
    <3> QED
      BY <1>1, <2>1, <3>1 DEF LastLoad
  <2> QED
    BY <1>1, <2>1, <2>2 DEF IInv, Provenance, Records
<1>3. ASSUME NEW k \in Keys, Generate(k)
      PROVE  IInv'
  <2>1. PICK v \in Validities, h \in Hwids, fs \in Lists :
          LET info == [user_id |-> Text("u"), license_id |-> Text("lic"), hardware_hash |-> h,
                       features |-> fs, version |-> 1, issued_at |-> clock,
                       expiry |-> Wrap(clock + Hours(v) * TicksPerHour)]
          IN  Signs(k, Written(info), generate_license(k, info), clock + v * TicksPerHour,
                    "generate")
    BY <1>3 DEF Generate
  <2> DEFINE info == [user_id |-> Text("u"), license_id |-> Text("lic"), hardware_hash |-> h,
                      features |-> fs, version |-> 1, issued_at |-> clock,
                      expiry |-> Wrap(clock + Hours(v) * TicksPerHour)]
         meant == clock + v * TicksPerHour
         t == clock + Hours(v) * TicksPerHour
  <2>2. /\ meant \in Int /\ t \in Int /\ Wrap(t) \in Int /\ clock \in Int
        /\ InRange(meant) => t = meant
    <3>1. v \in Int /\ Hours(v) \in Int
      BY ValiditiesAssumption, HoursType
    <3>2. \A x, y \in Int : clock + x * y \in Int
      BY <1>1
    <3>3. meant \in Int /\ t \in Int
      BY <3>1, <3>2, HoursAssumption
    <3>4. clock \in 1 .. HalfRange - 1
      BY <1>1, BoundAssumption
    <3>5. InRange(meant) => Hours(v) = v
      BY <3>1, <3>4, HoursFit
    <3> HIDE DEF t
    <3>6. Wrap(t) \in Int
      BY <3>3, Wrapping
    <3> QED
      BY <1>1, <3>3, <3>5, <3>6 DEF t
  <2>3. Issuable(info)
    <3>1. Text("u") # Empty /\ Text("lic") # Empty
          /\ Text("u")[1] = "text" /\ Text("lic")[1] = "text"
      BY DEF Text, Empty
    <3>2. h # Empty /\ h[1] = "text"
      BY HwidsAssumption
    <3>3. 1 \in 0 .. VersionRange - 1
      OBVIOUS
    <3> QED
      BY <2>2, <3>1, <3>2, <3>3 DEF Issuable, Readable
  <2>4. info.expiry = Wrap(t) /\ Cardinality(signed) < MaxSigned
    BY <1>3 DEF Generate
  <2>5. Signs(k, Written(info), generate_license(k, info), meant, "generate")
    BY <2>1
  <2> HIDE DEF info, meant, t
  <2> QED
    BY <2>2, <2>3, <2>4, <2>5, GenerateStep
<1>4. ASSUME NEW k \in Keys, Draft(k)
      PROVE  IInv'
  <2>1. PICK d \in Drafts :
          Signs(k, d, With(d, "hmac_signature", sign_json(k, d)),
                d["expiry"][2] * TicksPerSecond, "draft")
    BY <1>4 DEF Draft
  <2>2. sign_json(k, d) = sign(k, d)
    BY DEF sign_json
  <2>3. DOMAIN d \subseteq Fields \ {"hmac_signature"} /\ \A f \in DOMAIN d : Readable(d[f])
    BY DraftsAssumption
  <2>4. Cardinality(signed) < MaxSigned
    BY <1>4 DEF Draft
  <2> QED
    BY <2>1, <2>2, <2>3, <2>4, SignsStep
<1>5. CASE Alter
  <2>1. /\ changes' \in 0..MaxChanges /\ last' = NotLoaded /\ UNCHANGED <<clock, signed>>
    BY <1>1, <1>5 DEF Alter
  <2> DEFINE Kept == /\ DOMAIN license' \subseteq Fields
                     /\ \A f \in DOMAIN license' : Readable(license'[f])
                     /\ Provenance'
  <2>2. ASSUME NEW f \in DOMAIN license, license' = Restrict(license, DOMAIN license \ {f})
        PROVE  Kept
    <3>1. /\ DOMAIN license' = DOMAIN license \ {f}
          /\ \A g \in DOMAIN license' : license'[g] = license[g]
      BY <2>2 DEF Restrict
    <3> QED
      BY <1>1, <2>1, <3>1 DEF Provenance
  <2>3. ASSUME NEW f \in Fields, NEW v, license' = With(license, f, v), Readable(v),
               f = "hmac_signature" /\ v[1] = "hmac" => \E r \in signed : v = sign(r.key, r.data)
        PROVE  Kept
    <3>1. /\ DOMAIN license' = DOMAIN license \cup {f} /\ license'[f] = v
          /\ \A g \in DOMAIN license \ {f} : license'[g] = license[g]
      BY <2>3 DEF With
    <3>2. Provenance'
      <4>1. CASE f = "hmac_signature"
        BY <2>1, <2>3, <3>1, <4>1 DEF Provenance
      <4>2. CASE f # "hmac_signature"
        BY <1>1, <2>1, <3>1, <4>2 DEF Provenance
      <4> QED
        BY <4>1, <4>2
    <3> QED
      BY <1>1, <2>3, <3>1, <3>2
  <2>4. ASSUME NEW a \in Alterations, license' = With(license, a[1], a[2])
        PROVE  Kept
    BY <2>3, <2>4, AlterationsAssumption
  <2>5. ASSUME NEW r \in signed, license' = With(license, "hmac_signature", sign(r.key, r.data))
        PROVE  Kept
    <3>1. "hmac_signature" \in Fields /\ Readable(sign(r.key, r.data))
      BY DEF Fields, Required, Readable, sign
    <3> QED
      BY <2>3, <2>5, <3>1
  <2>6. Kept
    BY <1>5, <2>2, <2>4, <2>5 DEF Alter
  <2> QED
    BY <1>1, <2>1, <2>6 DEF IInv, Records, LastLoad
<1>6. CASE Load
  <2>1. UNCHANGED <<clock, license, changes, signed>>
    BY <1>6 DEF Load
  <2>2. PICK h \in Hwids :
          last' = [license |-> license, hwid |-> h, at |-> clock,
                   outcome |-> load_and_validate(license, h, clock)]
    BY <1>6 DEF Load
  <2>3. LastLoad'
    BY <1>1, <2>1, <2>2 DEF LastLoad
  <2> QED
    BY <1>1, <2>1, <2>3 DEF IInv, Provenance, Records
<1>7. CASE Reissue
  <2> DEFINE d == last.license
             info == Info(d)
  <2>1. d = license /\ last.outcome = "ok" /\ last.outcome = load_and_validate(d, last.hwid, last.at)
    BY <1>1, <1>7 DEF Reissue, LastLoad, NotLoaded
  <2>2. ~Malformed(d)
    BY <2>1, Outcomes
  <2>3. Issuable(info)
    <3>1. /\ info.user_id = get_string(d, "user_id") /\ info.license_id = get_string(d, "license_id")
          /\ info.hardware_hash = get_string(d, "hardware_hash")
      BY DEF Info
    <3>2. \A f \in Names : get_string(d, f) # Empty /\ get_string(d, f)[1] # "list"
                          /\ Readable(get_string(d, f))
      BY <1>1, <2>1, <2>2, Extracted DEF Names, Required
    <3>3. info.version \in 0 .. VersionRange - 1 /\ info.expiry \in Int /\ info.issued_at \in Int
      BY <1>1, <2>1, <2>2, Extracted
    <3> HIDE DEF info
    <3> QED
      BY <3>1, <3>2, <3>3 DEF Issuable, Names
  <2>4. info.expiry \in Int /\ Wrap(info.expiry) = info.expiry
    BY <1>1, <2>1, <2>2, Extracted, Wrapping
  <2>5. /\ Cardinality(signed) < MaxSigned
        /\ Signs(Key, Written(info), generate_license(Key, info), info.expiry, "generate")
    BY <1>7 DEF Reissue
  <2> HIDE DEF info
  <2> QED
    BY <2>3, <2>4, <2>5, GenerateStep
<1>8. CASE UNCHANGED vars
  BY <1>1, <1>8 DEF vars, IInv, Provenance, Records, LastLoad
<1> QED
  BY <1>2, <1>3, <1>4, <1>5, <1>6, <1>7, <1>8 DEF Next

\* Every step keeps the invariant.
THEOREM Invariance == Spec => []IInv
BY InvariantInit, InvariantStep, PTL DEF Spec

-----------------------------------------------------------------------------
(* What it implies.                                                          *)

\* The last load was of the current text, at an instant of the clock.
LEMMA AcceptedLoad ==
    ASSUME IInv, last # NotLoaded
    PROVE  /\ last.license = license /\ last.hwid \in Hwids /\ last.at \in 1..clock
           /\ last.outcome = load_and_validate(license, last.hwid, last.at)
           /\ \A f \in DOMAIN license : Readable(license[f])
           /\ clock \in 1..MaxClock
BY DEF IInv, LastLoad

\* Before the first load nothing is accepted.
LEMMA NotAccepted == last = NotLoaded => ~Accepted /\ last.outcome = "none"
BY DEF Accepted, NotLoaded

\* Every variable has its type, and an accepted text yields a version and times of
\* the width the program has for them.
THEOREM Typing == Spec => []TypeOK
<1>1. IInv => TypeOK
  <2> SUFFICES ASSUME IInv PROVE TypeOK
    OBVIOUS
  <2>1. /\ clock \in 1..MaxClock /\ changes \in 0..MaxChanges
        /\ DOMAIN license \subseteq Fields /\ Cardinality(signed) <= MaxSigned
    BY DEF IInv
  <2>2. last.outcome \in {"none", "ok", "MalformedLicense", "ExpiredLicense",
                          "InvalidSignature", "HardwareMismatch"}
    BY AcceptedLoad, NotAccepted, Outcomes
  <2>3. ASSUME Accepted
        PROVE  /\ Loaded.version \in 0 .. VersionRange - 1
               /\ InRange(Loaded.expiry) /\ InRange(Loaded.issued_at)
    <3>1. last # NotLoaded /\ ~Malformed(license) /\ last.license = license
      BY <2>3, AcceptedLoad, NotAccepted, Outcomes DEF Accepted
    <3> QED
      BY <3>1, AcceptedLoad, Extracted DEF Loaded
  <2> QED
    BY <2>1, <2>2, <2>3 DEF TypeOK
<1> QED
  BY <1>1, Invariance, PTL

\* A text is accepted only if a holder of the key signed exactly its fields, whatever
\* was altered, added, removed or copied from other texts on its way.
THEOREM Authenticity == Spec => []Genuine
<1>1. IInv => Genuine
  <2> SUFFICES ASSUME IInv, Accepted
               PROVE  \E r \in signed : r.key = Key /\ r.data = Unsigned(last.license)
    BY DEF Genuine, Unsigned
  <2>1. last # NotLoaded /\ last.license = license
    BY AcceptedLoad, NotAccepted
  <2>2. /\ ~Malformed(license)
        /\ verify(Key, Unsigned(license), get_string(license, "hmac_signature"))
    BY <2>1, AcceptedLoad, Outcomes DEF Accepted
  <2>3. get_string(license, "hmac_signature") = sign(Key, Unsigned(license))
    BY <2>2 DEF verify
  <2>4. Empty # sign(Key, Unsigned(license))
    BY DEF Empty, Text, sign
  <2>5. /\ "hmac_signature" \in DOMAIN license
        /\ license["hmac_signature"] = sign(Key, Unsigned(license))
    BY <2>3, <2>4 DEF get_string
  <2>6. license["hmac_signature"][1] = "hmac"
    BY <2>5 DEF sign
  <2>7. PICK r \in signed : license["hmac_signature"] = sign(r.key, r.data)
    BY <2>5, <2>6 DEF IInv, Provenance
  <2>8. r.key = Key /\ r.data = Unsigned(license)
    BY <2>5, <2>7 DEF sign
  <2> QED
    BY <2>1, <2>8
<1> QED
  BY <1>1, Invariance, PTL

\* verify_json and validate_license agree with the load, at any time and place.
THEOREM Agreement == Spec => []ValidatorsAgree
<1>1. IInv => ValidatorsAgree
  <2> SUFFICES ASSUME IInv PROVE ValidatorsAgree
    OBVIOUS
  <2>1. ASSUME last.outcome \in {"ok", "HardwareMismatch"}
        PROVE  verify_json(Key, last.license)
    <3>1. last # NotLoaded /\ last.license = license
      BY <2>1, AcceptedLoad, NotAccepted
    <3>2. /\ ~Malformed(license)
          /\ verify(Key, Unsigned(license), get_string(license, "hmac_signature"))
      BY <2>1, <3>1, AcceptedLoad, Outcomes
    <3> QED
      BY <3>1, <3>2 DEF verify_json, Malformed, Required
  <2>2. ASSUME Accepted, NEW h \in Hwids
        PROVE  load_and_validate(last.license, h, clock) = "ok" <=>
                   validate_license(Loaded, h, clock) = "true"
    <3>1. last # NotLoaded /\ last.license = license
      BY <2>2, AcceptedLoad, NotAccepted
    <3>2. /\ ~Malformed(license)
          /\ verify(Key, Unsigned(license), get_string(license, "hmac_signature"))
      BY <2>2, <3>1, AcceptedLoad, Outcomes DEF Accepted
    <3>3. Info(license).expiry \in Int /\ clock \in Int
      BY <3>1, <3>2, AcceptedLoad, Extracted
    <3>4. load_and_validate(license, h, clock) = "ok" <=>
              ~(clock > Info(license).expiry) /\ h = Info(license).hardware_hash
      BY <3>2, Outcomes
    <3>5. validate_license(Info(license), h, clock) = "true" <=>
              ~(Info(license).expiry < clock) /\ Info(license).hardware_hash = h
      BY DEF validate_license
    <3> QED
      BY <3>1, <3>3, <3>4, <3>5 DEF Loaded
  <2> QED
    BY <2>1, <2>2 DEF ValidatorsAgree
<1> QED
  BY <1>1, Invariance, PTL

\* What is read from a text of the generator is what went into it: its names, and
\* its version and times as far as the text can hold them.
LEMMA ReadBack ==
    ASSUME NEW d, Required \subseteq DOMAIN d, {"issued_at", "version"} \subseteq DOMAIN d,
           \A f \in Names : d[f] # Empty /\ d[f][1] # "list",
           NEW n \in 0 .. VersionRange - 1, d["version"] = Number(n),
           NEW e \in Int, d["expiry"] = Date(e), NEW i \in Int, d["issued_at"] = Date(i)
    PROVE  /\ Malformed(d) <=> e = -1 \/ i = -1
           /\ Info(d).version = n
           /\ Info(d).expiry = Wrap(e * TicksPerSecond)
           /\ Info(d).issued_at = Wrap(i * TicksPerSecond)
           /\ Info(d).user_id = d["user_id"] /\ Info(d).license_id = d["license_id"]
           /\ Info(d).hardware_hash = d["hardware_hash"]
           /\ Info(d).features = get_string_array(d, "features")
<1>1. \A f \in Names : get_string(d, f) = d[f]
  BY DEF get_string, Names, Required
<1>2. /\ d["version"][1] = "number" /\ d["version"][2] = n
      /\ d["expiry"][1] = "date" /\ d["expiry"][2] = e
      /\ d["issued_at"][1] = "date" /\ d["issued_at"][2] = i
  BY DEF Number, Date
<1>3. /\ get_string(d, "version") = d["version"] /\ get_string(d, "expiry") = d["expiry"]
      /\ get_string(d, "issued_at") = d["issued_at"]
  BY <1>2 DEF get_string, Required
<1>4. IsVersion(d["version"]) /\ Version(n) = n
  <2>1. n < LongRange /\ n > -LongRange
    OBVIOUS
  <2> QED
    BY <1>2, <2>1, Narrowing DEF IsVersion
<1>5. (IsDate(d["expiry"]) <=> e # -1) /\ (IsDate(d["issued_at"]) <=> i # -1)
  BY <1>2 DEF IsDate
<1>6. ~Nameless(d)
  BY <1>1 DEF Nameless, Names
<1>7. Malformed(d) <=> e = -1 \/ i = -1
  BY <1>3, <1>4, <1>5, <1>6 DEF Malformed
<1>8. Info(d).version = n
  BY <1>2, <1>3, <1>4 DEF Info
<1>9. /\ Info(d).expiry = Wrap(e * TicksPerSecond)
      /\ Info(d).issued_at = Wrap(i * TicksPerSecond)
  BY <1>2 DEF Info, parse_iso8601
<1>10. /\ Info(d).user_id = d["user_id"] /\ Info(d).license_id = d["license_id"]
       /\ Info(d).hardware_hash = d["hardware_hash"]
       /\ Info(d).features = get_string_array(d, "features")
  BY <1>1 DEF Info, Names
<1> QED
  BY <1>7, <1>8, <1>9, <1>10

\* Dates, the version and the defaults go through text and come back: a license that
\* is loaded can be issued again, and again, and stays the same.
THEOREM Reissuing == Spec => []ReissueStable
<1>1. IInv => ReissueStable
  <2> SUFFICES ASSUME IInv, Accepted, InstantsFit(last.license)
               PROVE  LET again == generate_license(Key, Loaded)
                      IN  /\ load_and_validate(again, last.hwid, last.at) = "ok"
                          /\ Info(again) = Loaded
    BY DEF ReissueStable
  <2> DEFINE d == last.license
             info == Info(d)
             again == generate_license(Key, info)
  <2>1. last # NotLoaded /\ d = license /\ \A f \in DOMAIN d : Readable(d[f])
    BY AcceptedLoad, NotAccepted
  <2>2. /\ ~Malformed(d) /\ ~(last.at > info.expiry) /\ last.hwid = info.hardware_hash
    BY <2>1, AcceptedLoad, Outcomes DEF Accepted
  <2>3. \A f \in Names : get_string(d, f) # Empty /\ get_string(d, f)[1] # "list"
    BY <2>1, <2>2, Extracted
  <2>4. /\ info.user_id = get_string(d, "user_id") /\ info.license_id = get_string(d, "license_id")
        /\ info.hardware_hash = get_string(d, "hardware_hash")
    BY DEF Info
  <2>5. PICK e \in Int : e # -1 /\ InRange(e * TicksPerSecond) /\ info.expiry = Wrap(e * TicksPerSecond)
    <3>1. "expiry" \in DOMAIN d /\ IsDate(d["expiry"]) /\ d["expiry"][2] \in Int
          /\ info.expiry = Wrap(d["expiry"][2] * TicksPerSecond)
      BY <2>1, <2>2, Extracted DEF Required
    <3> QED
      BY <3>1 DEF InstantsFit, IsDate
  <2>6. PICK i \in Int : i # -1 /\ InRange(i * TicksPerSecond) /\ info.issued_at = Wrap(i * TicksPerSecond)
    <3>1. CASE "issued_at" \in DOMAIN d
      <4>1. d["issued_at"][2] \in Int \ {-1} /\ info.issued_at = Wrap(d["issued_at"][2] * TicksPerSecond)
        BY <2>1, <2>2, <3>1, Extracted
      <4> QED
        BY <3>1, <4>1 DEF InstantsFit
    <3>2. CASE "issued_at" \notin DOMAIN d
      <4>1. info.issued_at = 0
        BY <2>1, <2>2, <3>2, Extracted
      <4>2. 0 * TicksPerSecond = 0 /\ InRange(0)
        BY DEF InRange
      <4>3. Wrap(0) = 0
        BY <4>2, Wrapping
      <4>4. 0 # -1 /\ InRange(0 * TicksPerSecond) /\ info.issued_at = Wrap(0 * TicksPerSecond)
        BY <4>1, <4>2, <4>3
      <4> WITNESS 0 \in Int
      <4> QED
        BY <4>4
    <3> QED
      BY <3>1, <3>2
  <2>7. /\ info.expiry = e * TicksPerSecond /\ to_time_t(info.expiry) = e
        /\ info.issued_at = i * TicksPerSecond /\ to_time_t(info.issued_at) = i
    BY <2>5, <2>6, SecondsBack, Wrapping
  <2>8. info.version \in 0 .. VersionRange - 1
    BY <2>1, <2>2, Extracted
  <2>9. /\ info = [user_id |-> info.user_id, license_id |-> info.license_id,
                   hardware_hash |-> info.hardware_hash, features |-> info.features,
                   version |-> info.version, expiry |-> info.expiry, issued_at |-> info.issued_at]
        /\ Info(again) = [user_id |-> Info(again).user_id, license_id |-> Info(again).license_id,
                   hardware_hash |-> Info(again).hardware_hash, features |-> Info(again).features,
                   version |-> Info(again).version, expiry |-> Info(again).expiry,
                   issued_at |-> Info(again).issued_at]
    BY DEF Info
  <2> DEFINE w == Written(info)
  <2>10. again = With(w, "hmac_signature", sign(Key, w))
    BY DEF generate_license
  <2> HIDE DEF info, again
  <2>11. /\ DOMAIN w = Fields \ {"hmac_signature", "note"}
         /\ w = Restrict(w, Fields \ {"hmac_signature", "note"})
         /\ w["user_id"] = info.user_id /\ w["license_id"] = info.license_id
         /\ w["hardware_hash"] = info.hardware_hash
         /\ w["expiry"] = Date(e) /\ w["issued_at"] = Date(i)
         /\ w["features"] = List(info.features) /\ w["version"] = Number(info.version)
    BY <2>7, Writing DEF format_iso8601
  <2> HIDE DEF w
  <2>12. /\ DOMAIN again = DOMAIN w \cup {"hmac_signature"}
         /\ again["hmac_signature"] = sign(Key, w)
         /\ \A f \in DOMAIN w : again[f] = w[f]
         /\ Unsigned(again) = w
    <3>1. "hmac_signature" \notin DOMAIN w
      BY <2>11
    <3>2. Restrict(w, DOMAIN w) = w
      BY <2>11
    <3>3. /\ DOMAIN again = DOMAIN w \cup {"hmac_signature"}
          /\ again["hmac_signature"] = sign(Key, w)
          /\ \A f \in DOMAIN w : again[f] = w[f]
      BY <2>10, <3>1 DEF With
    <3>4. Unsigned(again) = Restrict(w, DOMAIN w)
      BY <3>1, <3>3 DEF Unsigned, Restrict
    <3> QED
      BY <3>2, <3>3, <3>4
  <2>13. /\ Required \subseteq DOMAIN again /\ {"issued_at", "version"} \subseteq DOMAIN again
         /\ again["user_id"] = info.user_id /\ again["license_id"] = info.license_id
         /\ again["hardware_hash"] = info.hardware_hash
         /\ again["expiry"] = Date(e) /\ again["issued_at"] = Date(i)
         /\ again["features"] = List(info.features) /\ again["version"] = Number(info.version)
    BY <2>11, <2>12 DEF Fields, Required
  <2>14. \A f \in Names : again[f] # Empty /\ again[f][1] # "list"
    BY <2>3, <2>4, <2>13 DEF Names
  <2>15. /\ Malformed(again) <=> e = -1 \/ i = -1
         /\ Info(again).version = info.version
         /\ Info(again).expiry = Wrap(e * TicksPerSecond)
         /\ Info(again).issued_at = Wrap(i * TicksPerSecond)
         /\ Info(again).user_id = again["user_id"] /\ Info(again).license_id = again["license_id"]
         /\ Info(again).hardware_hash = again["hardware_hash"]
         /\ Info(again).features = get_string_array(again, "features")
    BY <2>8, <2>13, <2>14, ReadBack
  <2>16. get_string_array(again, "features") = info.features
    BY <2>13 DEF get_string_array, List, Required
  <2>17. Info(again) = info
    BY <2>5, <2>6, <2>9, <2>13, <2>15, <2>16
  <2>18. verify(Key, Unsigned(again), get_string(again, "hmac_signature"))
    BY <2>12 DEF verify, get_string, sign
  <2>19. load_and_validate(again, last.hwid, last.at) = "ok"
    BY <2>2, <2>5, <2>6, <2>15, <2>17, <2>18, Outcomes
  <2> QED
    BY <2>17, <2>19 DEF Loaded, again, info
<1> QED
  BY <1>1, Invariance, PTL

\* What an untouched text of the generator yields.
LEMMA IssuedText ==
    ASSUME IInv, NEW r \in signed, r.by = "generate"
    PROVE  LET d == r.text
               e == r.data["expiry"][2]
               i == r.data["issued_at"][2]
           IN  /\ r.meant \in Int /\ e \in Int /\ i \in Int
               /\ \E t \in Int : e = to_time_t(Wrap(t)) /\ (InRange(r.meant) => t = r.meant)
               /\ Malformed(d) <=> e = -1 \/ i = -1
               /\ Info(d).expiry = Wrap(e * TicksPerSecond)
               /\ Info(d).hardware_hash = r.data["hardware_hash"]
               /\ verify(r.key, Unsigned(d), get_string(d, "hmac_signature"))
               /\ IsDate(r.data["issued_at"]) <=> i # -1
<1> DEFINE d == r.text
           w == r.data
           e == w["expiry"][2]
           i == w["issued_at"][2]
<1>1. Records
  BY DEF IInv
<1>2. d = With(w, "hmac_signature", sign(r.key, w)) /\ Issued(r)
  BY <1>1 DEF Records
<1>3. /\ w = Restrict(w, Fields \ {"hmac_signature", "note"})
      /\ \A f \in Names : w[f] # Empty /\ w[f][1] # "list"
      /\ r.meant \in Int /\ w["issued_at"][1] = "date" /\ i \in Int
      /\ \E t \in Int : w["expiry"] = Date(to_time_t(Wrap(t))) /\ (InRange(r.meant) => t = r.meant)
  BY <1>2 DEF Issued, format_iso8601
<1>4. PICK n \in 0 .. VersionRange - 1 : w["version"] = Number(n)
  BY <1>2 DEF Issued
<1>5. /\ e \in Int /\ w["expiry"] = Date(e)
      /\ \E t \in Int : e = to_time_t(Wrap(t)) /\ (InRange(r.meant) => t = r.meant)
  <2>1. PICK t \in Int : /\ w["expiry"] = Date(to_time_t(Wrap(t)))
                         /\ InRange(r.meant) => t = r.meant
    BY <1>3
  <2>2. e = to_time_t(Wrap(t))
    BY <2>1 DEF Date
  <2>3. to_time_t(Wrap(t)) \in Int
    BY Wrapping, Seconds
  <2> QED
    BY <2>1, <2>2, <2>3
<1> HIDE DEF d, w
<1>6. DOMAIN w = Fields \ {"hmac_signature", "note"}
  BY <1>3 DEF Restrict
<1>7. /\ DOMAIN d = DOMAIN w \cup {"hmac_signature"}
      /\ d["hmac_signature"] = sign(r.key, w)
      /\ \A f \in DOMAIN w : d[f] = w[f]
  BY <1>2, <1>6 DEF With
<1>8. Unsigned(d) = w
  <2>1. Unsigned(d) = Restrict(w, DOMAIN w)
    BY <1>6, <1>7 DEF Unsigned, Restrict
  <2>2. Restrict(w, DOMAIN w) = w
    BY <1>3, <1>6
  <2> QED
    BY <2>1, <2>2
<1>9. verify(r.key, Unsigned(d), get_string(d, "hmac_signature"))
  BY <1>7, <1>8 DEF verify, get_string, sign
<1>10. /\ Required \subseteq DOMAIN d /\ {"issued_at", "version"} \subseteq DOMAIN d
       /\ \A f \in Names : d[f] # Empty /\ d[f][1] # "list" /\ d[f] = w[f]
       /\ d["version"] = Number(n) /\ d["expiry"] = Date(e)
       /\ d["issued_at"] = w["issued_at"]
  BY <1>3, <1>4, <1>5, <1>6, <1>7 DEF Required, Fields, Names
<1> HIDE DEF e
<1>11. /\ Malformed(d) <=> e = -1 \/ i = -1
       /\ Info(d).expiry = Wrap(e * TicksPerSecond)
       /\ Info(d).hardware_hash = w["hardware_hash"]
  <2>1. /\ get_string(d, "version") = d["version"] /\ get_string(d, "expiry") = d["expiry"]
        /\ get_string(d, "issued_at") = d["issued_at"]
        /\ \A f \in Names : get_string(d, f) = d[f]
    BY <1>3, <1>10 DEF get_string, Number, Date, Names, Required
  <2>2. IsVersion(d["version"])
    BY <1>4, <1>10 DEF IsVersion, Number
  <2>3. (IsDate(d["expiry"]) <=> e # -1) /\ (IsDate(d["issued_at"]) <=> i # -1)
    BY <1>3, <1>10 DEF IsDate, Date
  <2>4. ~Nameless(d)
    BY <1>10, <2>1 DEF Nameless, Names
  <2>5. Malformed(d) <=> e = -1 \/ i = -1
    BY <1>10, <2>1, <2>2, <2>3, <2>4 DEF Malformed
  <2>6. Info(d).expiry = Wrap(e * TicksPerSecond)
    BY <1>10 DEF Info, parse_iso8601, Date
  <2>7. Info(d).hardware_hash = w["hardware_hash"]
    BY <1>10, <2>1 DEF Info, Names
  <2> QED
    BY <2>5, <2>6, <2>7
<1>12. IsDate(w["issued_at"]) <=> i # -1
  BY <1>3 DEF IsDate
<1> QED
  BY <1>3, <1>5, <1>9, <1>11, <1>12 DEF d, w, e

\* Days and hours are counted in words that may overflow, written in whole seconds and
\* read back (license_generator.cpp:97, license_manager.cpp:313-328): an untouched
\* license is accepted after the expiry its author meant only if that lies before the
\* clock's first instant, and one from the generator whose expiry the clock holds is
\* accepted until a second before it.
THEOREM Meaning == Spec => []AsMeant
<1>1. IInv => AsMeant
  <2> SUFFICES ASSUME IInv, NEW r \in signed, r.key = Key, r.text = last.license,
                      last # NotLoaded
               PROVE  /\ Accepted /\ last.at > r.meant => r.meant < -HalfRange
                      /\ r.by = "generate" /\ IsDate(r.data["issued_at"])
                         /\ InRange(r.meant) /\ last.at + TicksPerSecond <= r.meant =>
                            last.outcome = IF last.hwid = r.data["hardware_hash"]
                                           THEN "ok" ELSE "HardwareMismatch"
    BY NotAccepted DEF AsMeant
  <2> DEFINE d == r.text
             w == r.data
  <2>1. /\ d = license /\ last.at \in Int /\ last.at >= 1
        /\ last.outcome = load_and_validate(d, last.hwid, last.at)
        /\ \A f \in DOMAIN d : Readable(d[f])
    BY AcceptedLoad
  <2>2. /\ d = With(w, "hmac_signature", sign(r.key, w))
        /\ \/ r.by = "generate"
           \/ r.by = "draft" /\ r.meant = w["expiry"][2] * TicksPerSecond
    BY DEF IInv, Records
  <2>3. CASE r.by = "generate"
    <3> DEFINE e == w["expiry"][2]
               i == w["issued_at"][2]
    <3>1. /\ r.meant \in Int /\ e \in Int /\ i \in Int
          /\ Malformed(d) <=> e = -1 \/ i = -1
          /\ Info(d).expiry = Wrap(e * TicksPerSecond)
          /\ Info(d).hardware_hash = w["hardware_hash"]
          /\ verify(Key, Unsigned(d), get_string(d, "hmac_signature"))
          /\ IsDate(w["issued_at"]) <=> i # -1
      BY <2>3, IssuedText
    <3>2. PICK t \in Int : e = to_time_t(Wrap(t)) /\ (InRange(r.meant) => t = r.meant)
      BY <2>3, IssuedText
    <3>3. /\ Wrap(t) \in Int /\ InRange(Wrap(t))
          /\ InRange(r.meant) => Wrap(t) = r.meant
      BY <3>2, Wrapping
    <3> HIDE DEF e
    <3>4. /\ e * TicksPerSecond \in Int /\ InRange(e * TicksPerSecond)
          /\ Info(d).expiry = e * TicksPerSecond
      BY <3>1, <3>2, <3>3, Seconds, Wrapping
    <3>5. ASSUME Accepted, r.meant >= -HalfRange
          PROVE  last.at <= r.meant
      <4>1. last.at <= e * TicksPerSecond
        <5>1. load_and_validate(d, last.hwid, last.at) = "ok"
          BY <2>1, <3>5 DEF Accepted
        <5> HIDE DEF d
        <5>2. ~(last.at > Info(d).expiry)
          BY <5>1, Outcomes
        <5> QED
          BY <2>1, <3>4, <5>2
      <4>2. CASE InRange(r.meant)
        <5>1. r.meant >= 0 => e * TicksPerSecond <= r.meant
          BY <3>1, <3>2, <3>3, <4>2, Seconds
        <5>2. r.meant < 0 => e * TicksPerSecond <= 0
          BY <3>1, <3>2, <3>3, <4>2, Seconds
        <5> QED
          BY <2>1, <3>1, <3>4, <4>1, <5>1, <5>2
      <4>3. CASE ~InRange(r.meant)
        <5>1. r.meant >= HalfRange
          BY <3>1, <3>5, <4>3 DEF InRange
        <5> QED
          BY <2>1, <3>1, <3>4, <4>1, <5>1 DEF InRange
      <4> QED
        BY <4>2, <4>3
    <3>6. ASSUME IsDate(w["issued_at"]), InRange(r.meant), last.at + TicksPerSecond <= r.meant
          PROVE  last.outcome = IF last.hwid = w["hardware_hash"] THEN "ok" ELSE "HardwareMismatch"
      <4>1. r.meant >= 0
        BY <2>1, <3>1, <3>6
      <4>2. e >= 0 /\ r.meant < e * TicksPerSecond + TicksPerSecond
        BY <3>1, <3>2, <3>3, <3>6, <4>1, Seconds
      <4>3. ~Malformed(d)
        BY <3>1, <3>6, <4>2
      <4>4. ~(last.at > Info(d).expiry)
        BY <2>1, <3>1, <3>4, <3>6, <4>2
      <4> HIDE DEF d
      <4> QED
        BY <2>1, <3>1, <4>3, <4>4, Outcomes
    <3> QED
      BY <2>1, <3>1, <3>5, <3>6
  <2>4. CASE r.by = "draft"
    <3> SUFFICES ASSUME Accepted
                 PROVE  last.at > r.meant => r.meant < -HalfRange
      BY <2>4
    <3>1. ~Malformed(d) /\ ~(last.at > Info(d).expiry)
      BY <2>1, Outcomes DEF Accepted
    <3>2. /\ "expiry" \in DOMAIN d /\ d["expiry"][2] \in Int
          /\ Info(d).expiry = Wrap(d["expiry"][2] * TicksPerSecond)
      BY <2>1, <3>1, Extracted DEF Required
    <3>3. d["expiry"] = w["expiry"]
      BY <2>2, <3>2 DEF With
    <3>4. r.meant \in Int /\ Info(d).expiry = Wrap(r.meant)
      BY <2>2, <2>4, <3>2, <3>3
    <3>5. /\ Wrap(r.meant) \in Int /\ InRange(Wrap(r.meant))
          /\ InRange(r.meant) => Wrap(r.meant) = r.meant
      BY <3>4, Wrapping
    <3> QED
      BY <2>1, <3>1, <3>4, <3>5 DEF InRange
  <2> QED
    BY <2>2, <2>3, <2>4
<1> QED
  BY <1>1, Invariance, PTL
=============================================================================
