------------------------ MODULE LicenseManagerProofs ------------------------
(***************************************************************************)
(* Proofs about LicenseManager, for any callers, documents, machines,        *)
(* configurations, features, lifetime and bounds.                            *)
(***************************************************************************)
EXTENDS LicenseManager, TLAPS

\* What a document in circulation and the arguments of a call are.
LEMMA DocumentFields ==
    ASSUME NEW d \in Documents
    PROVE  /\ d.defect \in Defects /\ d.signed \in BOOLEAN /\ d.expiry \in Nat
           /\ d.hardware_hash \in Fingerprints /\ d.features \subseteq Features
           /\ LicenseOf(d) \in Licenses
BY DocumentAssumption DEF DocumentType, LicenseOf, Licenses

\* The argument each operation is called with.
LEMMA Arguments ==
    ASSUME NEW c
    PROVE  /\ c \in LoadCalls => c.op \in {"load", "validate"} /\ c.doc \in Documents
           /\ c \in FeatureCalls => c.op \in {"has", "require"} /\ c.feature \in Features
           /\ c \in ConfigCalls => c.op = "config" /\ c.config \in Configs
           /\ c \in StrictCalls => c.op = "strict" /\ c.strict \in BOOLEAN
           /\ c \in [op : {"hwid"}] => c.op = "hwid"
           /\ c \in [op : {"available"}] => c.op = "available"
           /\ c \in [op : {"expired", "available"}] =>
                  c.op = "expired" \/ c \in [op : {"available"}]
BY DEF LoadCalls, FeatureCalls, ConfigCalls, StrictCalls

-----------------------------------------------------------------------------
(* Types.                                                                    *)

\* A call enters a method with that method's arguments.
LEMMA Entering ==
    ASSUME NEW t \in Threads,
           \/ CallLoad(t) \/ CallValidate(t) \/ CallHas(t) \/ CallRequire(t)
           \/ CallExpired(t) \/ CallAvailable(t) \/ CallHwid(t)
           \/ CallConfig(t) \/ CallStrict(t)
    PROVE  \E c \in CallType, l \in Labels :
              /\ Call(t, c, l)
              /\ \/ l = "parse" /\ c \in LoadCalls
                 \/ l = "require" /\ c \in FeatureCalls
                 \/ l = "valid" /\ c \in FeatureCalls \cup [op : {"expired", "available"}]
                 \/ l = "probe" /\ c \in [op : {"hwid"}]
                 \/ l = "config" /\ c \in ConfigCalls
                 \/ l = "strict" /\ c \in StrictCalls
<1> USE DEF Labels, Checking, Querying
<1>1. CASE CallLoad(t)
  BY <1>1 DEF CallLoad, CallType, LoadCalls
<1>2. CASE CallValidate(t)
  BY <1>2, HardwareIdAssumption DEF CallValidate, CallType, LoadCalls
<1>3. CASE CallHas(t)
  BY <1>3 DEF CallHas, CallType, FeatureCalls
<1>4. CASE CallRequire(t)
  BY <1>4 DEF CallRequire, CallType, FeatureCalls
<1>5. CASE CallExpired(t)
  BY <1>5 DEF CallExpired, CallType
<1>6. CASE CallAvailable(t)
  BY <1>6 DEF CallAvailable, CallType
<1>7. CASE CallHwid(t)
  BY <1>7 DEF CallHwid, CallType
<1>8. CASE CallConfig(t)
  BY <1>8 DEF CallConfig, CallType, ConfigCalls
<1>9. CASE CallStrict(t)
  BY <1>9 DEF CallStrict, CallType, StrictCalls
<1> QED
  BY <1>1, <1>2, <1>3, <1>4, <1>5, <1>6, <1>7, <1>8, <1>9

\* A step within a method leaves an outcome exactly when it ends the method.
LEMMA Going ==
    ASSUME TypeOK, NEW t \in Threads, pc[t] # "ret",
           \/ \E l \in Labels \ {"ret"} : Continues(t, l)
           \/ \E o \in Outcomes : Ends(t, o)
    PROVE  /\ pc' \in [Threads -> Labels]
           /\ outcome' \in [Threads -> Outcomes \cup {"none"}]
           /\ \A u \in Threads : pc'[u] = "ret" <=> outcome'[u] # "none"
<1> USE DEF Goto
<1>0. "ret" \in Labels /\ "none" \notin Outcomes
  BY DEF Labels, Outcomes, Exceptions
<1>1. ASSUME NEW l \in Labels \ {"ret"}, Continues(t, l)
      PROVE  /\ pc' \in [Threads -> Labels]
             /\ outcome' \in [Threads -> Outcomes \cup {"none"}]
             /\ \A u \in Threads : pc'[u] = "ret" <=> outcome'[u] # "none"
  BY <1>1 DEF TypeOK, Continues
<1>2. ASSUME NEW o \in Outcomes, Ends(t, o)
      PROVE  /\ pc' \in [Threads -> Labels]
             /\ outcome' \in [Threads -> Outcomes \cup {"none"}]
             /\ \A u \in Threads : pc'[u] = "ret" <=> outcome'[u] # "none"
  BY <1>0, <1>2 DEF TypeOK, Ends
<1> QED
  BY <1>1, <1>2

\* The license in force stays one while a document is copied into it.
LEMMA Installed ==
    ASSUME TypeOK, Located, NEW t \in Threads, Install(t)
    PROVE  \/ /\ pc[t] = "hardware_hash"
              /\ Store(t, "hardware_hash", call[t].doc.hardware_hash)
              /\ Continues(t, "features")
           \/ /\ pc[t] = "features"
              /\ Store(t, "features", call[t].doc.features)
              /\ Continues(t, "expiry")
           \/ /\ pc[t] = "expiry"
              /\ Store(t, "expiry", call[t].doc.expiry)
              /\ Continues(t, "flag")
<1>1. PICK i \in DOMAIN InstallOrder :
         /\ pc[t] = InstallOrder[i]
         /\ Store(t, InstallOrder[i], LicenseOf(call[t].doc)[InstallOrder[i]])
         /\ Continues(t, IF i = Len(InstallOrder) THEN "flag" ELSE InstallOrder[i + 1])
  BY DEF Install
<1>2. DOMAIN InstallOrder = 1..3 /\ Len(InstallOrder) = 3
  BY DEF InstallOrder
<1>3. i \in {1, 2, 3}
  BY <1>2
<1>4. /\ InstallOrder[1] = "hardware_hash"
      /\ InstallOrder[2] = "features"
      /\ InstallOrder[3] = "expiry"
  BY DEF InstallOrder
<1>5. /\ LicenseOf(call[t].doc).hardware_hash = call[t].doc.hardware_hash
      /\ LicenseOf(call[t].doc).features = call[t].doc.features
      /\ LicenseOf(call[t].doc).expiry = call[t].doc.expiry
  BY DEF LicenseOf
<1>6. CASE i = 1
  <2>1. i # Len(InstallOrder) /\ i + 1 = 2
    BY <1>2, <1>6
  <2>2. Continues(t, "features")
    BY <1>1, <1>4, <2>1
  <2> QED
    BY <1>1, <1>4, <1>5, <1>6, <2>2
<1>7. CASE i = 2
  <2>1. i # Len(InstallOrder) /\ i + 1 = 3
    BY <1>2, <1>7
  <2>2. Continues(t, "expiry")
    BY <1>1, <1>4, <2>1
  <2> QED
    BY <1>1, <1>4, <1>5, <1>7, <2>2
<1>8. CASE i = 3
  BY <1>1, <1>2, <1>4, <1>5, <1>8
<1> QED
  BY <1>3, <1>6, <1>7, <1>8

\* A store into a member leaves licenses, the other members as they were and, to
\* every other call in progress, the value it stored.
LEMMA Stored ==
    ASSUME TypeOK, NEW t \in Threads, NEW value,
           NEW member \in {"valid", "hardware_hash", "features", "expiry"},
           Store(t, member, value),
           [current EXCEPT ![member] = value] \in Licenses
    PROVE  /\ current' \in Licenses /\ before' \in [Threads -> Licenses]
           /\ current' = [current EXCEPT ![member] = value]
           /\ before'[t] = before[t]
           /\ \A u \in Threads \ {t} : pc[u] # "idle" =>
                  before'[u] = [before[u] EXCEPT ![member] = value]
<1>1. \A x \in Licenses : [x EXCEPT ![member] = value] \in Licenses
  <2> SUFFICES ASSUME NEW x \in Licenses PROVE [x EXCEPT ![member] = value] \in Licenses
    OBVIOUS
  <2>0. current \in Licenses
    BY DEF TypeOK
  <2>1. CASE member = "valid"
    BY <2>0, <2>1 DEF Licenses
  <2>2. CASE member = "hardware_hash"
    BY <2>0, <2>2 DEF Licenses
  <2>3. CASE member = "features"
    BY <2>0, <2>3 DEF Licenses
  <2>4. CASE member = "expiry"
    BY <2>0, <2>4 DEF Licenses
  <2> QED
    BY <2>1, <2>2, <2>3, <2>4
<1>2. before \in [Threads -> Licenses]
  BY DEF TypeOK
<1> QED
  BY <1>1, <1>2 DEF Store

\* What the copy of one member, or of what a failing copy leaves of one, stores.
LEMMA InstallStores ==
    ASSUME TypeOK, Located, NEW t \in Threads
    PROVE  LET d == call[t].doc
           IN  /\ pc[t] \in Installing => d \in Documents
               /\ pc[t] = "hardware_hash" =>
                      [current EXCEPT !.hardware_hash = d.hardware_hash] \in Licenses
               /\ pc[t] = "features" =>
                      /\ [current EXCEPT !.features = d.features] \in Licenses
                      /\ \A fs \in SUBSET (current.features \cup d.features) :
                             [current EXCEPT !.features = fs] \in Licenses
               /\ pc[t] = "expiry" => [current EXCEPT !.expiry = d.expiry] \in Licenses
               /\ pc[t] = "flag" => [current EXCEPT !.valid = TRUE] \in Licenses
<1> DEFINE d == call[t].doc
<1>1. pc[t] \in Installing => d \in Documents
  BY DEF Located, TypeOK
<1>2. d \in Documents => d.hardware_hash \in Fingerprints /\ d.features \subseteq Features
                         /\ d.expiry \in Nat
  BY DocumentFields
<1>3. current \in Licenses
  BY DEF TypeOK
<1> HIDE DEF d
<1>4. pc[t] = "hardware_hash" => [current EXCEPT !.hardware_hash = d.hardware_hash] \in Licenses
  BY <1>1, <1>2, <1>3 DEF Installing, Licenses
<1>5. pc[t] = "features" => [current EXCEPT !.features = d.features] \in Licenses
  BY <1>1, <1>2, <1>3 DEF Installing, Licenses
<1>6. ASSUME pc[t] = "features", NEW fs \in SUBSET (current.features \cup d.features)
      PROVE  [current EXCEPT !.features = fs] \in Licenses
  <2>1. fs \subseteq Features
    BY <1>1, <1>2, <1>3, <1>6 DEF Installing, Licenses
  <2> QED
    BY <1>3, <2>1 DEF Licenses
<1>7. pc[t] = "expiry" => [current EXCEPT !.expiry = d.expiry] \in Licenses
  BY <1>1, <1>2, <1>3 DEF Installing, Licenses
<1>8. [current EXCEPT !.valid = TRUE] \in Licenses
  BY <1>3 DEF Licenses
<1> QED
  BY <1>1, <1>4, <1>5, <1>6, <1>7, <1>8 DEF d

\* A copy that throws leaves a license, and nothing else of note.
LEMMA Failed ==
    ASSUME TypeOK, Located, NEW t \in Threads, CopyFails(t)
    PROVE  \/ UNCHANGED <<current, before>>
           \/ /\ pc[t] = "features"
              /\ \E fs \in SUBSET (current.features \cup call[t].doc.features) :
                     /\ [current EXCEPT !.features = fs] \in Licenses
                     /\ Store(t, "features", fs)
BY InstallStores DEF CopyFails

\* What a store leaves in the license and in what the calls found there.
LEMMA Kept ==
    ASSUME TypeOK, Located, NEW t \in Threads,
           Install(t) \/ InstallValid(t) \/ CopyFails(t)
    PROVE  current' \in Licenses /\ before' \in [Threads -> Licenses]
<1>0. current \in Licenses /\ before \in [Threads -> Licenses]
  BY DEF TypeOK
<1>1. CASE Install(t)
  BY <1>1, Installed, InstallStores, Stored
<1>2. CASE InstallValid(t)
  BY <1>2, InstallStores, Stored DEF InstallValid
<1>3. CASE CopyFails(t)
  BY <1>0, <1>3, Failed, Stored
<1> QED
  BY <1>1, <1>2, <1>3

\* A copy that begins is of one of the four kinds.
LEMMA Begun ==
    ASSUME TypeOK, NEW t \in Threads, CopyBegins(t)
    PROVE  copy' \in [Threads -> {"none", "alone", "shared", "failed"}]
BY DEF CopyBegins, TypeOK

\* The manager as it is constructed.
LEMMA TypingInit == Init => TypeOK /\ Located
<1> SUFFICES ASSUME Init PROVE TypeOK /\ Located
  OBVIOUS
<1>1. NoCall \in CallType
  BY DEF NoCall, CallType
<1>2. NoLicense \in Licenses
  BY DEF NoLicense, Licenses
<1>3. TypeOK
  BY <1>1, <1>2, ConfigAssumption DEF Init, TypeOK, NewDetector, Labels, Outcomes
<1>4. Located
  BY DEF Init, Located, Labels, Checking, Querying, Installing
<1> QED
  BY <1>3, <1>4

\* What the label of one call says of its method.
LocatedAt(t) ==
    /\ pc[t] # "idle" => call[t].op \in Ops
    /\ pc[t] \in Checking \ {"probe"} => call[t] \in LoadCalls
    /\ pc[t] = "probe" => call[t] \in LoadCalls \cup [op : {"hwid"}]
    /\ pc[t] = "require" => call[t] \in FeatureCalls
    /\ pc[t] = "valid" => call[t] \in FeatureCalls \cup [op : {"expired", "available"}]
    /\ pc[t] = "query" => call[t] \in FeatureCalls \cup [op : {"available"}]
    /\ pc[t] = "config" => call[t] \in ConfigCalls
    /\ pc[t] = "strict" => call[t] \in StrictCalls
    /\ pc[t] \in Installing => call[t].doc \in accepted

\* Every step keeps the types, and each label within its method.
LEMMA TypingStep == TypeOK /\ Located /\ [Next]_vars => TypeOK' /\ Located'
<1> USE DEF Goto, Ends, Continues, members, environment, locals, licensing, configuring, history
<1> SUFFICES ASSUME TypeOK, Located, [Next]_vars PROVE TypeOK' /\ Located'
  OBVIOUS
<1>1. CASE Tick
  <2>1. TypeOK'
    BY <1>1 DEF Tick, TypeOK
  <2>2. Located'
    BY <1>1 DEF Tick, Located
  <2> QED
    BY <2>1, <2>2
<1>2. CASE MachineChange
  <2>1. TypeOK'
    BY <1>2 DEF MachineChange, TypeOK
  <2>2. Located'
    BY <1>2 DEF MachineChange, Located
  <2> QED
    BY <2>1, <2>2
<1>3. ASSUME NEW t \in Threads, NEW c \in CallType, NEW l \in Labels, Call(t, c, l),
             \/ l = "parse" /\ c \in LoadCalls
             \/ l = "require" /\ c \in FeatureCalls
             \/ l = "valid" /\ c \in FeatureCalls \cup [op : {"expired", "available"}]
             \/ l = "probe" /\ c \in [op : {"hwid"}]
             \/ l = "config" /\ c \in ConfigCalls
             \/ l = "strict" /\ c \in StrictCalls
      PROVE  TypeOK' /\ Located'
  <2>1. TypeOK'
    BY <1>3 DEF Call, TypeOK
  <2>2. Located'
    BY <1>3 DEF Call, TypeOK, Located, Labels, Checking, Querying, Installing
  <2> QED
    BY <2>1, <2>2
<1>4. ASSUME NEW t \in Threads, ThreadStep(t)
      PROVE  TypeOK' /\ Located'
  <2> USE DEF Labels, Checking, Querying, Installing
  <2> HIDE DEF Goto, Ends, Continues
  <2>0. /\ call[t] \in LoadCalls => call[t].op \in {"load", "validate"} /\ call[t].doc \in Documents
        /\ call[t] \in FeatureCalls => call[t].op \in {"has", "require"}
        /\ call[t] \in ConfigCalls => call[t].config \in Configs
        /\ call[t] \in StrictCalls => call[t].strict \in BOOLEAN
        /\ call[t] \in [op : {"expired", "available"}] =>
               call[t].op = "expired" \/ call[t] \in [op : {"available"}]
        /\ call[t] \in [op : {"available"}] => call[t].op = "available"
        /\ call[t] \in [op : {"hwid"}] => call[t].op = "hwid"
    BY Arguments
  <2>1. CASE Parse(t)
    <3>1. /\ pc' \in [Threads -> Labels]
          /\ outcome' \in [Threads -> Outcomes \cup {"none"}]
          /\ \A u \in Threads : pc'[u] = "ret" <=> outcome'[u] # "none"
      <4>1. /\ pc[t] # "ret"
            /\ \/ \E l \in Labels \ {"ret"} : Continues(t, l)
               \/ \E o \in Outcomes : Ends(t, o)
        BY <2>0, <2>1 DEF Parse, Located, Outcomes, Exceptions, DefectException
      <4> QED
        BY <4>1, Going
    <3>2. TypeOK'
      BY <2>0, <2>1, <3>1 DEF Parse, TypeOK, DefectException, Located
    <3>3. Located'
      BY <2>0, <2>1 DEF Parse, TypeOK, Located, Goto, Ends, Continues
    <3> QED
      BY <3>2, <3>3
  <2>2. CASE CheckExpiry(t)
    <3>1. TypeOK'
      BY <2>0, <2>2 DEF CheckExpiry, TypeOK, Located, Outcomes, Exceptions,
             Goto, Ends, Continues
    <3>2. Located'
      BY <2>0, <2>2 DEF CheckExpiry, TypeOK, Located, Goto, Ends, Continues
    <3> QED
      BY <3>1, <3>2
  <2>3. CASE CheckSignature(t)
    <3>1. TypeOK'
      BY <2>0, <2>3 DEF CheckSignature, TypeOK, Located, Outcomes, Exceptions,
             Goto, Ends, Continues
    <3>2. Located'
      BY <2>0, <2>3 DEF CheckSignature, TypeOK, Located, Goto, Ends, Continues
    <3> QED
      BY <3>1, <3>2
  <2>4. CASE Probe(t)
    <3>1. /\ pc' \in [Threads -> Labels]
          /\ outcome' \in [Threads -> Outcomes \cup {"none"}]
          /\ \A u \in Threads : pc'[u] = "ret" <=> outcome'[u] # "none"
      <4>1. /\ pc[t] # "ret"
            /\ \/ \E l \in Labels \ {"ret"} : Continues(t, l)
               \/ \E o \in Outcomes : Ends(t, o)
        BY <2>0, <2>4 DEF Probe, Located, Outcomes, Exceptions
      <4> QED
        BY <4>1, Going
    <3>2. TypeOK'
      <4>1. detector' \in [config : Configs, value : Fingerprints \cup {Nothing}, stamp : Nat]
        BY <2>4 DEF Probe, TypeOK, Fingerprints
      <4>2. hwid' \in [Threads -> Fingerprints \cup {Nothing}]
        BY <2>4, <4>1 DEF Probe, TypeOK
      <4> QED
        BY <2>4, <3>1, <4>1, <4>2 DEF Probe, TypeOK
    <3>3. Located'
      BY <2>0, <2>4 DEF Probe, TypeOK, Located, Loading, Goto, Ends, Continues
    <3> QED
      BY <3>2, <3>3
  <2>5. CASE ProbeFails(t)
    <3>1. TypeOK'
      BY <2>0, <2>5 DEF ProbeFails, TypeOK, Located, Outcomes, Exceptions,
             Goto, Ends, Continues
    <3>2. Located'
      BY <2>0, <2>5 DEF ProbeFails, TypeOK, Located, Goto, Ends, Continues
    <3> QED
      BY <3>1, <3>2
  <2>6. CASE Compare(t)
    <3>1. TypeOK'
      <4>1. copy' \in [Threads -> {"none", "alone", "shared", "failed"}]
        BY <2>6, Begun DEF Compare, TypeOK
      <4>2. /\ pc' \in [Threads -> Labels]
            /\ outcome' \in [Threads -> Outcomes \cup {"none"}]
            /\ \A u \in Threads : pc'[u] = "ret" <=> outcome'[u] # "none"
        <5>1. /\ pc[t] # "ret"
              /\ \/ \E l \in Labels \ {"ret"} : Continues(t, l)
                 \/ \E o \in Outcomes : Ends(t, o)
          BY <2>6 DEF Compare, Outcomes, Exceptions
        <5> QED
          BY <5>1, Going
      <4>3. accepted' \subseteq Documents /\ latest' \in accepted' \cup {Nothing}
        BY <2>0, <2>6 DEF Compare, TypeOK, Located
      <4> QED
        BY <2>6, <4>1, <4>2, <4>3 DEF Compare, TypeOK
    <3>2. Located'
      BY <2>0, <2>6 DEF Compare, TypeOK, Located, Goto, Ends, Continues
    <3> QED
      BY <3>1, <3>2
  <2>7. CASE Install(t)
    <3>1. /\ pc' \in [Threads -> Labels]
          /\ outcome' \in [Threads -> Outcomes \cup {"none"}]
          /\ \A u \in Threads : pc'[u] = "ret" <=> outcome'[u] # "none"
      <4>1. /\ pc[t] # "ret"
            /\ \/ \E l \in Labels \ {"ret"} : Continues(t, l)
               \/ \E o \in Outcomes : Ends(t, o)
        BY <2>7, Installed
      <4> QED
        BY <4>1, Going
    <3>2. TypeOK'
      <4>1. current' \in Licenses /\ before' \in [Threads -> Licenses]
        BY <2>7, Kept
      <4> QED
        BY <2>7, <3>1, <4>1 DEF Install, TypeOK
    <3>3. Located'
      <4>1. /\ pc[t] \in Installing
            /\ \E l \in Installing : pc' = [pc EXCEPT ![t] = l]
            /\ UNCHANGED <<call, accepted>>
        BY <2>7, Installed DEF Install, Goto, Ends, Continues
      <4> QED
        BY <2>0, <4>1 DEF TypeOK, Located
    <3> QED
      BY <3>2, <3>3
  <2>8. CASE InstallValid(t)
    <3>1. /\ pc' \in [Threads -> Labels]
          /\ outcome' \in [Threads -> Outcomes \cup {"none"}]
          /\ \A u \in Threads : pc'[u] = "ret" <=> outcome'[u] # "none"
      <4>1. /\ pc[t] # "ret"
            /\ \/ \E l \in Labels \ {"ret"} : Continues(t, l)
               \/ \E o \in Outcomes : Ends(t, o)
        BY <2>0, <2>8 DEF InstallValid, Located, Outcomes, Exceptions
      <4> QED
        BY <4>1, Going
    <3>2. TypeOK'
      <4>1. latest' \in accepted'
        BY <2>8 DEF InstallValid, Located
      <4>2. current' \in Licenses /\ before' \in [Threads -> Licenses]
        BY <2>8, Kept
      <4> QED
        BY <2>8, <3>1, <4>1, <4>2 DEF InstallValid, TypeOK
    <3>3. Located'
      BY <2>0, <2>8 DEF InstallValid, TypeOK, Located, Goto, Ends, Continues
    <3> QED
      BY <3>2, <3>3
  <2>9. CASE RequireValid(t)
    <3>1. TypeOK'
      BY <2>0, <2>9 DEF RequireValid, TypeOK, Located, Outcomes, Exceptions,
             Goto, Ends, Continues
    <3>2. Located'
      BY <2>0, <2>9 DEF RequireValid, TypeOK, Located, Goto, Ends, Continues
    <3> QED
      BY <3>1, <3>2
  <2>10. CASE ReadValid(t)
    <3>1. /\ pc' \in [Threads -> Labels]
          /\ outcome' \in [Threads -> Outcomes \cup {"none"}]
          /\ \A u \in Threads : pc'[u] = "ret" <=> outcome'[u] # "none"
      <4>1. /\ pc[t] # "ret"
            /\ \/ \E l \in Labels \ {"ret"} : Continues(t, l)
               \/ \E o \in Outcomes : Ends(t, o)
        BY <2>0, <2>10 DEF ReadValid, Located, Outcomes, Exceptions
      <4> QED
        BY <4>1, Going
    <3>2. TypeOK'
      BY <2>0, <2>10, <3>1 DEF ReadValid, TypeOK
    <3>3. Located'
      <4>1. \/ /\ pc' = [pc EXCEPT ![t] = "query"]
               /\ call[t] \in FeatureCalls \cup [op : {"available"}]
            \/ pc' = [pc EXCEPT ![t] = "asked"]
            \/ pc' = [pc EXCEPT ![t] = "ret"]
        BY <2>0, <2>10 DEF ReadValid, Located, Goto, Ends, Continues
      <4>2. pc[t] = "valid" /\ UNCHANGED <<call, accepted>>
        BY <2>10 DEF ReadValid
      <4> QED
        BY <4>1, <4>2 DEF TypeOK, Located
    <3> QED
      BY <3>2, <3>3
  <2>11. CASE ReadFeatures(t)
    <3>1. /\ pc' \in [Threads -> Labels]
          /\ outcome' \in [Threads -> Outcomes \cup {"none"}]
          /\ \A u \in Threads : pc'[u] = "ret" <=> outcome'[u] # "none"
      <4>1. /\ pc[t] # "ret"
            /\ \/ \E l \in Labels \ {"ret"} : Continues(t, l)
               \/ \E o \in Outcomes : Ends(t, o)
        BY <2>0, <2>11 DEF ReadFeatures, Located, Outcomes, Exceptions
      <4> QED
        BY <4>1, Going
    <3>2. TypeOK'
      <4>1. seen' \in [Threads -> SUBSET Features]
        BY <2>11 DEF ReadFeatures, TypeOK, Licenses
      <4> QED
        BY <2>11, <3>1, <4>1 DEF ReadFeatures, TypeOK
    <3>3. Located'
      BY <2>0, <2>11 DEF ReadFeatures, TypeOK, Located, Goto, Ends, Continues
    <3> QED
      BY <3>2, <3>3
  <2>12. CASE ReadExpiry(t)
    <3>1. /\ pc' \in [Threads -> Labels]
          /\ outcome' \in [Threads -> Outcomes \cup {"none"}]
          /\ \A u \in Threads : pc'[u] = "ret" <=> outcome'[u] # "none"
      <4>1. /\ pc[t] # "ret"
            /\ \/ \E l \in Labels \ {"ret"} : Continues(t, l)
               \/ \E o \in Outcomes : Ends(t, o)
        <5>1. current.expiry \in Nat /\ clock \in Nat
          BY DEF TypeOK, Licenses
        <5>2. clock <= current.expiry \/ clock > current.expiry
          BY <5>1
        <5> QED
          BY <2>12, <5>2 DEF ReadExpiry, Outcomes, Exceptions
      <4> QED
        BY <4>1, Going
    <3>2. TypeOK'
      BY <2>0, <2>12, <3>1 DEF ReadExpiry, TypeOK
    <3>3. Located'
      BY <2>0, <2>12 DEF ReadExpiry, TypeOK, Located, Goto, Ends, Continues
    <3> QED
      BY <3>2, <3>3
  <2>13. CASE SetConfig(t)
    <3>1. /\ pc' \in [Threads -> Labels]
          /\ outcome' \in [Threads -> Outcomes \cup {"none"}]
          /\ \A u \in Threads : pc'[u] = "ret" <=> outcome'[u] # "none"
      <4>1. /\ pc[t] # "ret"
            /\ \/ \E l \in Labels \ {"ret"} : Continues(t, l)
               \/ \E o \in Outcomes : Ends(t, o)
        BY <2>0, <2>13 DEF SetConfig, Located, Outcomes, Exceptions
      <4> QED
        BY <4>1, Going
    <3>2. TypeOK'
      <4>1. wanted' \in Configs /\ served' \in [Threads -> SUBSET Configs]
        BY <2>0, <2>13 DEF SetConfig, Wants, TypeOK, Located
      <4> QED
        BY <2>0, <2>13, <3>1, <4>1 DEF SetConfig, TypeOK, NewDetector, Located
    <3>3. Located'
      BY <2>0, <2>13 DEF SetConfig, TypeOK, Located, Goto, Ends, Continues
    <3> QED
      BY <3>2, <3>3
  <2>14. CASE SetConfigFails(t)
    <3>1. TypeOK'
      BY <2>0, <2>14 DEF SetConfigFails, TypeOK, Located, Outcomes, Exceptions,
             Goto, Ends, Continues
    <3>2. Located'
      BY <2>0, <2>14 DEF SetConfigFails, TypeOK, Located, Goto, Ends, Continues
    <3> QED
      BY <3>1, <3>2
  <2>15. CASE SetStrict(t)
    <3>1. TypeOK'
      BY <2>0, <2>15 DEF SetStrict, TypeOK, Located, Outcomes, Exceptions,
             Goto, Ends, Continues
    <3>2. Located'
      BY <2>0, <2>15 DEF SetStrict, TypeOK, Located, Goto, Ends, Continues
    <3> QED
      BY <3>1, <3>2
  <2>16. CASE Return(t)
    <3>1. TypeOK'
      <4>1. NoCall \in CallType /\ NoLicense \in Licenses
        BY DEF NoCall, CallType, NoLicense, Licenses
      <4> QED
        BY <2>16, <4>1 DEF Return, TypeOK, Goto, Outcomes, Exceptions
    <3>2. Located'
      BY <2>0, <2>16 DEF Return, TypeOK, Located, Goto, Ends, Continues
    <3> QED
      BY <3>1, <3>2
  <2>17. CASE CopyFails(t)
    <3>1. /\ pc' \in [Threads -> Labels]
          /\ outcome' \in [Threads -> Outcomes \cup {"none"}]
          /\ \A u \in Threads : pc'[u] = "ret" <=> outcome'[u] # "none"
      <4>1. /\ pc[t] # "ret"
            /\ \E o \in Outcomes : Ends(t, o)
        BY <2>17 DEF CopyFails, Allocating, Outcomes, Exceptions
      <4> QED
        BY <4>1, Going
    <3>2. TypeOK'
      <4>1. current' \in Licenses /\ before' \in [Threads -> Licenses]
        BY <2>17, Kept
      <4> QED
        BY <2>17, <3>1, <4>1 DEF CopyFails, TypeOK
    <3>3. Located'
      <4>1. pc' = [pc EXCEPT ![t] = "ret"] /\ UNCHANGED <<call, accepted>>
        BY <2>17 DEF CopyFails, Goto, Ends
      <4>2. pc'[t] = "ret" /\ \A u \in Threads \ {t} : pc'[u] = pc[u]
        BY <4>1 DEF TypeOK
      <4>3. LocatedAt(t)'
        BY <2>17, <4>1, <4>2 DEF LocatedAt, Located, CopyFails, Allocating
      <4>4. ASSUME NEW u \in Threads \ {t} PROVE LocatedAt(u)'
        <5>1. LocatedAt(u) /\ pc'[u] = pc[u] /\ UNCHANGED <<call, accepted>>
          BY <4>1, <4>2 DEF Located, LocatedAt
        <5> QED
          BY <5>1 DEF LocatedAt
      <4> QED
        BY <4>3, <4>4 DEF Located, LocatedAt
    <3> QED
      BY <3>2, <3>3
  <2>18. CASE OutOfMemory(t)
    <3>0. PICK o \in Shortage(t) : Ends(t, o)
      BY <2>18 DEF OutOfMemory
    <3>1. /\ pc' \in [Threads -> Labels]
          /\ outcome' \in [Threads -> Outcomes \cup {"none"}]
          /\ \A u \in Threads : pc'[u] = "ret" <=> outcome'[u] # "none"
      <4>1. pc[t] # "ret" /\ o \in Outcomes
        BY <3>0 DEF Shortage, Outcomes, Exceptions
      <4> QED
        BY <3>0, <4>1, Going
    <3>2. TypeOK'
      BY <2>18, <3>1 DEF OutOfMemory, TypeOK
    <3>3. Located'
      <4>1. pc' = [pc EXCEPT ![t] = "ret"] /\ UNCHANGED <<call, accepted>>
        BY <2>18, <3>0 DEF OutOfMemory, Goto, Ends
      <4>2. pc'[t] = "ret" /\ \A u \in Threads \ {t} : pc'[u] = pc[u]
        BY <4>1 DEF TypeOK
      <4>3. LocatedAt(t)'
        BY <3>0, <4>1, <4>2 DEF LocatedAt, Located, Shortage
      <4>4. ASSUME NEW u \in Threads \ {t} PROVE LocatedAt(u)'
        <5>1. LocatedAt(u) /\ pc'[u] = pc[u] /\ UNCHANGED <<call, accepted>>
          BY <4>1, <4>2 DEF Located, LocatedAt
        <5> QED
          BY <5>1 DEF LocatedAt
      <4> QED
        BY <4>3, <4>4 DEF Located, LocatedAt
    <3> QED
      BY <3>2, <3>3
  <2> QED
    BY <1>4, <2>1, <2>2, <2>3, <2>4, <2>5, <2>6, <2>7, <2>8, <2>9, <2>10, <2>11, <2>12, <2>13, <2>14, <2>15, <2>16, <2>17, <2>18 DEF ThreadStep
<1>5. CASE UNCHANGED vars
  BY <1>5 DEF vars, TypeOK, Located
<1>6. CASE Race
  <2>1. TypeOK'
    BY <1>6 DEF Race, TypeOK
  <2>2. Located'
    BY <1>6 DEF Race, Located
  <2> QED
    BY <2>1, <2>2
<1> QED
  BY <1>1, <1>2, <1>3, <1>4, <1>5, <1>6, Entering DEF Next

-----------------------------------------------------------------------------
(* What a step may change.                                                   *)

\* Which of a thread's steps write which variables.
LEMMA Writes ==
    ASSUME NEW t \in Threads, ThreadStep(t)
    PROVE  /\ UNCHANGED environment
           /\ UNCHANGED <<current, mixed>> \/ Install(t) \/ InstallValid(t) \/ CopyFails(t)
           /\ UNCHANGED before \/ Install(t) \/ InstallValid(t) \/ CopyFails(t) \/ Return(t)
           /\ UNCHANGED copy \/ Compare(t) \/ InstallValid(t) \/ CopyFails(t) \/ Return(t)
           /\ UNCHANGED latest \/ InstallValid(t)
           /\ UNCHANGED accepted \/ Compare(t)
           /\ UNCHANGED served \/ SetConfig(t) \/ Return(t)
           /\ UNCHANGED detector \/ Probe(t) \/ SetConfig(t)
           /\ UNCHANGED wanted \/ SetConfig(t)
           /\ UNCHANGED hwid \/ Probe(t) \/ Return(t)
           /\ UNCHANGED seen \/ ReadFeatures(t) \/ Return(t)
           /\ UNCHANGED <<call, began>> \/ Return(t)
<1> USE DEF members, environment, locals, licensing, configuring, history
<1>1. CASE Parse(t) \/ CheckSignature(t) \/ ProbeFails(t) \/ OutOfMemory(t)
  BY <1>1 DEF Parse, CheckSignature, ProbeFails, OutOfMemory
<1>2. CASE CheckExpiry(t) \/ ReadExpiry(t)
  BY <1>2 DEF CheckExpiry, ReadExpiry
<1>3. CASE Probe(t)
  BY <1>3 DEF Probe
<1>4. CASE Compare(t)
  BY <1>4 DEF Compare
<1>5. CASE Install(t)
  BY <1>5 DEF Install
<1>6. CASE InstallValid(t)
  BY <1>6 DEF InstallValid
<1>7. CASE RequireValid(t) \/ ReadValid(t)
  BY <1>7 DEF RequireValid, ReadValid
<1>8. CASE ReadFeatures(t)
  BY <1>8 DEF ReadFeatures
<1>9. CASE SetConfig(t) \/ SetConfigFails(t) \/ SetStrict(t)
  BY <1>9 DEF SetConfig, SetConfigFails, SetStrict
<1>10. CASE Return(t)
  BY <1>10 DEF Return
<1>11. CASE CopyFails(t)
  BY <1>11 DEF CopyFails
<1> QED
  BY <1>1, <1>2, <1>3, <1>4, <1>5, <1>6, <1>7, <1>8, <1>9, <1>10, <1>11 DEF ThreadStep

\* A step moves one thread, within or out of its method.
LEMMA Moves ==
    ASSUME TypeOK, NEW t \in Threads, ThreadStep(t)
    PROVE  /\ \A u \in Threads \ {t} : /\ pc'[u] = pc[u] /\ call'[u] = call[u]
                                       /\ hwid'[u] = hwid[u] /\ seen'[u] = seen[u]
                                       /\ began'[u] = began[u] /\ outcome'[u] = outcome[u]
           /\ pc[t] # "idle"
<1> USE DEF Goto, Ends, Continues, TypeOK, members, environment, locals, licensing,
    configuring, history
<1>1. CASE Parse(t) \/ CheckSignature(t) \/ ProbeFails(t)
  BY <1>1 DEF Parse, CheckSignature, ProbeFails
<1>12. CASE OutOfMemory(t)
  <2>1. PICK o \in Shortage(t) : Ends(t, o)
    BY <1>12 DEF OutOfMemory
  <2>2. pc[t] # "idle"
    BY <2>1 DEF Shortage
  <2> QED
    BY <1>12, <2>1, <2>2 DEF OutOfMemory
<1>2. CASE CheckExpiry(t) \/ ReadExpiry(t)
  BY <1>2 DEF CheckExpiry, ReadExpiry
<1>3. CASE Probe(t)
  BY <1>3 DEF Probe
<1>4. CASE Compare(t)
  BY <1>4 DEF Compare
<1>5. CASE Install(t)
  BY <1>5, DOMAIN InstallOrder = 1..3 DEF Install, InstallOrder
<1>6. CASE InstallValid(t)
  BY <1>6 DEF InstallValid
<1>7. CASE RequireValid(t) \/ ReadValid(t)
  BY <1>7 DEF RequireValid, ReadValid
<1>8. CASE ReadFeatures(t)
  BY <1>8 DEF ReadFeatures
<1>9. CASE SetConfig(t) \/ SetConfigFails(t) \/ SetStrict(t)
  BY <1>9 DEF SetConfig, SetConfigFails, SetStrict
<1>10. CASE Return(t)
  BY <1>10 DEF Return
<1>11. CASE CopyFails(t)
  BY <1>11 DEF CopyFails, Allocating
<1> QED
  BY <1>1, <1>12, <1>2, <1>3, <1>4, <1>5, <1>6, <1>7, <1>8, <1>9, <1>10, <1>11 DEF ThreadStep

-----------------------------------------------------------------------------
(* Where features come from.                                                 *)

\* Every step keeps the features in force, and those seen, granted by accepted documents.
LEMMA ProvenanceStep ==
    ASSUME TypeOK, Located, Provenance, [Next]_vars
    PROVE  Provenance'
<1>1. CASE Tick \/ MachineChange \/ Race \/ UNCHANGED vars
  BY <1>1 DEF Tick, MachineChange, Race, vars, members, locals, history, licensing,
     Provenance, Granted
<1>2. ASSUME NEW t \in Threads, NEW c \in CallType, NEW l \in Labels, Call(t, c, l)
      PROVE  Provenance'
  BY <1>2 DEF Call, members, Provenance, Granted
<1>3. ASSUME NEW t \in Threads, ThreadStep(t)
      PROVE  Provenance'
  <2>1. accepted \subseteq accepted'
    <3>1. CASE Compare(t)
      BY <3>1 DEF Compare
    <3> QED
      BY <1>3, <3>1, Writes
  <2>2. Granted \subseteq Granted'
    BY <2>1 DEF Granted
  <2>3. current'.features \subseteq Granted'
    <3>1. CASE Install(t)
      <4>1. call[t].doc \in accepted
        BY <3>1, Installed DEF Located, Installing
      <4>2. call[t].doc.features \subseteq Granted
        BY <4>1 DEF Granted
      <4>3. current'.features \in {current.features, call[t].doc.features}
        BY <3>1, Installed DEF TypeOK, Licenses, Store
      <4> QED
        BY <2>2, <4>2, <4>3 DEF Provenance
    <3>2. CASE InstallValid(t)
      BY <2>2, <3>2 DEF InstallValid, Provenance, TypeOK, Licenses, Store
    <3>4. CASE CopyFails(t)
      <4>1. call[t].doc \in accepted
        BY <3>4 DEF CopyFails, Allocating, Located, Installing
      <4>2. call[t].doc.features \subseteq Granted
        BY <4>1 DEF Granted
      <4>3. current'.features \subseteq current.features \cup call[t].doc.features
        BY <3>4, Failed DEF TypeOK, Licenses, Store
      <4> QED
        BY <2>2, <4>2, <4>3 DEF Provenance
    <3>3. CASE UNCHANGED current
      BY <2>2, <3>3 DEF Provenance
    <3> QED
      BY <1>3, <3>1, <3>2, <3>3, <3>4, Writes
  <2>4. ASSUME NEW u \in Threads PROVE seen'[u] \subseteq Granted'
    <3>1. CASE ReadFeatures(t)
      <4>1. seen' = [seen EXCEPT ![t] = current.features]
        BY <3>1 DEF ReadFeatures
      <4> QED
        BY <2>2, <4>1 DEF Provenance, TypeOK
    <3>2. CASE Return(t)
      BY <2>2, <3>2 DEF Return, Provenance, TypeOK
    <3>3. CASE UNCHANGED seen
      BY <2>2, <3>3 DEF Provenance
    <3> QED
      BY <1>3, <3>1, <3>2, <3>3, Writes
  <2> QED
    BY <2>3, <2>4 DEF Provenance
<1> QED
  BY <1>1, <1>2, <1>3, Entering DEF Next

-----------------------------------------------------------------------------
(* Where and when a document is accepted.                                    *)

\* A sighting is never forgotten.
LEMMA Sightings ==
    ASSUME TypeOK, Times, [Next]_vars
    PROVE  \A m \in Machines : lastSeen'[m] >= lastSeen[m]
<1> USE DEF members, environment, locals, licensing, configuring, history
<1>1. CASE Tick
  BY <1>1 DEF Tick, TypeOK, Times
<1>2. CASE MachineChange
  BY <1>2 DEF MachineChange, TypeOK, Times
<1>3. CASE UNCHANGED environment
  BY <1>3 DEF TypeOK
<1> QED
  <2>1. ASSUME NEW t \in Threads, NEW c \in CallType, NEW l \in Labels, Call(t, c, l)
        PROVE  UNCHANGED environment
    BY <2>1 DEF Call
  <2>2. UNCHANGED vars \/ Race => UNCHANGED environment
    BY DEF vars, Race
  <2> QED
    BY <1>1, <1>2, <1>3, <2>1, <2>2, Writes, Entering DEF Next

\* A fingerprint tells the machine and the configuration it was taken under.
LEMMA CachedMachine ==
    ASSUME NEW f \in Fingerprints
    PROVE  f[1] \in Machines /\ f[2] \in Configs
BY DEF Fingerprints

\* No step takes an instant that is still to come.
LEMMA TimesStep ==
    ASSUME TypeOK, Times, [Next]_vars
    PROVE  Times'
<1> USE DEF members, environment, locals, licensing, configuring, history
<1>1. CASE Tick
  <2>1. detector' = detector /\ (detector.value # Nothing => detector.value \in Fingerprints)
    BY <1>1 DEF Tick, TypeOK
  <2> QED
    BY <1>1, <2>1, CachedMachine DEF Tick, TypeOK, Times
<1>2. CASE MachineChange
  <2>1. detector' = detector /\ (detector.value # Nothing => detector.value \in Fingerprints)
    BY <1>2 DEF MachineChange, TypeOK
  <2>2. detector.value # Nothing => detector.value[1] \in Machines /\ detector.stamp \in Nat
    BY <2>1, CachedMachine DEF TypeOK
  <2> QED
    BY <1>2, <2>1, <2>2 DEF MachineChange, TypeOK, Times
<1>3. ASSUME NEW t \in Threads, NEW c \in CallType, NEW l \in Labels, Call(t, c, l)
      PROVE  Times'
  BY <1>3 DEF Call, TypeOK, Times
<1>4. ASSUME NEW t \in Threads, ThreadStep(t)
      PROVE  Times'
  <2>1. UNCHANGED <<clock, machine, lastSeen>>
    BY <1>4, Writes
  <2>2. \A u \in Threads : began'[u] <= clock'
    <3>1. CASE Return(t)
      BY <2>1, <3>1 DEF Return, TypeOK, Times
    <3> QED
      BY <1>4, <2>1, <3>1, Writes DEF Times
  <2>3. detector'.value # Nothing => lastSeen[detector'.value[1]] >= detector'.stamp
    <3>1. CASE Probe(t)
      <4>1. CASE detector' = detector
        BY <4>1 DEF Times
      <4>2. CASE detector' = [config |-> detector.config, stamp |-> clock,
                              value |-> <<machine, detector.config>>]
        BY <4>2 DEF Times, TypeOK
      <4> QED
        BY <3>1, <4>1, <4>2 DEF Probe
    <3>2. CASE SetConfig(t)
      BY <3>2 DEF SetConfig, NewDetector
    <3> QED
      BY <1>4, <3>1, <3>2, Writes DEF Times
  <2> QED
    BY <2>1, <2>2, <2>3 DEF Times
<1>5. CASE UNCHANGED vars \/ Race
  BY <1>5 DEF vars, Race, Times
<1> QED
  BY <1>1, <1>2, <1>3, <1>4, <1>5, Entering DEF Next

\* A configuration that was in force during a call goes on having been so.
LEMMA Serving ==
    ASSUME TypeOK, [Next]_vars, NEW t \in Threads, pc[t] # "idle", pc'[t] # "idle"
    PROVE  served[t] \subseteq served'[t] /\ (wanted \in served[t] => wanted' \in served'[t])
<1>1. CASE Tick \/ MachineChange \/ Race \/ UNCHANGED vars
  BY <1>1 DEF Tick, MachineChange, Race, vars, history, configuring
<1>2. ASSUME NEW u \in Threads, NEW c \in CallType, NEW l \in Labels, Call(u, c, l)
      PROVE  served'[t] = served[t] /\ wanted' = wanted
  BY <1>2 DEF Call, TypeOK
<1>3. ASSUME NEW u \in Threads, ThreadStep(u)
      PROVE  served[t] \subseteq served'[t] /\ (wanted \in served[t] => wanted' \in served'[t])
  <2>1. CASE SetConfig(u)
    BY <2>1 DEF SetConfig, Wants, TypeOK
  <2>2. CASE Return(u)
    <3>1. u # t
      BY <2>2 DEF Return, Goto, TypeOK
    <3> QED
      BY <2>2, <3>1 DEF Return, TypeOK
  <2> QED
    BY <1>3, <2>1, <2>2, Writes
<1> QED
  BY <1>1, <1>2, <1>3, Entering DEF Next

\* A fingerprint that matched the call goes on matching.
LEMMA MatchesStep ==
    ASSUME TypeOK, Times, [Next]_vars, NEW t \in Threads, NEW f,
           Matches(t, f), began'[t] = began[t], pc[t] # "idle", pc'[t] # "idle"
    PROVE  Matches(t, f)'
<1>1. f[1] \in Machines
  BY CachedMachine DEF Matches
<1>2. /\ lastSeen[f[1]] \in Nat /\ lastSeen'[f[1]] \in Int /\ began[t] \in Nat
      /\ lastSeen'[f[1]] >= lastSeen[f[1]]
  <2>1. lastSeen' \in [Machines -> Nat]
    <3>1. CASE Tick
      BY <3>1 DEF Tick, TypeOK
    <3>2. CASE MachineChange
      BY <3>2 DEF MachineChange, TypeOK
    <3>3. CASE UNCHANGED lastSeen
      BY <3>3 DEF TypeOK
    <3>4. ASSUME NEW u \in Threads, NEW c \in CallType, NEW l \in Labels, Call(u, c, l)
          PROVE  UNCHANGED lastSeen
      BY <3>4 DEF Call, environment
    <3>5. ASSUME NEW u \in Threads, ThreadStep(u) PROVE UNCHANGED lastSeen
      BY <3>5, Writes DEF environment
    <3>6. UNCHANGED vars \/ Race => UNCHANGED lastSeen
      BY DEF vars, Race, environment
    <3> QED
      BY <3>1, <3>2, <3>3, <3>4, <3>5, <3>6, Entering DEF Next
  <2> QED
    BY <1>1, <2>1, Sightings DEF TypeOK
<1>3. f[2] \in served'[t]
  BY Serving DEF Matches
<1> QED
  BY <1>2, <1>3, LifetimeAssumption DEF Matches

\* A call that is not moved goes on knowing what it knows.
LEMMA JudgedUnmoved ==
    ASSUME TypeOK, Times, [Next]_vars, NEW t \in Threads, JudgedAt(t),
           UNCHANGED <<pc[t], call[t], hwid[t], began[t]>>
    PROVE  JudgedAt(t)'
<1>1. \A f : pc[t] # "idle" /\ Matches(t, f) => Matches(t, f)'
  BY MatchesStep
<1>2. pc[t] = "compare" => Matches(t, hwid[t])'
  <2> SUFFICES ASSUME pc[t] = "compare" PROVE Matches(t, hwid[t])'
    OBVIOUS
  <2> DEFINE f == hwid[t]
  <2>1. Matches(t, f)
    BY DEF JudgedAt
  <2>2. f' = f
    OBVIOUS
  <2> QED
    BY <1>1, <2>1, <2>2 DEF Matches
<1>3. pc[t] \in Installing => Matches(t, call[t].doc.hardware_hash)'
  <2> SUFFICES ASSUME pc[t] \in Installing PROVE Matches(t, call[t].doc.hardware_hash)'
    OBVIOUS
  <2> DEFINE f == call[t].doc.hardware_hash
  <2>1. Matches(t, f)
    BY DEF JudgedAt
  <2>2. f' = f
    OBVIOUS
  <2>3. pc[t] # "idle"
    BY DEF Installing
  <2> QED
    BY <1>1, <2>1, <2>2, <2>3 DEF Matches
<1>4. pc'[t] # "idle" => wanted' \in served'[t]
  BY Serving DEF JudgedAt
<1> QED
  BY <1>2, <1>3, <1>4 DEF JudgedAt, Loading

\* A probe or a hit gives a fingerprint of the configuration in force, seen no
\* longer ago than the lifetime.
LEMMA Probed ==
    ASSUME TypeOK, Times, Judged, NEW t \in Threads, Probe(t)
    PROVE  /\ detector'.config = wanted
           /\ detector'.value \in Fingerprints /\ detector'.value[2] = wanted
           /\ lastSeen[detector'.value[1]] >= began[t] - Lifetime
<1>1. began[t] \in Nat /\ clock \in Nat /\ began[t] <= clock /\ Lifetime \in Nat
  BY LifetimeAssumption DEF TypeOK, Times
<1>2. CASE Useful
  <2>1. detector' = detector /\ detector.value # Nothing /\ clock - detector.stamp <= Lifetime
    BY <1>2 DEF Probe, Useful
  <2>2. detector.value \in Fingerprints /\ detector.stamp \in Nat
    BY <2>1 DEF TypeOK
  <2>3. lastSeen[detector.value[1]] \in Nat
    BY <2>2, CachedMachine DEF TypeOK
  <2>4. lastSeen[detector.value[1]] >= detector.stamp
    BY <2>1 DEF Times
  <2> QED
    BY <1>1, <2>1, <2>2, <2>3, <2>4 DEF Judged
<1>3. CASE ~Useful
  <2>1. detector' = [config |-> detector.config, stamp |-> clock,
                     value |-> <<machine, detector.config>>]
    BY <1>3 DEF Probe
  <2>2. lastSeen[machine] = clock /\ detector.config = wanted
    BY DEF Times, Judged
  <2>3. detector'.value \in Fingerprints
    BY <2>1 DEF TypeOK, Fingerprints
  <2> QED
    BY <1>1, <2>1, <2>2, <2>3
<1> QED
  BY <1>2, <1>3

\* Every step keeps what a call judging a document knows.
LEMMA JudgedStep ==
    ASSUME TypeOK, Located, Times, Judged, [Next]_vars
    PROVE  Judged'
<1> USE DEF members, environment, locals, licensing, configuring, history
<1>0. \A u \in Threads : JudgedAt(u)
  BY DEF Judged
<1>1. ASSUME UNCHANGED <<detector, wanted>>, \A u \in Threads : JudgedAt(u)'
      PROVE  Judged'
  BY <1>1 DEF Judged
<1>2. CASE Tick \/ MachineChange \/ Race \/ UNCHANGED vars
  <2>1. UNCHANGED <<pc, call, hwid, began, wanted, detector>>
    BY <1>2 DEF Tick, MachineChange, Race, vars
  <2> QED
    BY <1>0, <1>1, <2>1, JudgedUnmoved
<1>3. ASSUME NEW t \in Threads, NEW c \in CallType, NEW l \in Labels, Call(t, c, l),
             \/ l \in {"parse", "require", "valid", "config", "strict"}
             \/ l = "probe" /\ c \in [op : {"hwid"}]
      PROVE  Judged'
  <2>1. UNCHANGED <<wanted, detector>>
    BY <1>3 DEF Call
  <2>2. ASSUME NEW u \in Threads \ {t} PROVE JudgedAt(u)'
    <3>1. UNCHANGED <<pc[u], call[u], hwid[u], began[u]>>
      BY <1>3 DEF Call, Goto, TypeOK
    <3> QED
      BY <1>0, <2>1, <3>1, JudgedUnmoved
  <2>3. JudgedAt(t)'
    <3>1. pc'[t] = l /\ call'[t] = c /\ wanted' \in served'[t]
      BY <1>3 DEF Call, Goto, TypeOK
    <3>2. l = "probe" => ~Loading(t)'
      BY <1>3, <3>1, Arguments DEF Loading
    <3> QED
      BY <1>3, <3>1, <3>2 DEF JudgedAt, Installing
  <2> QED
    BY <1>1, <2>1, <2>2, <2>3
<1>4. ASSUME NEW t \in Threads, ThreadStep(t)
      PROVE  Judged'
  <2>1. ASSUME NEW u \in Threads \ {t} PROVE JudgedAt(u)'
    BY <1>0, <1>4, Moves, JudgedUnmoved
  <2>2. pc'[t] # "idle" => wanted' \in served'[t]
    BY <1>0, <1>4, Moves, Serving DEF JudgedAt
  <2>3. CASE SetConfig(t)
    <3>1. pc'[t] = "ret"
      BY <2>3 DEF SetConfig, Ends, Goto, TypeOK
    <3>2. JudgedAt(t)'
      BY <2>2, <3>1 DEF JudgedAt, Installing
    <3>3. detector'.config = wanted' /\ detector'.value = Nothing
      BY <2>3 DEF SetConfig, Wants, NewDetector
    <3> QED
      BY <2>1, <3>2, <3>3 DEF Judged
  <2>4. CASE ~SetConfig(t)
    <3>1. wanted' = wanted
      BY <1>4, <2>4, Writes
    <3>2. served'[t] = served[t] \/ pc'[t] = "idle"
      BY <1>4, <2>4, Writes DEF Return, Goto, TypeOK
    <3>3. detector'.config = wanted' /\ (detector'.value # Nothing => detector'.value[2] = wanted')
      <4>1. CASE Probe(t)
        BY <3>1, <4>1, Probed
      <4> QED
        BY <1>4, <2>4, <3>1, <4>1, Writes DEF Judged
    <3>4. JudgedAt(t)'
      <4> USE DEF Goto, Ends, Continues
      <4>0. pc[t] = "ret" \/ (call' = call /\ began' = began)
        BY <1>4, Writes DEF Return
      <4>1. CASE CheckExpiry(t)
        <5>1. pc'[t] = "ret" \/ (pc'[t] = "signature" /\ clock <= call[t].doc.expiry)
          <6>1. call[t].doc.expiry \in Nat /\ clock \in Nat
            BY <4>1, Arguments, DocumentFields DEF CheckExpiry, Located, Checking, TypeOK
          <6> QED
            BY <4>1, <6>1 DEF CheckExpiry, TypeOK
        <5>2. pc'[t] = "signature" => began[t] <= call[t].doc.expiry
          <6>1. call[t].doc.expiry \in Nat /\ clock \in Nat /\ began[t] \in Nat /\ began[t] <= clock
            BY <4>1, Arguments, DocumentFields DEF CheckExpiry, Located, Checking, TypeOK, Times
          <6> QED
            BY <5>1, <6>1
        <5>3. UNCHANGED <<call, began>>
          BY <4>1 DEF CheckExpiry
        <5> QED
          BY <2>2, <5>1, <5>2, <5>3 DEF JudgedAt, Installing
      <4>2. CASE CheckSignature(t)
        <5>1. pc[t] = "signature" /\ pc'[t] \in {"ret", "probe"} /\ UNCHANGED <<call, began>>
          BY <4>2 DEF CheckSignature, TypeOK
        <5> QED
          BY <1>0, <2>2, <5>1 DEF JudgedAt, Loading, Installing
      <4>3. CASE Probe(t)
        <5>1. /\ pc[t] = "probe" /\ hwid'[t] = detector'.value
              /\ pc'[t] = "ret" \/ (pc'[t] = "compare" /\ Loading(t))
              /\ UNCHANGED <<call, began, lastSeen>>
          BY <4>3 DEF Probe, TypeOK
        <5>2. Matches(t, hwid[t])'
          BY <2>2, <3>1, <4>3, <5>1, Probed DEF Matches
        <5> QED
          BY <1>0, <2>2, <5>1, <5>2 DEF JudgedAt, Installing
      <4>4. CASE Compare(t)
        <5>1. /\ pc[t] = "compare" /\ call[t] \in LoadCalls
              /\ \/ pc'[t] = "ret"
                 \/ pc'[t] = "hardware_hash" /\ hwid[t] = call[t].doc.hardware_hash
              /\ UNCHANGED <<call, began, lastSeen>>
          BY <4>4 DEF Compare, TypeOK, Located, Checking
        <5>2. Loading(t)
          BY <5>1, Arguments DEF Loading
        <5>3. pc'[t] = "hardware_hash" => Matches(t, call[t].doc.hardware_hash)'
          BY <1>0, <3>2, <5>1 DEF JudgedAt, Matches, Installing
        <5> QED
          BY <1>0, <2>2, <5>1, <5>2, <5>3 DEF JudgedAt, Installing
      <4>5. CASE Install(t) \/ InstallValid(t)
        <5>1. /\ pc[t] \in Installing /\ pc'[t] \in Installing \cup {"ret"}
              /\ UNCHANGED <<call, began, lastSeen>>
          <6>1. CASE Install(t)
            <7>1. UNCHANGED <<call, began, lastSeen>>
              BY <6>1 DEF Install
            <7> QED
              BY <6>1, <7>1, Installed DEF TypeOK, Installing
          <6>2. CASE InstallValid(t)
            BY <6>2 DEF InstallValid, TypeOK, Installing
          <6> QED
            BY <4>5, <6>1, <6>2
        <5>2. call[t] \in LoadCalls
          BY <5>1 DEF Located, Checking, Installing
        <5>3. Loading(t)
          BY <5>2, Arguments DEF Loading
        <5>4. pc'[t] \in Installing => Matches(t, call[t].doc.hardware_hash)'
          BY <1>0, <3>2, <5>1 DEF JudgedAt, Matches, Installing
        <5> QED
          BY <1>0, <2>2, <5>1, <5>3, <5>4 DEF JudgedAt, Installing
      <4>6. CASE ~(CheckExpiry(t) \/ CheckSignature(t) \/ Probe(t) \/ Compare(t)
                   \/ Install(t) \/ InstallValid(t))
        <5>1. pc'[t] \in {"now", "valid", "query", "asked", "ret", "idle"}
          <6>1. CASE OutOfMemory(t) \/ CopyFails(t) \/ Return(t)
            BY <6>1 DEF OutOfMemory, CopyFails, Return, TypeOK
          <6>2. CASE Parse(t) \/ ProbeFails(t) \/ SetConfigFails(t) \/ SetStrict(t)
            BY <6>2 DEF Parse, ProbeFails, SetConfigFails, SetStrict, TypeOK
          <6>3. CASE RequireValid(t) \/ ReadValid(t) \/ ReadFeatures(t) \/ ReadExpiry(t)
            BY <6>3 DEF RequireValid, ReadValid, ReadFeatures, ReadExpiry, TypeOK
          <6> QED
            BY <1>4, <2>4, <4>6, <6>1, <6>2, <6>3 DEF ThreadStep
        <5> QED
          BY <2>2, <5>1 DEF JudgedAt, Installing
      <4> QED
        BY <4>1, <4>2, <4>3, <4>4, <4>5, <4>6
    <3>5. \A u \in Threads : JudgedAt(u)'
      BY <2>1, <3>4
    <3> QED
      BY <3>3, <3>5 DEF Judged
  <2> QED
    BY <2>3, <2>4
<1> QED
  BY <1>2, <1>3, <1>4, Entering DEF Next

-----------------------------------------------------------------------------
(* Copies into the license in force.                                         *)

\* A step that copies nothing and begins and ends no copy.
LEMMA NoCopy ==
    ASSUME TypeOK, NEW t \in Threads, ThreadStep(t),
           ~(Compare(t) \/ Install(t) \/ InstallValid(t) \/ CopyFails(t))
    PROVE  /\ UNCHANGED <<current, mixed, latest>>
           /\ pc[t] \notin {"features", "expiry", "flag", "compare", "hardware_hash", "idle"}
           /\ pc'[t] \notin {"features", "expiry", "flag", "hardware_hash"}
           /\ UNCHANGED <<copy, before, call>> \/ Return(t)
<1> USE DEF Goto, Ends, Continues, TypeOK
<1>1. UNCHANGED <<current, mixed, latest>>
  BY Writes
<1>2. UNCHANGED <<copy, before, call>> \/ Return(t)
  BY Writes
<1>3. CASE Parse(t) \/ CheckExpiry(t) \/ CheckSignature(t) \/ Probe(t) \/ ProbeFails(t)
  BY <1>1, <1>2, <1>3 DEF Parse, CheckExpiry, CheckSignature, Probe, ProbeFails
<1>4. CASE RequireValid(t) \/ ReadValid(t) \/ ReadFeatures(t) \/ ReadExpiry(t)
  BY <1>1, <1>2, <1>4 DEF RequireValid, ReadValid, ReadFeatures, ReadExpiry
<1>5. CASE SetConfig(t) \/ SetConfigFails(t) \/ SetStrict(t) \/ Return(t)
  BY <1>1, <1>2, <1>5 DEF SetConfig, SetConfigFails, SetStrict, Return
<1>6. CASE OutOfMemory(t)
  <2>1. PICK o \in Shortage(t) : Ends(t, o)
    BY <1>6 DEF OutOfMemory
  <2>2. pc[t] \in {"parse", "signature", "probe", "query"}
    BY <2>1 DEF Shortage
  <2> QED
    BY <1>1, <1>2, <2>1, <2>2
<1> QED
  BY <1>3, <1>4, <1>5, <1>6 DEF ThreadStep

\* A copy that is not alone, or that is not begun, is nobody's concern.
LEMMA CopyingStep ==
    ASSUME TypeOK, Located, Copying, [Next]_vars
    PROVE  Copying'
<1> USE DEF Underway
<1> DEFINE Wrote(t) ==
      /\ pc[t] \in {"features", "expiry", "flag"} =>
             current.hardware_hash = call[t].doc.hardware_hash
      /\ pc[t] \in {"expiry", "flag"} => current.features = call[t].doc.features
      /\ pc[t] = "flag" => current.expiry = call[t].doc.expiry
<1>0. \A t \in Threads : copy[t] = "alone" => Wrote(t)
  BY DEF Copying
<1>1. ASSUME \A t \in Threads : pc'[t] \in Installing <=> Underway(t)',
             \A t, u \in Threads : copy'[t] = "alone" /\ Underway(u)' => t = u,
             \A t \in Threads : copy'[t] = "alone" => Wrote(t)'
      PROVE  Copying'
  BY <1>1 DEF Copying
<1>2. CASE Tick \/ MachineChange \/ Race \/ UNCHANGED vars
  BY <1>2 DEF Tick, MachineChange, Race, vars, members, locals, history, licensing, Copying
<1>3. ASSUME NEW t \in Threads, NEW c \in CallType, NEW l \in Labels \ Installing, Call(t, c, l)
      PROVE  Copying'
  <2>1. /\ UNCHANGED <<copy, current>> /\ pc[t] = "idle"
        /\ pc' = [pc EXCEPT ![t] = l] /\ call' = [call EXCEPT ![t] = c]
    BY <1>3 DEF Call, Goto, members
  <2>2. copy[t] # "alone" /\ pc[t] \notin Installing
    BY <2>1 DEF Copying, Installing
  <2>3. \A u \in Threads : pc'[u] \in Installing <=> pc[u] \in Installing
    BY <1>3, <2>1, <2>2 DEF TypeOK
  <2>4. \A u \in Threads \ {t} : pc'[u] = pc[u] /\ call'[u] = call[u]
    BY <2>1 DEF TypeOK
  <2> QED
    BY <1>0, <1>1, <2>1, <2>2, <2>3, <2>4 DEF Copying
<1>4. ASSUME NEW t \in Threads, ThreadStep(t)
      PROVE  Copying'
  <2> USE DEF Goto, Ends, Continues
  <2>0. \A u \in Threads \ {t} : pc'[u] = pc[u] /\ call'[u] = call[u]
    BY <1>4, Moves
  <2>1. CASE Compare(t)
    <3>1. /\ pc[t] = "compare" /\ UNCHANGED <<current, call>>
          /\ pc[t] \notin Installing /\ ~Underway(t)
      BY <2>1 DEF Compare, members, Copying, Installing
    <3>2. CASE pc'[t] = "ret" /\ UNCHANGED copy
      BY <1>0, <1>1, <2>0, <3>1, <3>2 DEF Copying, Installing
    <3>3. CASE pc'[t] = "hardware_hash" /\ CopyBegins(t)
      <4>1. CASE \E u \in Threads : Underway(u)
        <5>1. copy' = [u \in Threads |-> IF u = t \/ Underway(u) THEN "shared" ELSE copy[u]]
          BY <3>3, <4>1 DEF CopyBegins
        <5>2. \A u \in Threads : copy'[u] # "alone"
          BY <5>1
        <5>3. \A u \in Threads : pc'[u] \in Installing <=> Underway(u)'
          BY <2>0, <3>1, <3>3, <5>1 DEF Copying, Installing
        <5> QED
          BY <1>1, <5>2, <5>3
      <4>2. CASE ~\E u \in Threads : Underway(u)
        <5>1. copy' = [copy EXCEPT ![t] = "alone"]
          BY <3>3, <4>2 DEF CopyBegins
        <5>2. \A u \in Threads \ {t} : copy'[u] = copy[u] /\ ~Underway(u)
          BY <4>2, <5>1 DEF TypeOK
        <5>3. copy'[t] = "alone"
          BY <5>1 DEF TypeOK
        <5>4. \A u \in Threads : pc'[u] \in Installing <=> Underway(u)'
          BY <2>0, <3>3, <5>2, <5>3 DEF Copying, Installing
        <5>5. \A u, v \in Threads : copy'[u] = "alone" /\ Underway(v)' => u = v
          BY <5>2
        <5>6. \A u \in Threads : copy'[u] = "alone" => Wrote(u)'
          BY <3>3, <5>2
        <5> QED
          BY <1>1, <5>4, <5>5, <5>6
      <4> QED
        BY <4>1, <4>2
    <3> QED
      BY <2>1, <3>2, <3>3 DEF Compare, TypeOK
  <2>2. CASE Install(t)
    <3>1. /\ pc[t] \in Installing /\ pc'[t] \in Installing /\ UNCHANGED <<copy, call>>
      BY <2>2, Installed DEF Install, TypeOK, Installing
    <3>2. \A u \in Threads : pc'[u] \in Installing <=> Underway(u)'
      BY <2>0, <3>1 DEF Copying
    <3>3. Underway(t)
      BY <3>1 DEF Copying
    <3>4. ASSUME NEW u \in Threads, copy'[u] = "alone" PROVE Wrote(u)'
      <4>1. u = t /\ Wrote(t)
        BY <1>0, <3>1, <3>3, <3>4 DEF Copying
      <4>2. current \in Licenses
        BY DEF TypeOK
      <4> QED
        BY <2>2, <3>1, <4>1, <4>2, Installed DEF Store, Licenses, TypeOK
    <3> QED
      BY <1>1, <3>1, <3>2, <3>4 DEF Copying
  <2>3. CASE InstallValid(t) \/ CopyFails(t)
    <3>1. /\ Underway(t) /\ pc'[t] = "ret" /\ UNCHANGED call
          /\ \E k \in {"none", "failed"} : copy' = [copy EXCEPT ![t] = k]
      BY <2>3 DEF InstallValid, CopyFails, Allocating, Copying, Installing, TypeOK
    <3>2. ~Underway(t)' /\ \A u \in Threads \ {t} : copy'[u] = copy[u]
      BY <3>1 DEF TypeOK
    <3>3. \A u \in Threads : copy'[u] # "alone"
      BY <3>1, <3>2 DEF Copying
    <3>4. \A u \in Threads : pc'[u] \in Installing <=> Underway(u)'
      BY <2>0, <3>1, <3>2 DEF Copying, Installing
    <3> QED
      BY <1>1, <3>3, <3>4
  <2>4. CASE ~(Compare(t) \/ Install(t) \/ InstallValid(t) \/ CopyFails(t))
    <3>1. /\ UNCHANGED current /\ pc[t] \notin Installing /\ pc'[t] \notin Installing
      BY <1>4, <2>4, NoCopy DEF Installing
    <3>2. ~Underway(t) /\ ~Underway(t)' /\ \A u \in Threads \ {t} : copy'[u] = copy[u]
      <4>1. ~Underway(t)
        BY <3>1 DEF Copying
      <4>2. CASE UNCHANGED copy
        BY <4>1, <4>2
      <4>3. CASE Return(t)
        BY <4>1, <4>3 DEF Return, TypeOK
      <4> QED
        BY <1>4, <2>4, <4>2, <4>3, NoCopy
    <3> QED
      BY <1>0, <1>1, <2>0, <3>1, <3>2 DEF Copying
  <2> QED
    BY <2>1, <2>2, <2>3, <2>4
<1> QED
  BY <1>2, <1>3, <1>4, Entering DEF Next, Installing

\* A copy that is alone leaves its document in force when it ends.
LEMMA LatestStep ==
    ASSUME TypeOK, Located, Copying, InForceIsLatest, [Next]_vars
    PROVE  InForceIsLatest'
<1>1. CASE Tick \/ MachineChange \/ Race \/ UNCHANGED vars
  BY <1>1 DEF Tick, MachineChange, Race, vars, members, history, licensing,
     InForceIsLatest, InForce
<1>2. ASSUME NEW t \in Threads, NEW c \in CallType, NEW l \in Labels, Call(t, c, l)
      PROVE  InForceIsLatest'
  <2>1. pc[t] = "idle" /\ pc' = [pc EXCEPT ![t] = l] /\ UNCHANGED <<current, mixed, latest>>
    BY <1>2 DEF Call, Goto, members
  <2>2. \A u \in Threads : pc[u] \in Installing => pc'[u] \in Installing
    BY <2>1 DEF TypeOK, Installing
  <2> QED
    BY <2>1, <2>2 DEF InForceIsLatest, InForce
<1>3. ASSUME NEW t \in Threads, ThreadStep(t)
      PROVE  InForceIsLatest'
  <2> USE DEF Goto, Ends, Continues
  <2>0. \A u \in Threads \ {t} : pc'[u] = pc[u]
    BY <1>3, Moves
  <2>1. CASE Compare(t)
    <3>1. pc[t] \notin Installing /\ UNCHANGED <<current, mixed, latest>>
      BY <2>1 DEF Compare, members, Installing
    <3>2. \A u \in Threads : pc[u] \in Installing => pc'[u] \in Installing
      BY <2>0, <3>1
    <3> QED
      BY <3>1, <3>2 DEF InForceIsLatest, InForce
  <2>2. CASE Install(t)
    <3>1. pc'[t] \in Installing
      BY <2>2, Installed DEF TypeOK, Installing
    <3> QED
      BY <3>1 DEF InForceIsLatest
  <2>3. CASE InstallValid(t)
    <3>1. /\ mixed' = (copy[t] # "alone") /\ latest' = call[t].doc /\ pc[t] = "flag"
          /\ Store(t, "valid", TRUE)
      BY <2>3 DEF InstallValid
    <3>2. CASE copy[t] = "alone"
      <4>1. call[t].doc \in Documents
        BY <3>1, InstallStores DEF Installing
      <4>2. current \in Licenses /\ call[t].doc # Nothing
        BY <4>1, NothingAssumption DEF TypeOK
      <4>3. /\ current.hardware_hash = call[t].doc.hardware_hash
            /\ current.features = call[t].doc.features
            /\ current.expiry = call[t].doc.expiry
        BY <3>1, <3>2 DEF Copying
      <4>4. current' = [valid |-> TRUE, hardware_hash |-> current.hardware_hash,
                        features |-> current.features, expiry |-> current.expiry]
        BY <3>1, <4>2 DEF Store, Licenses
      <4>5. current' = LicenseOf(call[t].doc)
        BY <4>3, <4>4 DEF LicenseOf
      <4> QED
        BY <3>1, <4>2, <4>5 DEF InForceIsLatest, InForce
    <3>3. CASE copy[t] # "alone"
      BY <3>1, <3>3 DEF InForceIsLatest
    <3> QED
      BY <3>2, <3>3
  <2>4. CASE CopyFails(t)
    BY <2>4 DEF CopyFails, InForceIsLatest
  <2>5. CASE ~(Compare(t) \/ Install(t) \/ InstallValid(t) \/ CopyFails(t))
    <3>1. UNCHANGED <<current, mixed, latest>> /\ pc[t] \notin Installing
      BY <1>3, <2>5, NoCopy DEF Installing
    <3>2. \A u \in Threads : pc[u] \in Installing => pc'[u] \in Installing
      BY <2>0, <3>1
    <3> QED
      BY <3>1, <3>2 DEF InForceIsLatest, InForce
  <2> QED
    BY <2>1, <2>2, <2>3, <2>4, <2>5
<1> QED
  BY <1>1, <1>2, <1>3, Entering DEF Next

\* A store into a member that a call has not written reaches the call's own record
\* of the license as well.
LEMMA UntouchedByStore ==
    ASSUME TypeOK, NEW t \in Threads, NEW u \in Threads \ {t}, NEW value,
           NEW member \in {"valid", "hardware_hash", "features", "expiry"},
           Store(t, member, value), [current EXCEPT ![member] = value] \in Licenses,
           UNCHANGED <<pc[u], outcome[u]>>, copy[u] = "failed" => copy'[u] = "failed",
           UntouchedBy(u)
    PROVE  UntouchedBy(u)'
<1>1. CASE pc[u] = "idle"
  <2>1. pc'[u] = "idle" /\ outcome'[u] = "none"
    BY <1>1 DEF TypeOK
  <2> QED
    BY <2>1 DEF UntouchedBy, Exceptions
<1>2. CASE pc[u] # "idle"
  <2>1. before'[u] = [before[u] EXCEPT ![member] = value]
        /\ current' = [current EXCEPT ![member] = value]
    BY <1>2 DEF Store
  <2>2. current \in Licenses /\ before[u] \in Licenses
    BY DEF TypeOK
  <2>3. current = before[u] => current' = before'[u]
    BY <2>1
  <2>4. /\ current.valid = before[u].valid => current'.valid = before'[u].valid
        /\ current.hardware_hash = before[u].hardware_hash =>
               current'.hardware_hash = before'[u].hardware_hash
        /\ current.features = before[u].features => current'.features = before'[u].features
        /\ current.expiry = before[u].expiry => current'.expiry = before'[u].expiry
    <3>1. CASE member = "valid"
      BY <2>1, <2>2, <3>1 DEF Licenses
    <3>2. CASE member = "hardware_hash"
      BY <2>1, <2>2, <3>2 DEF Licenses
    <3>3. CASE member = "features"
      BY <2>1, <2>2, <3>3 DEF Licenses
    <3>4. CASE member = "expiry"
      BY <2>1, <2>2, <3>4 DEF Licenses
    <3> QED
      BY <3>1, <3>2, <3>3, <3>4
  <2> QED
    BY <2>3, <2>4 DEF UntouchedBy
<1> QED
  BY <1>1, <1>2

\* Every step leaves what a call has not written as it found it.
LEMMA UntouchedStep ==
    ASSUME TypeOK, Located, Copying, Untouched, [Next]_vars
    PROVE  Untouched'
<1>0. \A u \in Threads : UntouchedBy(u)
  BY DEF Untouched
<1>1. CASE Tick \/ MachineChange \/ Race \/ UNCHANGED vars
  BY <1>1 DEF Tick, MachineChange, Race, vars, members, locals, history, licensing,
     Untouched, UntouchedBy
<1>2. ASSUME NEW t \in Threads, NEW c \in CallType, NEW l \in Labels \ {"idle", "ret"},
             Call(t, c, l)
      PROVE  Untouched'
  <2>1. /\ UNCHANGED <<current, outcome, copy>> /\ pc[t] = "idle"
        /\ pc' = [pc EXCEPT ![t] = l] /\ before' = [before EXCEPT ![t] = current]
    BY <1>2 DEF Call, Goto, members
  <2>2. before'[t] = current /\ outcome[t] \notin Exceptions
    BY <2>1 DEF TypeOK, Exceptions
  <2>3. \A u \in Threads \ {t} : pc'[u] = pc[u] /\ before'[u] = before[u]
    BY <2>1 DEF TypeOK
  <2>4. UntouchedBy(t)'
    BY <2>1, <2>2 DEF UntouchedBy
  <2>5. \A u \in Threads \ {t} : UntouchedBy(u)'
    BY <1>0, <2>1, <2>3 DEF UntouchedBy
  <2> QED
    BY <2>4, <2>5 DEF Untouched
<1>3. ASSUME NEW t \in Threads, ThreadStep(t)
      PROVE  Untouched'
  <2> USE DEF Goto, Ends, Continues
  <2>0. \A u \in Threads \ {t} : pc'[u] = pc[u] /\ outcome'[u] = outcome[u]
    BY <1>3, Moves
  <2>1. CASE Compare(t)
    <3>1. /\ pc[t] = "compare" /\ UNCHANGED <<current, before>>
          /\ \/ pc'[t] = "hardware_hash" /\ outcome'[t] = outcome[t]
             \/ pc'[t] = "ret"
      BY <2>1 DEF Compare, members, TypeOK
    <3>2. outcome[t] \notin Exceptions /\ current \in Licenses /\ before[t] \in Licenses
      BY <3>1 DEF TypeOK, Exceptions
    <3>3. UntouchedBy(t)'
      <4>1. current = before[t]
        BY <1>0, <3>1, <3>2 DEF UntouchedBy, Licenses
      <4> QED
        BY <3>1, <3>2, <4>1 DEF UntouchedBy
    <3>4. \A u \in Threads \ {t} : copy[u] = "failed" => copy'[u] = "failed"
      BY <2>1 DEF Compare, CopyBegins, Underway, TypeOK
    <3>5. \A u \in Threads \ {t} : UntouchedBy(u)'
      BY <1>0, <2>0, <3>1, <3>4 DEF UntouchedBy
    <3> QED
      BY <3>3, <3>5 DEF Untouched
  <2>2. CASE Install(t)
    <3>1. UNCHANGED <<copy, outcome>> /\ pc[t] # "ret"
      BY <2>2, Installed DEF Install
    <3>2. outcome[t] \notin Exceptions /\ current \in Licenses
      BY <3>1 DEF TypeOK, Exceptions
    <3>3. before'[t] = before[t]
      BY <2>2, Installed, InstallStores, Stored
    <3>4. UntouchedBy(t)'
      BY <1>0, <2>2, <3>1, <3>2, <3>3, Installed DEF UntouchedBy, Store, Licenses, TypeOK
    <3>5. \A u \in Threads \ {t} : UntouchedBy(u)'
      BY <1>0, <2>0, <2>2, <3>1, Installed, InstallStores, UntouchedByStore
    <3> QED
      BY <3>4, <3>5 DEF Untouched
  <2>3. CASE InstallValid(t)
    <3>1. /\ pc'[t] = "ret" /\ outcome'[t] \in {"ok", "false"} /\ pc[t] = "flag"
          /\ Store(t, "valid", TRUE) /\ copy' = [copy EXCEPT ![t] = "none"]
      BY <2>3 DEF InstallValid, TypeOK
    <3>2. UntouchedBy(t)'
      BY <3>1 DEF UntouchedBy, Exceptions
    <3>3. \A u \in Threads \ {t} : copy'[u] = copy[u]
      BY <3>1 DEF TypeOK
    <3>4. \A u \in Threads \ {t} : UntouchedBy(u)'
      BY <1>0, <2>0, <3>1, <3>3, InstallStores, UntouchedByStore
    <3> QED
      BY <3>2, <3>4 DEF Untouched
  <2>4. CASE CopyFails(t)
    <3>1. /\ pc'[t] = "ret" /\ pc[t] \in Allocating
          /\ copy' = [copy EXCEPT ![t] = "failed"]
      BY <2>4 DEF CopyFails, TypeOK
    <3>2. copy'[t] = "failed" /\ \A u \in Threads \ {t} : copy'[u] = copy[u]
      BY <3>1 DEF TypeOK
    <3>3. CASE UNCHANGED <<current, before>>
      <4>1. UntouchedBy(t)'
        BY <1>0, <3>1, <3>2, <3>3 DEF UntouchedBy, Allocating
      <4>2. \A u \in Threads \ {t} : UntouchedBy(u)'
        BY <1>0, <2>0, <3>2, <3>3 DEF UntouchedBy
      <4> QED
        BY <4>1, <4>2 DEF Untouched
    <3>4. ASSUME NEW fs, Store(t, "features", fs), [current EXCEPT !.features = fs] \in Licenses
          PROVE  Untouched'
      <4>1. current'.valid = current.valid /\ before'[t] = before[t]
        BY <3>4, Stored DEF TypeOK, Licenses
      <4>2. UntouchedBy(t)'
        BY <1>0, <3>1, <3>2, <4>1 DEF UntouchedBy, Allocating
      <4>3. \A u \in Threads \ {t} : UntouchedBy(u)'
        BY <1>0, <2>0, <3>2, <3>4, UntouchedByStore
      <4> QED
        BY <4>2, <4>3 DEF Untouched
    <3> QED
      BY <2>4, <3>3, <3>4, Failed
  <2>5. CASE ~(Compare(t) \/ Install(t) \/ InstallValid(t) \/ CopyFails(t))
    <3>1. /\ UNCHANGED current
          /\ pc[t] \notin {"features", "expiry", "flag", "compare", "hardware_hash", "idle"}
          /\ pc'[t] \notin {"features", "expiry", "flag", "hardware_hash"}
          /\ UNCHANGED <<copy, before>> \/ Return(t)
      BY <1>3, <2>5, NoCopy
    <3>2. CASE Return(t)
      <4>1. pc'[t] = "idle" /\ outcome'[t] = "none"
        BY <3>2 DEF Return, TypeOK
      <4>2. UntouchedBy(t)'
        BY <4>1 DEF UntouchedBy, Exceptions
      <4>3. \A u \in Threads \ {t} : before'[u] = before[u] /\ copy'[u] = copy[u]
        BY <3>2 DEF Return, TypeOK
      <4>4. \A u \in Threads \ {t} : UntouchedBy(u)'
        BY <1>0, <2>0, <3>1, <4>3 DEF UntouchedBy
      <4> QED
        BY <4>2, <4>4 DEF Untouched
    <3>3. CASE ~Return(t)
      <4>1. UNCHANGED <<copy, before>> /\ current \in Licenses /\ before[t] \in Licenses
        BY <3>1, <3>3 DEF TypeOK
      <4>2. pc[t] # "ret"
        BY <1>3, <2>5, <3>3 DEF ThreadStep, Parse, CheckExpiry, CheckSignature, Probe, ProbeFails,
           RequireValid, ReadValid, ReadFeatures, ReadExpiry, SetConfig, SetConfigFails,
           SetStrict, OutOfMemory, Shortage
      <4>3. current = before[t]
        BY <1>0, <3>1, <4>1, <4>2 DEF UntouchedBy, Licenses
      <4>4. UntouchedBy(t)'
        BY <3>1, <4>1, <4>3 DEF UntouchedBy
      <4>5. \A u \in Threads \ {t} : UntouchedBy(u)'
        BY <1>0, <2>0, <3>1, <4>1 DEF UntouchedBy
      <4> QED
        BY <4>4, <4>5 DEF Untouched
    <3> QED
      BY <3>2, <3>3
  <2> QED
    BY <2>1, <2>2, <2>3, <2>4, <2>5
<1> QED
  BY <1>1, <1>2, <1>3, Entering DEF Next

-----------------------------------------------------------------------------
(* The invariant and what follows from it.                                   *)

\* The inductive invariant before the first call.
LEMMA InvariantInit == Init => IInv
<1> SUFFICES ASSUME Init PROVE IInv
  OBVIOUS
<1>1. TypeOK /\ Located
  BY TypingInit
<1>2. Provenance
  BY DEF Init, Provenance, NoLicense, Granted
<1>3. Times
  BY DEF Init, Times, NewDetector
<1>4. Judged
  BY DEF Init, Judged, JudgedAt, NewDetector, Installing
<1>5. Copying /\ InForceIsLatest /\ Untouched
  BY DEF Init, Copying, Underway, InForceIsLatest, InForce, Untouched, UntouchedBy,
     Installing, Exceptions
<1> QED
  BY <1>1, <1>2, <1>3, <1>4, <1>5 DEF IInv

\* The inductive invariant: what each call knows at each of its labels, what a copy
\* that is alone has written, and what a call has left as it was.
THEOREM Invariance == Spec => []IInv
<1>1. Init => IInv
  BY InvariantInit
<1>2. IInv /\ [Next]_vars => IInv'
  BY TypingStep, ProvenanceStep, TimesStep, JudgedStep, CopyingStep, LatestStep, UntouchedStep
     DEF IInv
<1> QED
  BY <1>1, <1>2, PTL DEF Spec

\* The members, the detector and every call are of their types, whatever the
\* interleaving: no setter, even one that throws, leaves the manager without a
\* working detector (license_manager.cpp:263-275).
THEOREM Typing == Spec => []TypeOK
<1>1. IInv => TypeOK
  BY DEF IInv
<1> QED
  BY <1>1, Invariance, PTL

\* With any number of callers, any interleaving without a data race, and copies that
\* fail midway, a query shows no feature that no accepted document grants.
THEOREM Provenanced == Spec => []FeatureProvenance
<1>1. IInv => FeatureProvenance
  BY DEF IInv, Provenance, Granted, FeatureProvenance
<1> QED
  BY <1>1, Invariance, PTL

\* What is installed is a document for this machine, seen no longer ago than the
\* cache lifetime and under a configuration in force during the call, that had not
\* expired when the call was made, whoever replaces the detector meanwhile.
THEOREM Acceptance == Spec => []AcceptedHere
<1>1. IInv => AcceptedHere
  <2> SUFFICES ASSUME IInv, NEW t \in Threads, pc[t] \in Installing
               PROVE  /\ lastSeen[call[t].doc.hardware_hash[1]] >= began[t] - Lifetime
                      /\ call[t].doc.hardware_hash[2] \in served[t]
                      /\ began[t] <= call[t].doc.expiry
    BY DEF AcceptedHere
  <2>1. call[t] \in LoadCalls /\ JudgedAt(t)
    BY DEF IInv, Located, Checking, Installing, Judged
  <2>2. Loading(t)
    BY <2>1, Arguments DEF Loading
  <2> QED
    BY <2>1, <2>2 DEF JudgedAt, Matches
<1> QED
  BY <1>1, Invariance, PTL

\* Any callers: unless loads copied at the same time or a copy failed, the license
\* in force is the last document that passed every check.
THEOREM LatestInForce == Spec => []InForceIsLatest
<1>1. IInv => InForceIsLatest
  BY DEF IInv
<1> QED
  BY <1>1, Invariance, PTL

\* Any callers: a call that throws changes no license, and one whose copy throws
\* midway does not change whether there is a valid one.
THEOREM Rejection == Spec => []RejectionChangesNothing
<1>1. IInv => RejectionChangesNothing
  BY DEF IInv, Untouched, UntouchedBy, RejectionChangesNothing
<1> QED
  BY <1>1, Invariance, PTL
=============================================================================
