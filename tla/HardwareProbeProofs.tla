------------------------ MODULE HardwareProbeProofs ------------------------
(***************************************************************************)
(* Proofs about HardwareProbe, for any processes, systems and values, and    *)
(* any number of changes, boots and calls.                                   *)
(***************************************************************************)
EXTENDS HardwareProbe, FiniteSetTheorems, SequenceTheorems, TLAPS

-----------------------------------------------------------------------------
(* Sequences.                                                                *)

\* Two equal concatenations whose first parts have the same length have the same parts.
LEMMA Split ==
    ASSUME NEW S, NEW s \in Seq(S), NEW t \in Seq(S), NEW u \in Seq(S), NEW v \in Seq(S),
           s \o t = u \o v, Len(s) = Len(u)
    PROVE  s = u /\ t = v
<1>1. /\ Len(s) \in Nat /\ Len(t) \in Nat /\ Len(v) \in Nat
      /\ Len(s \o t) = Len(s) + Len(t) /\ Len(u \o v) = Len(u) + Len(v)
  BY LenProperties, ConcatProperties
<1>2. Len(t) = Len(v)
  BY <1>1
<1>3. s = u
  <2>1. \A i \in 1 .. Len(s) : (s \o t)[i] = s[i] /\ (u \o v)[i] = u[i]
    BY <1>1, ConcatProperties
  <2> QED
    BY <2>1, SeqEqual
<1>4. t = v
  <2>1. ASSUME NEW i \in 1 .. Len(t)
        PROVE  t[i] = v[i]
    <3>1. i + Len(s) \in 1 .. Len(s) + Len(t) /\ ~(i + Len(s) <= Len(s)) /\ (i + Len(s)) - Len(s) = i
      BY <1>1
    <3>2. (s \o t)[i + Len(s)] = t[i] /\ (u \o v)[i + Len(s)] = v[i]
      BY <1>1, <1>2, <3>1, ConcatProperties, SMTT(30)
    <3> QED
      BY <3>2
  <2> QED
    BY <1>2, <2>1, SeqEqual
<1> QED
  BY <1>3, <1>4

\* Concatenation as an operator of its own, for the first-order steps.
Cat(s, t) == s \o t

\* The type of a concatenation.
LEMMA CatType ==
    ASSUME NEW S, NEW s \in Seq(S), NEW t \in Seq(S)
    PROVE  Cat(s, t) \in Seq(S)
BY ConcatProperties DEF Cat

\* Concatenation is associative.
LEMMA CatAssociative ==
    ASSUME NEW S, NEW r \in Seq(S), NEW s \in Seq(S), NEW t \in Seq(S)
    PROVE  Cat(Cat(r, s), t) = Cat(r, Cat(s, t))
BY ConcatAssociative DEF Cat

\* Split, for Cat.
LEMMA CatSplit ==
    ASSUME NEW S, NEW s \in Seq(S), NEW t \in Seq(S), NEW u \in Seq(S), NEW v \in Seq(S),
           Cat(s, t) = Cat(u, v), Len(s) = Len(u)
    PROVE  s = u /\ t = v
BY Split DEF Cat

\* The same, when the last parts have the same length.
LEMMA CatSplitEnd ==
    ASSUME NEW S, NEW s \in Seq(S), NEW t \in Seq(S), NEW u \in Seq(S), NEW v \in Seq(S),
           Cat(s, t) = Cat(u, v), Len(t) = Len(v)
    PROVE  s = u /\ t = v
<1>1. /\ Len(s) \in Nat /\ Len(u) \in Nat /\ Len(t) \in Nat
      /\ Len(s \o t) = Len(s) + Len(t) /\ Len(u \o v) = Len(u) + Len(v)
  BY LenProperties, ConcatProperties
<1>2. Len(s) = Len(u)
  BY <1>1 DEF Cat
<1> QED
  BY <1>2, CatSplit

\* Two pieces of at most one string: their sequence tells which is missing, if the one
\* is never the other.
LEMMA CatPieces ==
    ASSUME NEW S, NEW b \in Seq(S), NEW c \in Seq(S), NEW f \in Seq(S), NEW g \in Seq(S),
           Len(b) <= 1, Len(c) <= 1, Len(f) <= 1, Len(g) <= 1,
           b = g => b = <<>>, c = f => c = <<>>,
           Cat(b, c) = Cat(f, g)
    PROVE  b = f /\ c = g
<1>1. /\ Len(b) \in Nat /\ Len(c) \in Nat /\ Len(f) \in Nat /\ Len(g) \in Nat
      /\ Len(b) + Len(c) = Len(f) + Len(g)
  BY LenProperties, ConcatProperties DEF Cat
<1>2. \A s \in Seq(S) : (Len(s) = 0 <=> s = <<>>) /\ Cat(s, <<>>) = s /\ Cat(<<>>, s) = s
  BY EmptySeq, ConcatEmptySeq DEF Cat
<1>3. CASE Len(b) = Len(f)
  BY <1>3, CatSplit
<1>4. CASE Len(b) = 1 /\ Len(f) = 0
  <2>1. Len(c) = 0 /\ Len(g) = 1
    BY <1>1, <1>4
  <2>2. c = <<>> /\ f = <<>>
    BY <1>2, <1>4, <2>1
  <2>3. b = g
    BY <1>2, <2>2
  <2> QED
    BY <1>4, <2>3, EmptySeq
<1>5. CASE Len(b) = 0 /\ Len(f) = 1
  <2>1. Len(c) = 1 /\ Len(g) = 0
    BY <1>1, <1>5
  <2>2. b = <<>> /\ g = <<>>
    BY <1>2, <1>5, <2>1
  <2>3. c = f
    BY <1>2, <2>2
  <2> QED
    BY <2>1, <2>3, EmptySeq
<1>6. (Len(b) = 0 \/ Len(b) = 1) /\ (Len(f) = 0 \/ Len(f) = 1)
  <2>1. \A n \in Nat : n <= 1 => n = 0 \/ n = 1
    OBVIOUS
  <2> QED
    BY <1>1, <2>1, Zenon
<1> QED
  BY <1>3, <1>4, <1>5, <1>6

\* Four pieces, of which the second and the third may be missing.
LEMMA FourPieces ==
    ASSUME NEW S, NEW a \in [1..4 -> Seq(S)], NEW b \in [1..4 -> Seq(S)],
           Len(a[1]) = Len(b[1]), Len(a[4]) = Len(b[4]),
           Len(a[2]) <= 1, Len(a[3]) <= 1, Len(b[2]) <= 1, Len(b[3]) <= 1,
           a[2] = b[3] => a[2] = <<>>, a[3] = b[2] => a[3] = <<>>,
           ((a[1] \o a[2]) \o a[3]) \o a[4] = ((b[1] \o b[2]) \o b[3]) \o b[4]
    PROVE  a = b
<1>1. \A k \in 1..4 : a[k] \in Seq(S) /\ b[k] \in Seq(S)
  OBVIOUS
<1>2. /\ a[1] \in Seq(S) /\ a[2] \in Seq(S) /\ a[3] \in Seq(S) /\ a[4] \in Seq(S)
      /\ b[1] \in Seq(S) /\ b[2] \in Seq(S) /\ b[3] \in Seq(S) /\ b[4] \in Seq(S)
  BY <1>1
<1>3. Cat(Cat(Cat(a[1], a[2]), a[3]), a[4]) = Cat(Cat(Cat(b[1], b[2]), b[3]), b[4])
  BY DEF Cat
<1>4. /\ Cat(Cat(a[1], a[2]), a[3]) \in Seq(S) /\ Cat(a[2], a[3]) \in Seq(S)
      /\ Cat(Cat(b[1], b[2]), b[3]) \in Seq(S) /\ Cat(b[2], b[3]) \in Seq(S)
  <2>1. Cat(a[1], a[2]) \in Seq(S) /\ Cat(b[1], b[2]) \in Seq(S)
    BY <1>2, CatType
  <2> QED
    BY <1>2, <2>1, CatType
<1>5. Len(a[1]) = Len(b[1]) /\ Len(a[4]) = Len(b[4])
  OBVIOUS
<1>6. Cat(Cat(a[1], a[2]), a[3]) = Cat(Cat(b[1], b[2]), b[3]) /\ a[4] = b[4]
  BY <1>2, <1>3, <1>4, <1>5, CatSplitEnd
<1>7. /\ Cat(Cat(a[1], a[2]), a[3]) = Cat(a[1], Cat(a[2], a[3]))
      /\ Cat(Cat(b[1], b[2]), b[3]) = Cat(b[1], Cat(b[2], b[3]))
  BY <1>2, CatAssociative
<1>8. a[1] = b[1] /\ Cat(a[2], a[3]) = Cat(b[2], b[3])
  <2>1. Cat(a[1], Cat(a[2], a[3])) = Cat(b[1], Cat(b[2], b[3]))
    BY <1>6, <1>7
  <2>2. a[1] \in Seq(S) /\ b[1] \in Seq(S)
    BY <1>2
  <2> QED
    BY <1>4, <1>5, <2>1, <2>2, CatSplit
<1>9. a[2] = b[2] /\ a[3] = b[3]
  <2>1. /\ Len(a[2]) <= 1 /\ Len(a[3]) <= 1 /\ Len(b[2]) <= 1 /\ Len(b[3]) <= 1
        /\ a[2] = b[3] => a[2] = <<>>
        /\ a[3] = b[2] => a[3] = <<>>
    OBVIOUS
  <2>2. a[2] \in Seq(S) /\ a[3] \in Seq(S) /\ b[2] \in Seq(S) /\ b[3] \in Seq(S)
    BY <1>2
  <2> QED
    BY <1>8, <2>1, <2>2, CatPieces
<1> QED
  BY <1>6, <1>8, <1>9

-----------------------------------------------------------------------------
(* The stream.                                                               *)

\* A value contributes one string to the fingerprint, and a missing one none.
LEMMA PieceType ==
    ASSUME NEW S, NEW v \in S \cup {Missing}
    PROVE  /\ Piece(v) \in Seq(S) /\ Len(Piece(v)) <= 1
           /\ v = Missing <=> Piece(v) = <<>>
           /\ v # Missing => Piece(v) = <<v>> /\ Len(Piece(v)) = 1
           /\ Range(Piece(v)) = {v} \ {Missing}
<1>1. CASE v = Missing
  BY <1>1 DEF Piece, Range
<1>2. CASE v # Missing
  <2>1. Piece(v) = <<v>> /\ v \in S
    BY <1>2 DEF Piece
  <2>2. <<v>> \in Seq(S) /\ Len(<<v>>) = 1 /\ <<v>> # <<>> /\ Range(<<v>>) = {v}
    BY <2>1 DEF Range
  <2> QED
    BY <1>2, <2>1, <2>2
<1> QED
  BY <1>1, <1>2

\* What one place contributes is made of the strings collected.
LEMMA PartType ==
    ASSUME NEW S, NEW rs \in Seq(S \cup {Missing}), NEW k \in Nat
    PROVE  Part(rs, k) \in Seq(S)
<1>1. CASE k \in DOMAIN rs
  <2>1. rs[k] \in S \cup {Missing}
    BY <1>1, LenProperties
  <2> QED
    BY <1>1, <2>1, PieceType DEF Part
<1>2. CASE k \notin DOMAIN rs
  BY <1>2, EmptySeq DEF Part
<1> QED
  BY <1>1, <1>2

\* A fingerprint is made of the strings collected.
LEMMA JoinedType ==
    ASSUME NEW S, NEW rs \in Seq(S \cup {Missing})
    PROVE  Joined(rs) \in Seq(S)
<1>1. /\ Part(rs, 1) \in Seq(S) /\ Part(rs, 2) \in Seq(S)
      /\ Part(rs, 3) \in Seq(S) /\ Part(rs, 4) \in Seq(S)
  BY PartType
<1> QED
  BY <1>1, ConcatProperties DEF Joined

\* Nothing collected, nothing joined.
LEMMA JoinedEmpty == Joined(<<>>) = <<>>
<1>1. <<>> \in Seq({}) /\ \A k \in 1..4 : Part(<<>>, k) = <<>>
  BY DEF Part
<1> QED
  BY <1>1, ConcatEmptySeq DEF Joined

\* Another reading goes to the end of the stream.
LEMMA JoinedAppend ==
    ASSUME NEW S, NEW rs \in Seq(S \cup {Missing}), Len(rs) < 4, NEW v \in S \cup {Missing}
    PROVE  Joined(Append(rs, v)) = Joined(rs) \o Piece(v)
<1> DEFINE T == S \cup {Missing}
           ss == Append(rs, v)
           q == Piece(v)
           e == <<>>
<1>1. /\ ss \in Seq(T) /\ Len(ss) = Len(rs) + 1 /\ ss[Len(rs) + 1] = v
      /\ \A i \in 1 .. Len(rs) : ss[i] = rs[i]
  BY AppendProperties
<1>2. rs \in Seq(T)
  OBVIOUS
<1> HIDE DEF ss, T
<1>3. DOMAIN rs = 1 .. Len(rs) /\ DOMAIN ss = 1 .. Len(ss) /\ Len(rs) \in Nat
  BY <1>1, <1>2, LenProperties
<1>4. Len(rs) \in 0..3
  BY <1>3
<1>5. ASSUME NEW k \in 1..4
      PROVE  /\ k <= Len(rs) => Part(ss, k) = Part(rs, k)
             /\ k = Len(rs) + 1 => Part(ss, k) = q /\ Part(rs, k) = e
             /\ k > Len(rs) + 1 => Part(ss, k) = e /\ Part(rs, k) = e
  BY <1>1, <1>3, <1>4 DEF Part
<1>6. q \in Seq(S) /\ e \in Seq(S)
  BY PieceType, EmptySeq
<1>7. /\ Part(rs, 1) \in Seq(S) /\ Part(rs, 2) \in Seq(S) /\ Part(rs, 3) \in Seq(S)
  BY PartType
<1>8. \A s, t \in Seq(S) : s \o t \in Seq(S)
  BY ConcatProperties
<1>9. \A s \in Seq(S) : s \o e = s /\ e \o s = s
  BY ConcatEmptySeq
<1> HIDE DEF q, e
<1>10. CASE Len(rs) = 0
  <2>1. /\ Part(ss, 1) = q /\ Part(ss, 2) = e /\ Part(ss, 3) = e /\ Part(ss, 4) = e
        /\ Part(rs, 1) = e /\ Part(rs, 2) = e /\ Part(rs, 3) = e /\ Part(rs, 4) = e
    BY <1>5, <1>10
  <2>2. ((q \o e) \o e) \o e = q /\ (((e \o e) \o e) \o e) \o q = q
    BY <1>6, <1>9
  <2> QED
    BY <2>1, <2>2 DEF Joined, q, ss
<1>11. CASE Len(rs) = 1
  <2> DEFINE a == Part(rs, 1)
  <2>1. /\ Part(ss, 1) = a /\ Part(ss, 2) = q /\ Part(ss, 3) = e /\ Part(ss, 4) = e
        /\ Part(rs, 2) = e /\ Part(rs, 3) = e /\ Part(rs, 4) = e
    BY <1>5, <1>11
  <2>2. a \in Seq(S)
    BY <1>7
  <2> HIDE DEF a
  <2>3. a \o q \in Seq(S)
    BY <1>6, <1>8, <2>2
  <2>4. (a \o q) \o e = a \o q /\ a \o e = a
    BY <1>9, <2>2, <2>3
  <2>5. ((a \o q) \o e) \o e = a \o q /\ (((a \o e) \o e) \o e) \o q = a \o q
    BY <2>4
  <2> QED
    BY <2>1, <2>5 DEF Joined, q, ss, a
<1>12. CASE Len(rs) = 2
  <2> DEFINE a == Part(rs, 1)  b == Part(rs, 2)
  <2>1. /\ Part(ss, 1) = a /\ Part(ss, 2) = b /\ Part(ss, 3) = q /\ Part(ss, 4) = e
        /\ Part(rs, 3) = e /\ Part(rs, 4) = e
    BY <1>5, <1>12
  <2>2. a \o b \in Seq(S)
    BY <1>7, <1>8
  <2> HIDE DEF a, b
  <2>3. ((a \o b) \o q) \o e = (a \o b) \o q /\ (((a \o b) \o e) \o e) \o q = (a \o b) \o q
    BY <1>6, <1>8, <1>9, <2>2
  <2> QED
    BY <2>1, <2>3 DEF Joined, q, ss, a, b
<1>13. CASE Len(rs) = 3
  <2> DEFINE a == Part(rs, 1)  b == Part(rs, 2)  c == Part(rs, 3)
  <2>1. /\ Part(ss, 1) = a /\ Part(ss, 2) = b /\ Part(ss, 3) = c /\ Part(ss, 4) = q
        /\ Part(rs, 4) = e
    BY <1>5, <1>13
  <2>2. (a \o b) \o c \in Seq(S)
    BY <1>7, <1>8
  <2> HIDE DEF a, b, c
  <2>3. (((a \o b) \o c) \o e) \o q = ((a \o b) \o c) \o q
    BY <1>9, <2>2
  <2> QED
    BY <2>1, <2>3 DEF Joined, q, ss, a, b, c
<1> QED
  BY <1>4, <1>10, <1>11, <1>12, <1>13 DEF ss, q

\* A fingerprint has at most one string for each component.
LEMMA JoinedLength ==
    ASSUME NEW S, NEW rs \in Seq(S \cup {Missing})
    PROVE  Len(Joined(rs)) <= 4
<1>1. ASSUME NEW k \in 1..4
      PROVE  Part(rs, k) \in Seq(S) /\ Len(Part(rs, k)) \in Nat /\ Len(Part(rs, k)) <= 1
  <2>1. CASE k \in DOMAIN rs
    <3>1. rs[k] \in S \cup {Missing}
      BY <2>1, LenProperties
    <3> QED
      BY <2>1, <3>1, PieceType, LenProperties DEF Part
  <2>2. CASE k \notin DOMAIN rs
    BY <2>2, EmptySeq DEF Part
  <2> QED
    BY <2>1, <2>2
<1>2. \A s, t \in Seq(S) : s \o t \in Seq(S) /\ Len(s \o t) = Len(s) + Len(t)
  BY ConcatProperties
<1> DEFINE a == Part(rs, 1)  b == Part(rs, 2)  c == Part(rs, 3)  d == Part(rs, 4)
<1>3. /\ a \in Seq(S) /\ b \in Seq(S) /\ c \in Seq(S) /\ d \in Seq(S)
      /\ Len(a) \in Nat /\ Len(b) \in Nat /\ Len(c) \in Nat /\ Len(d) \in Nat
      /\ Len(a) <= 1 /\ Len(b) <= 1 /\ Len(c) <= 1 /\ Len(d) <= 1
  BY <1>1
<1>4. Joined(rs) = ((a \o b) \o c) \o d
  BY DEF Joined
<1> HIDE DEF a, b, c, d
<1>5. a \o b \in Seq(S) /\ Len(a \o b) = Len(a) + Len(b)
  BY <1>2, <1>3
<1>6. (a \o b) \o c \in Seq(S) /\ Len((a \o b) \o c) = Len(a \o b) + Len(c)
  BY <1>2, <1>3, <1>5
<1>7. Len(((a \o b) \o c) \o d) = Len((a \o b) \o c) + Len(d)
  BY <1>2, <1>3, <1>6
<1> QED
  BY <1>3, <1>4, <1>5, <1>6, <1>7

-----------------------------------------------------------------------------
(* The blocks.                                                               *)

\* Domains, ranges and last elements of the short sequences of the tables.
LEMMA Elements ==
    ASSUME NEW s, NEW t
    PROVE  /\ DOMAIN <<s>> = {1} /\ DOMAIN <<s, t>> = {1, 2} /\ DOMAIN <<>> = {}
           /\ Range(<<s>>) = {s} /\ Range(<<s, t>>) = {s, t}
           /\ Last(<<s>>) = s /\ Last(<<s, t>>) = t
<1>1. DOMAIN <<s>> = {1} /\ DOMAIN <<s, t>> = {1, 2} /\ DOMAIN <<>> = {}
  <2>1. 1..1 = {1} /\ 1..2 = {1, 2} /\ 1..0 = {}
    OBVIOUS
  <2> QED
    BY <2>1
<1>2. Range(<<s>>) = {s}
  BY <1>1 DEF Range
<1>3. Range(<<s, t>>) = {s, t}
  <2>1. <<s, t>>[1] = s /\ <<s, t>>[2] = t
    OBVIOUS
  <2> QED
    BY <1>1, <2>1, Zenon DEF Range
<1>4. Last(<<s>>) = s /\ Last(<<s, t>>) = t
  BY DEF Last
<1> QED
  BY <1>1, <1>2, <1>3, <1>4

\* The table of the ways to read each component, evaluated.
LEMMA WaysAre ==
    /\ WaysOn("linux", "cpu")      = <<<<"cpuinfo">>, <<"machine-id">>>>
    /\ WaysOn("linux", "mac")      = <<<<"ifaddrs">>>>
    /\ WaysOn("linux", "volume")   = <<<<"mounts", "boot_id">>>>
    /\ WaysOn("linux", "mobo")     = <<<<"board_serial">>>>
    /\ WaysOn("windows", "cpu")    = <<<<"cpuid">>>>
    /\ WaysOn("windows", "mac")    = <<<<"adapters">>>>
    /\ WaysOn("windows", "volume") = <<<<"C:">>>>
    /\ WaysOn("windows", "mobo")   = <<>>
    /\ WaysOn("macos", "cpu")      = <<<<"hw.uuid">>, <<"hw.model">>>>
    /\ WaysOn("macos", "mac")      = <<<<"ifaddrs">>>>
    /\ WaysOn("macos", "volume")   = <<<<"statfs">>>>
    /\ WaysOn("macos", "mobo")     = <<>>
<1>1. \A c : /\ WaysOn("linux", c) = Linux[c]
             /\ WaysOn("windows", c) = Windows[c]
             /\ WaysOn("macos", c) = MacOS[c]
  BY DEF WaysOn
<1> QED
  BY <1>1 DEF Linux, RootVolume, Windows, MacOS

\* A component is read in at most two ways, and the value is that of the last source.
LEMMA Ways ==
    ASSUME NEW p \in Platforms, NEW c \in Components
    PROVE  /\ DOMAIN WaysOn(p, c) \subseteq {1, 2}
           /\ \A i \in DOMAIN WaysOn(p, c) :
                 Last(WaysOn(p, c)[i]) \in Range(WaysOn(p, c)[i])
<1> DEFINE Known(ways) == /\ DOMAIN ways \subseteq {1, 2}
                          /\ \A i \in DOMAIN ways : Last(ways[i]) \in Range(ways[i])
<1>1. ASSUME NEW s, NEW t
      PROVE  Known(<<>>) /\ Known(<<<<s>>>>) /\ Known(<<<<s, t>>>>) /\ Known(<<<<s>>, <<t>>>>)
  <2> DEFINE u == <<s>>  v == <<t>>  w == <<s, t>>
  <2>1. Last(u) \in Range(u) /\ Last(v) \in Range(v) /\ Last(w) \in Range(w)
    <3>1. Last(u) = s /\ Range(u) = {s}
      BY Elements
    <3>2. Last(v) = t /\ Range(v) = {t}
      BY Elements
    <3>3. Last(w) = t /\ Range(w) = {s, t}
      BY Elements
    <3> QED
      BY <3>1, <3>2, <3>3
  <2> HIDE DEF u, v, w
  <2>2. /\ DOMAIN <<u>> = {1} /\ DOMAIN <<w>> = {1} /\ DOMAIN <<u, v>> = {1, 2} /\ DOMAIN <<>> = {}
        /\ <<u>>[1] = u /\ <<w>>[1] = w /\ <<u, v>>[1] = u /\ <<u, v>>[2] = v
    BY Elements
  <2>3. Known(<<>>)
    BY <2>2
  <2>4. Known(<<u>>) /\ Known(<<w>>)
    BY <2>1, <2>2, Zenon
  <2>5. Known(<<u, v>>)
    BY <2>1, <2>2, Zenon
  <2> QED
    BY <2>3, <2>4, <2>5 DEF u, v, w
<1> HIDE DEF Known
<1>2. Known(WaysOn(p, c))
  <2>1. p \in {"linux", "windows", "macos"} /\ c \in {"cpu", "mac", "volume", "mobo"}
    BY DEF Platforms, Components
  <2> QED
    BY <1>1, <2>1, WaysAre, Zenon
<1> QED
  BY <1>2 DEF Known

\* The table of the sources of each component, evaluated.
LEMMA SourcesAre ==
    /\ SourcesOn("linux", "cpu")      = {"cpuinfo", "machine-id"}
    /\ SourcesOn("linux", "mac")      = {"ifaddrs"}
    /\ SourcesOn("linux", "volume")   = {"mounts", "boot_id"}
    /\ SourcesOn("linux", "mobo")     = {"board_serial"}
    /\ SourcesOn("windows", "cpu")    = {"cpuid"}
    /\ SourcesOn("windows", "mac")    = {"adapters"}
    /\ SourcesOn("windows", "volume") = {"C:"}
    /\ SourcesOn("windows", "mobo")   = {}
    /\ SourcesOn("macos", "cpu")      = {"hw.uuid", "hw.model"}
    /\ SourcesOn("macos", "mac")      = {"ifaddrs"}
    /\ SourcesOn("macos", "volume")   = {"statfs"}
    /\ SourcesOn("macos", "mobo")     = {}
<1> DEFINE Of(ways) == UNION {Range(ways[i]) : i \in DOMAIN ways}
<1>1. ASSUME NEW s, NEW t
      PROVE  /\ Of(<<>>) = {} /\ Of(<<<<s>>>>) = {s}
             /\ Of(<<<<s, t>>>>) = {s, t} /\ Of(<<<<s>>, <<t>>>>) = {s, t}
  <2> DEFINE u == <<s>>  v == <<t>>  w == <<s, t>>
  <2>1. Range(u) = {s} /\ Range(v) = {t} /\ Range(w) = {s, t}
    BY Elements
  <2> HIDE DEF u, v, w
  <2>2. /\ DOMAIN <<u>> = {1} /\ DOMAIN <<w>> = {1} /\ DOMAIN <<u, v>> = {1, 2} /\ DOMAIN <<>> = {}
        /\ <<u>>[1] = u /\ <<w>>[1] = w /\ <<u, v>>[1] = u /\ <<u, v>>[2] = v
    BY Elements
  <2>3. Of(<<>>) = {}
    BY <2>2
  <2>4. Of(<<u>>) = {s} /\ Of(<<w>>) = {s, t}
    BY <2>1, <2>2
  <2>5. Of(<<u, v>>) = {s, t}
    BY <2>1, <2>2
  <2> QED
    BY <2>3, <2>4, <2>5 DEF u, v, w
<1>2. \A p, c : SourcesOn(p, c) = Of(WaysOn(p, c))
  BY DEF SourcesOn
<1> HIDE DEF Of
<1>3. /\ \A s : Of(<<<<s>>>>) = {s}
      /\ \A s, t : Of(<<<<s, t>>>>) = {s, t} /\ Of(<<<<s>>, <<t>>>>) = {s, t}
      /\ Of(<<>>) = {}
  BY <1>1
<1>4. /\ SourcesOn("linux", "cpu")      = {"cpuinfo", "machine-id"}
      /\ SourcesOn("linux", "mac")      = {"ifaddrs"}
      /\ SourcesOn("linux", "volume")   = {"mounts", "boot_id"}
      /\ SourcesOn("linux", "mobo")     = {"board_serial"}
  BY <1>2, <1>3, WaysAre, ZenonT(60)
<1>5. /\ SourcesOn("windows", "cpu")    = {"cpuid"}
      /\ SourcesOn("windows", "mac")    = {"adapters"}
      /\ SourcesOn("windows", "volume") = {"C:"}
      /\ SourcesOn("windows", "mobo")   = {}
  BY <1>2, <1>3, WaysAre, ZenonT(60)
<1>6. /\ SourcesOn("macos", "cpu")      = {"hw.uuid", "hw.model"}
      /\ SourcesOn("macos", "mac")      = {"ifaddrs"}
      /\ SourcesOn("macos", "volume")   = {"statfs"}
      /\ SourcesOn("macos", "mobo")     = {}
  BY <1>2, <1>3, WaysAre, ZenonT(60)
<1> QED
  BY <1>4, <1>5, <1>6

\* No two components of one platform share a source.
LEMMA OwnSources ==
    ASSUME NEW p \in Platforms, NEW c \in Components, NEW d \in Components, c # d
    PROVE  SourcesOn(p, c) \cap SourcesOn(p, d) = {}
<1>1. CASE p = "linux"
  BY <1>1, SourcesAre DEF Components
<1>2. CASE p = "windows"
  BY <1>2, SourcesAre DEF Components
<1>3. CASE p = "macos"
  BY <1>3, SourcesAre DEF Components
<1> QED
  BY <1>1, <1>2, <1>3 DEF Platforms

\* Of one or two alternatives, the first is one of them.
LEMMA Smallest ==
    ASSUME NEW T, T \subseteq {1, 2}, T # {}
    PROVE  Min(T) \in T
<1>1. PICK x \in T : \A y \in T : x <= y
  <2>1. CASE 1 \in T
    BY <2>1
  <2>2. CASE 1 \notin T
    <3>1. 2 \in T /\ \A y \in T : y = 2
      BY <2>2
    <3> QED
      BY <3>1
  <2> QED
    BY <2>1, <2>2
<1> QED
  BY <1>1 DEF Min

\* The sources of a component are sources of the machine, or the boot id.
LEMMA AllSources ==
    ASSUME NEW q \in Platforms, NEW d \in Components
    PROVE  SourcesOn(q, d) \subseteq Sources \cup {"boot_id"}
<1> DEFINE All == {SourcesOn(p, c) : p \in Platforms, c \in Components}
<1>1. SourcesOn(q, d) \in All
  OBVIOUS
<1>2. Sources = (UNION All) \ {"boot_id"}
  BY DEF Sources
<1> HIDE DEF All
<1> QED
  BY <1>1, <1>2

\* A way reads sources of its component only.
LEMMA SourcesTaken ==
    ASSUME NEW p \in Platforms, NEW c \in Components, NEW i \in DOMAIN WaysOn(p, c)
    PROVE  /\ Range(WaysOn(p, c)[i]) \subseteq SourcesOn(p, c)
           /\ Range(WaysOn(p, c)[i]) \subseteq Sources \cup {"boot_id"}
           /\ Last(WaysOn(p, c)[i]) \in Sources \cup {"boot_id"}
<1>1. Range(WaysOn(p, c)[i]) \subseteq SourcesOn(p, c)
  BY DEF SourcesOn
<1>2. SourcesOn(p, c) \subseteq Sources \cup {"boot_id"}
  BY AllSources
<1>3. Last(WaysOn(p, c)[i]) \in Range(WaysOn(p, c)[i])
  BY Ways
<1> QED
  BY <1>1, <1>2, <1>3

\* What a source yields is not a placeholder.
LEMMA GoodContent ==
    ASSUME platform \in Platforms, boot \in Nat, NEW c \in Components, NEW m \in Machines,
           NEW opened, Good(m, c, opened) # {}
    PROVE  Content(m, Last(WaysOn(platform, c)[Min(Good(m, c, opened))])) \in Values \cup 1..boot
<1> DEFINE i == Min(Good(m, c, opened))
           way == WaysOn(platform, c)[i]
<1>1. i \in Good(m, c, opened)
  <2>1. Good(m, c, opened) \subseteq {1, 2}
    BY Ways DEF Good
  <2> QED
    BY <2>1, Smallest
<1>2. i \in DOMAIN WaysOn(platform, c) /\ Yields(m, way, opened)
  BY <1>1 DEF Good
<1>3. Last(way) \in Range(way) /\ Last(way) \in Sources \cup {"boot_id"}
  BY <1>2, Ways, SourcesTaken
<1>4. Content(m, Last(way)) # Absent
  BY <1>2, <1>3 DEF Yields
<1>5. m.boot \in 1..boot /\ m.shown \in [Sources -> Values \cup {Absent}]
  BY DEF Machines
<1> HIDE DEF i, way
<1>6. Content(m, Last(way)) \in Values \cup 1..boot
  BY <1>3, <1>4, <1>5 DEF Content
<1> QED
  BY <1>6 DEF i, way

\* A value that was read is no fallback and not missing, and a serial is marked as one.
LEMMA ValueType ==
    ASSUME NEW c \in Components, NEW x \in Values \cup 1..boot
    PROVE  /\ Value(c, x) \in Strings /\ ~IsFallback(Value(c, x)) /\ Value(c, x) # Missing
           /\ Value(c, x)[1] = IF c = "volume" THEN "serial" ELSE "value"
<1>1. Value(c, x)[1] = IF c = "volume" THEN "serial" ELSE "value"
  BY DEF Value
<1>2. Value(c, x) \in {"value", "serial"} \X (Values \cup 1..boot)
  BY DEF Value
<1>3. Value(c, x) \in Strings
  BY <1>2 DEF Strings
<1>4. ~IsFallback(Value(c, x))
  BY <1>1 DEF IsFallback, Components
<1>5. Value(c, x) # Missing
  BY <1>1 DEF Missing
<1> QED
  BY <1>1, <1>3, <1>4, <1>5

\* A missing value is no fallback, and blurring leaves it alone.
LEMMA MissingType ==
    Missing[1] = "missing" /\ ~IsFallback(Missing) /\ BlurOne(Missing) = Missing
BY DEF Missing, IsFallback, BlurOne, Components

\* A fallback carries its component, and there is one.
LEMMA FallbackType ==
    ASSUME NEW c \in Components
    PROVE  /\ generate_secure_fallback(c) # {}
           /\ \A v \in generate_secure_fallback(c) :
                 /\ v[1] = c /\ IsFallback(v) /\ v # Missing /\ BlurOne(v) = <<c, 0>>
                 /\ v \in Strings
<1>1. generate_secure_fallback(c) # {}
  BY EndingsAssumption DEF generate_secure_fallback
<1>2. ASSUME NEW v \in generate_secure_fallback(c)
      PROVE  /\ v[1] = c /\ IsFallback(v) /\ v # Missing /\ BlurOne(v) = <<c, 0>>
             /\ v \in Strings
  <2>1. PICK n \in Endings : v = <<c, n>>
    BY DEF generate_secure_fallback
  <2>2. v[1] = c /\ v \in Components \X Endings
    BY <2>1
  <2>3. IsFallback(v) /\ BlurOne(v) = <<c, 0>>
    BY <2>2 DEF IsFallback, BlurOne
  <2>4. v # Missing
    BY <2>3, MissingType
  <2> QED
    BY <2>2, <2>3, <2>4 DEF Strings
<1> QED
  BY <1>1, <1>2

\* What get_*_impl may return, as a sum of cases.
LEMMA Blocks ==
    ASSUME platform \in Platforms, config \subseteq Components, boot \in Nat,
           NEW c \in Components, NEW m \in Machines, NEW opened, NEW v \in Block(m, c, opened)
    PROVE  \/ c \notin config /\ v = Missing
           \/ /\ c \in config /\ Good(m, c, opened) # {}
              /\ \E x \in Values \cup 1..boot : v = Value(c, x)
           \/ c \in config /\ c = "volume" /\ v = Missing
           \/ /\ c \in config /\ c = "mac" /\ platform = "windows" /\ "adapters" \notin opened
              /\ v = Missing
           \/ c \in config /\ c # "volume" /\ v \in generate_secure_fallback(c)
<1>1. CASE c \notin config
  BY <1>1 DEF Block
<1>2. CASE c \in config /\ Good(m, c, opened) # {}
  <2>1. v = Value(c, Content(m, Last(WaysOn(platform, c)[Min(Good(m, c, opened))])))
    BY <1>2 DEF Block, Read
  <2> QED
    BY <1>2, <2>1, GoodContent
<1>3. CASE c \in config /\ Good(m, c, opened) = {}
  <2>1. v \in Otherwise(c, opened)
    BY <1>3 DEF Block, Read
  <2> QED
    BY <1>3, <2>1 DEF Otherwise
<1> QED
  BY <1>1, <1>2, <1>3

\* What the block of a component may return: a value, nothing, or a fallback.
LEMMA BlockType ==
    ASSUME platform \in Platforms, config \subseteq Components, boot \in Nat,
           NEW c \in Components, NEW m \in Machines, NEW opened, NEW v \in Block(m, c, opened)
    PROVE  v \in Strings \cup {Missing} /\ Fits(c, v)
<1>1. CASE v = Missing
  <2>1. c \notin config \/ c = "volume" \/ (c = "mac" /\ platform = "windows")
    BY <1>1, Blocks, FallbackType, ValueType
  <2> QED
    BY <1>1, <2>1, MissingType DEF Fits
<1>2. CASE c \in config /\ \E x \in Values \cup 1..boot : v = Value(c, x)
  BY <1>2, ValueType DEF Fits
<1>3. CASE c \in config /\ c # "volume" /\ v \in generate_secure_fallback(c)
  BY <1>3, FallbackType DEF Fits
<1> QED
  BY <1>1, <1>2, <1>3, Blocks

-----------------------------------------------------------------------------
(* One instant.                                                              *)

\* With all its sources open, the block returns the component of that machine.
LEMMA ClearCases ==
    ASSUME platform \in Platforms, config \subseteq Components, boot \in Nat,
           NEW c \in Components, NEW m \in Machines,
           NEW opened, opened = SourcesOf(c), NEW v \in Block(m, c, opened)
    PROVE  BlurOne(v) = Clear(m, c)
<1>1. PICK w : w = CHOOSE x \in Block(m, c, SourcesOf(c)) : TRUE
  OBVIOUS
<1>2. w \in Block(m, c, opened)
  BY <1>1
<1>3. Clear(m, c) = BlurOne(w)
  BY <1>1 DEF Clear
<1>4. ~(c = "mac" /\ platform = "windows" /\ "adapters" \notin opened)
  BY SourcesAre DEF SourcesOf
<1>5. CASE c \in config /\ Good(m, c, opened) = {}
  <2>1. v \in Otherwise(c, opened) /\ w \in Otherwise(c, opened)
    BY <1>2, <1>5 DEF Block, Read
  <2>2. CASE c = "volume"
    BY <1>3, <2>1, <2>2 DEF Otherwise
  <2>3. CASE c # "volume"
    <3>1. v \in generate_secure_fallback(c) /\ w \in generate_secure_fallback(c)
      BY <1>4, <2>1, <2>3 DEF Otherwise
    <3>2. BlurOne(v) = BlurOne(w)
      BY <3>1, FallbackType
    <3> QED
      BY <1>3, <3>2
  <2> QED
    BY <2>2, <2>3
<1>6. CASE c \notin config \/ Good(m, c, opened) # {}
  <2>1. v = w
    BY <1>2, <1>6 DEF Block, Read
  <2> QED
    BY <1>3, <2>1
<1> QED
  BY <1>5, <1>6

\* The time does not change what a machine yields.
LEMMA ClearSame ==
    ASSUME platform' = platform, config' = config, NEW c, NEW m
    PROVE  Clear(m, c)' = Clear(m, c)
<1>1. SourcesOf(c)' = SourcesOf(c)
  BY DEF SourcesOf
<1>2. Good(m, c, SourcesOf(c))' = Good(m, c, SourcesOf(c))
  BY <1>1 DEF Good
<1>3. Otherwise(c, SourcesOf(c))' = Otherwise(c, SourcesOf(c))
  BY <1>1 DEF Otherwise
<1>4. Block(m, c, SourcesOf(c))' = Block(m, c, SourcesOf(c))
  BY <1>1, <1>2, <1>3 DEF Block, Read
<1> QED
  BY <1>4 DEF Clear, BlurOne, IsFallback

\* A component depends on what its own sources contain.
LEMMA ClearLocal ==
    ASSUME platform \in Platforms, NEW c \in Components, NEW m, NEW n,
           \A t \in SourcesOf(c) : Content(m, t) = Content(n, t)
    PROVE  Clear(m, c) = Clear(n, c)
<1>1. ASSUME NEW i \in DOMAIN WaysOn(platform, c), NEW t \in Range(WaysOn(platform, c)[i])
      PROVE  Content(m, t) = Content(n, t)
  BY SourcesTaken DEF SourcesOf
<1>2. \A opened : Good(m, c, opened) = Good(n, c, opened)
  BY <1>1 DEF Good, Yields
<1>3. CASE Good(m, c, SourcesOf(c)) = {}
  <2>1. Block(m, c, SourcesOf(c)) = Block(n, c, SourcesOf(c))
    BY <1>2, <1>3 DEF Block, Read
  <2> QED
    BY <2>1 DEF Clear
<1>4. CASE Good(m, c, SourcesOf(c)) # {}
  <2> DEFINE i == Min(Good(m, c, SourcesOf(c)))
  <2>1. i \in DOMAIN WaysOn(platform, c)
    <3>1. Good(m, c, SourcesOf(c)) \subseteq {1, 2}
      BY Ways DEF Good
    <3>2. i \in Good(m, c, SourcesOf(c))
      BY <1>4, <3>1, Smallest
    <3> QED
      BY <3>2 DEF Good
  <2>2. Content(m, Last(WaysOn(platform, c)[i])) = Content(n, Last(WaysOn(platform, c)[i]))
    BY <1>1, <2>1, Ways
  <2>3. Block(m, c, SourcesOf(c)) = Block(n, c, SourcesOf(c))
    BY <1>2, <1>4, <2>2 DEF Block, Read
  <2> QED
    BY <2>3 DEF Clear
<1> QED
  BY <1>3, <1>4

-----------------------------------------------------------------------------
(* The invariant under the passage of time.                                  *)

\* A sequence over a set is one over a larger set.
LEMMA SeqGrows ==
    ASSUME NEW S, NEW T, S \subseteq T, NEW s \in Seq(S)
    PROVE  s \in Seq(T)
<1>1. Len(s) \in Nat /\ s \in [1..Len(s) -> S]
  BY LenProperties
<1>2. s \in [1..Len(s) -> T]
  BY <1>1
<1> QED
  BY <1>1, <1>2, IsASeq

\* Later boots only add strings and machines.
LEMMA StringsGrow ==
    ASSUME boot \in Nat, boot' \in Nat, boot <= boot'
    PROVE  Strings \subseteq Strings' /\ Machines \subseteq Machines'
<1>1. 1..boot \subseteq 1..boot'
  OBVIOUS
<1>2. Strings \subseteq Strings'
  BY <1>1 DEF Strings
<1>3. Machines \subseteq Machines'
  BY <1>1 DEF Machines
<1> QED
  BY <1>2, <1>3

\* The order in which the components are collected, evaluated.
LEMMA Places ==
    /\ Len(Order) = 4 /\ DOMAIN Order = 1..4
    /\ \A k \in 1..4 : Order[k] \in Components
    /\ Order[1] = "cpu" /\ Order[2] = "mac" /\ Order[3] = "volume" /\ Order[4] = "mobo"
<1>1. Order[1] = "cpu" /\ Order[2] = "mac" /\ Order[3] = "volume" /\ Order[4] = "mobo"
  BY DEF Order
<1>2. \A k \in 1..4 : k = 1 \/ k = 2 \/ k = 3 \/ k = 4
  OBVIOUS
<1>3. Len(Order) = 4 /\ DOMAIN Order = 1..4
  BY DEF Order
<1> QED
  BY <1>1, <1>2, <1>3 DEF Components

\* A report that was sound stays sound as time passes.
LEMMA SoundGrows ==
    ASSUME platform' = platform, config' = config, platform \in Platforms,
           boot \in Nat, boot' \in Nat, boot <= boot',
           NEW r, Sound(r)
    PROVE  Sound(r)'
<1>1. Strings \subseteq Strings' /\ Machines \subseteq Machines'
  BY StringsGrow
<1>2. r.readings \in Seq(Strings \cup {Missing})' /\ Len(r.readings) <= Len(Order)
  BY <1>1, SeqGrows DEF Sound
<1>3. DOMAIN r.readings \subseteq 1..4
  BY <1>2, Places, LenProperties
<1>4. \A k \in DOMAIN r.readings : \A m : Clear(m, Order[k])' = Clear(m, Order[k])
  BY <1>3, Places, ClearSame
<1>5. \A k \in DOMAIN r.readings : Fits(Order[k], r.readings[k])'
  BY DEF Sound, Fits
<1>6. r.fingerprint = Joined(r.readings)
  BY DEF Sound
<1>7. /\ ~r.slipped => \A k \in DOMAIN r.readings : \E m \in r.seen :
                           BlurOne(r.readings[k]) = Clear(m, Order[k])'
      /\ IsFiniteSet(r.seen) /\ r.seen \subseteq Machines'
      /\ Cardinality(r.seen) <= 2 => \A m, n \in r.seen : Near(m, n)
  BY <1>1, <1>4 DEF Sound
<1> QED
  BY <1>2, <1>5, <1>6, <1>7 DEF Sound

\* So does the report of a single getter.
LEMMA SingleGrows ==
    ASSUME platform' = platform, config' = config, platform \in Platforms,
           NEW r, Single(r)
    PROVE  Single(r)'
<1>1. \A m : Clear(m, r.of)' = Clear(m, r.of)
  BY ClearSame DEF Single
<1> QED
  BY <1>1 DEF Single, Fits

\* A report is sound if it is sound in the terms of the next state.
LEMMA SoundNow ==
    ASSUME NEW r,
           r.readings \in Seq(Strings \cup {Missing})', Len(r.readings) <= Len(Order),
           r.fingerprint = Joined(r.readings),
           \A k \in DOMAIN r.readings : Fits(Order[k], r.readings[k])',
           ~r.slipped => \A k \in DOMAIN r.readings : \E m \in r.seen :
                             BlurOne(r.readings[k]) = Clear(m, Order[k])',
           IsFiniteSet(r.seen), r.seen \subseteq Machines',
           Cardinality(r.seen) <= 2 => \A m, n \in r.seen : Near(m, n)
    PROVE  Sound(r)'
BY DEF Sound

\* A call that has collected nothing is sound.
LEMMA SoundEmpty ==
    ASSUME NEW r, r.readings = <<>>, r.fingerprint = <<>>, r.seen = {}
    PROVE  Sound(r)'
<1>1. r.readings \in Seq(Strings \cup {Missing})' /\ Len(r.readings) <= Len(Order)
  BY Places, EmptySeq
<1>2. DOMAIN r.readings = {}
  BY Elements
<1>3. r.fingerprint = Joined(r.readings)
  BY JoinedEmpty
<1>4. IsFiniteSet({})
  BY FS_EmptySet
<1> QED
  BY <1>1, <1>2, <1>3, <1>4 DEF Sound

-----------------------------------------------------------------------------
(* The invariant: every step preserves it.                                   *)

\* Every platform has a source to read.
LEMMA SomeSource == Sources # {}
<1>1. "ifaddrs" \in SourcesOn("linux", "mac")
  BY SourcesAre
<1>2. "ifaddrs" \in Sources \cup {"boot_id"}
  BY <1>1, AllSources DEF Platforms, Components
<1> QED
  BY <1>2

\* A machine is near itself.
LEMMA NearSelf ==
    ASSUME NEW m
    PROVE  Near(m, m)
BY SomeSource DEF Near

\* What all calls other than p's share: nothing of theirs is touched.
LEMMA OthersKeep ==
    ASSUME platform' = platform, config' = config, platform \in Platforms,
           boot \in Nat, boot' = boot, shown' = shown,
           NEW q, Sound(Report(q)),
           pc'[q] = pc[q], readings'[q] = readings[q], combined'[q] = combined[q],
           slipped'[q] = slipped[q], seen'[q] = seen[q],
           IF pc[q] = "idle" THEN readings[q] = <<>> ELSE machine \in seen[q]
    PROVE  /\ Sound(Report(q))'
           /\ (IF pc[q] = "idle" THEN readings[q] = <<>> ELSE machine \in seen[q])'
<1>1. Report(q)' = Report(q)
  BY DEF Report
<1>2. Sound(Report(q))'
  BY <1>1, SoundGrows
<1>3. machine' = machine
  BY DEF machine
<1> QED
  BY <1>2, <1>3

\* The calls that ended are history.
LEMMA ReportsKeep ==
    ASSUME platform' = platform, config' = config, platform \in Platforms,
           boot \in Nat, boot' \in Nat, boot <= boot',
           reports' = reports, Reports
    PROVE  Reports'
<1>1. Range(reports)' = Range(reports) /\ Whole' = Whole
  BY DEF Whole
<1>2. ASSUME NEW i \in DOMAIN reports
      PROVE  IF i \in Whole THEN Sound(reports[i])' /\ Len(reports[i].readings) = Len(Order)
                            ELSE Single(reports[i])'
  BY SoundGrows, SingleGrows DEF Reports
<1> QED
  BY <1>1, <1>2 DEF Reports

\* A change of one source leaves a machine near the one before.
LEMMA NearChange ==
    ASSUME NEW s \in Sources, NEW v, shown' = [shown EXCEPT ![s] = v],
           shown \in [Sources -> Values \cup {Absent}], boot' = boot
    PROVE  Near(machine, machine') /\ Near(machine', machine)
<1>1. \A t \in Sources \ {s} : shown'[t] = shown[t]
  OBVIOUS
<1>2. /\ machine.boot = machine'.boot
      /\ machine.shown = shown /\ machine'.shown = shown'
  BY DEF machine
<1> QED
  BY <1>1, <1>2 DEF Near

\* Two machines at most, one of them new: all others are one machine.
LEMMA TwoMachines ==
    ASSUME NEW T, IsFiniteSet(T), NEW m \in T, NEW n, n \notin T,
           Cardinality(T \cup {n}) <= 2
    PROVE  T = {m}
<1>1. Cardinality(T \cup {n}) = Cardinality(T) + 1 /\ Cardinality(T) \in Nat
  BY FS_AddElement, FS_CardinalityType
<1>2. Cardinality(T) <= 1
  BY <1>1
<1>3. IsFiniteSet(T \ {m}) /\ Cardinality(T \ {m}) = Cardinality(T) - 1 /\ Cardinality(T \ {m}) \in Nat
  BY FS_RemoveElement, FS_CardinalityType
<1>4. Cardinality(T \ {m}) = 0
  BY <1>1, <1>2, <1>3
<1>5. T \ {m} = {}
  BY <1>3, <1>4, FS_EmptySet
<1> QED
  BY <1>5

\* A source of the machine changes under the calls in progress.
LEMMA SourceChangeKeeps ==
    ASSUME IInv, SourceChange
    PROVE  IInv'
<1> USE DEF installation
<1>1. PICK s \in Changeable \cap UNION {SourcesOf(c) : c \in config}, v \in Values \cup {Absent} :
         shown' = [shown EXCEPT ![s] = v]
  BY DEF SourceChange
<1>2. s \in Sources
  BY ChangeableAssumption
<1>3. /\ platform' = platform /\ config' = config /\ boot' = boot
      /\ pc' = pc /\ readings' = readings /\ combined' = combined /\ slipped' = slipped
      /\ reports' = reports /\ changes' = changes + 1 /\ changes < MaxChanges
      /\ seen' = [p \in Processes |-> IF pc[p] = "idle" THEN {} ELSE seen[p] \cup {machine'}]
  BY DEF SourceChange, Watched, machine
<1>4. /\ platform \in Platforms /\ boot \in Nat /\ boot \in 1..boot
      /\ shown \in [Sources -> Values \cup {Absent}]
  BY BoundsAssumption DEF IInv, TypeOK
<1>5. shown' \in [Sources -> Values \cup {Absent}]
  BY <1>1, <1>4
<1>6. machine' \in Machines' /\ Strings' = Strings /\ Machines' = Machines
  BY <1>3, <1>4, <1>5 DEF machine, Machines, Strings
<1>7. Near(machine, machine') /\ Near(machine', machine)
  BY <1>1, <1>2, <1>3, <1>4, NearChange
<1>8. ASSUME NEW p \in Processes, pc[p] # "idle"
      PROVE  /\ IsFiniteSet(seen'[p]) /\ seen'[p] \subseteq Machines' /\ machine' \in seen'[p]
             /\ seen[p] \subseteq seen'[p]
             /\ Cardinality(seen'[p]) <= 2 => \A m, n \in seen'[p] : Near(m, n)
  <2>1. seen'[p] = seen[p] \cup {machine'}
    BY <1>3, <1>8
  <2>2. IsFiniteSet(seen[p]) /\ seen[p] \subseteq Machines
    BY DEF IInv, TypeOK
  <2>3. IsFiniteSet(seen'[p])
    BY <2>1, <2>2, FS_AddElement
  <2>4. machine \in seen[p] /\ (Cardinality(seen[p]) <= 2 => \A m, n \in seen[p] : Near(m, n))
    BY <1>8 DEF IInv, Calls, Sound, Report
  <2>5. CASE machine' \in seen[p]
    <3>1. seen'[p] = seen[p]
      BY <2>1, <2>5
    <3> QED
      BY <1>6, <2>2, <2>3, <2>4, <2>5, <3>1
  <2>6. CASE machine' \notin seen[p]
    <3>1. ASSUME Cardinality(seen'[p]) <= 2
          PROVE  \A m, n \in seen'[p] : Near(m, n)
      <4>1. seen[p] = {machine}
        BY <2>1, <2>2, <2>4, <2>6, <3>1, TwoMachines
      <4> QED
        BY <1>7, <2>1, <4>1, NearSelf
    <3> QED
      BY <1>6, <2>1, <2>2, <2>3, <3>1
  <2> QED
    BY <2>5, <2>6
<1>9. TypeOK'
  <2>1. \A p \in Processes : IsFiniteSet(seen'[p]) /\ seen'[p] \subseteq Machines'
    <3>1. ASSUME NEW p \in Processes, pc[p] = "idle"
          PROVE  seen'[p] = {}
      BY <1>3, <3>1
    <3> QED
      BY <1>8, <3>1, FS_EmptySet
  <2>2. seen' \in [Processes -> SUBSET Machines']
    BY <1>3, <2>1
  <2>3. changes' \in 0..MaxChanges
    BY <1>3, BoundsAssumption DEF IInv, TypeOK
  <2> QED
    BY <1>3, <1>5, <1>6, <2>1, <2>2, <2>3 DEF IInv, TypeOK
<1>10. Calls'
  <2>1. SUFFICES ASSUME NEW p \in Processes
                 PROVE  /\ Sound(Report(p))'
                        /\ (IF pc[p] = "idle" THEN readings[p] = <<>> ELSE machine \in seen[p])'
    BY DEF Calls
  <2>2. Sound(Report(p)) /\ IF pc[p] = "idle" THEN readings[p] = <<>> ELSE machine \in seen[p]
    BY DEF IInv, Calls
  <2>3. CASE pc[p] = "idle"
    <3>1. /\ Report(p)'.readings = <<>> /\ Report(p)'.seen = {}
          /\ Report(p)'.fingerprint = combined[p]
      BY <1>3, <2>2, <2>3 DEF Report
    <3>2. combined[p] = Joined(readings[p])
      BY <2>2 DEF Sound, Report
    <3>3. combined[p] = <<>>
      BY <2>2, <2>3, <3>2, JoinedEmpty
    <3> QED
      BY <1>3, <2>2, <2>3, <3>1, <3>3, SoundEmpty
  <2>4. CASE pc[p] # "idle"
    <3> DEFINE r == Report(p)
    <3>1. PICK w : w = r'
      OBVIOUS
    <3>2. /\ w.readings = r.readings /\ w.fingerprint = r.fingerprint
          /\ w.slipped = r.slipped /\ r.seen = seen[p] /\ w.seen = seen'[p]
      BY <1>3, <3>1 DEF Report
    <3>3. Sound(w)'
      <4> HIDE DEF r
      <4>1. Sound(r) /\ r.seen \subseteq w.seen
        BY <1>8, <2>2, <2>4, <3>2 DEF r
      <4>2. /\ w.readings \in Seq(Strings \cup {Missing})' /\ Len(w.readings) <= Len(Order)
            /\ w.fingerprint = Joined(w.readings)
        BY <1>6, <3>2, <4>1 DEF Sound
      <4>3. DOMAIN r.readings \subseteq 1..4
        BY <3>2, <4>2, Places, LenProperties
      <4>4. \A k \in DOMAIN r.readings : \A m : Clear(m, Order[k])' = Clear(m, Order[k])
        BY <1>3, <1>4, <4>3, Places, ClearSame
      <4>5. \A k \in DOMAIN w.readings : Fits(Order[k], w.readings[k])'
        BY <1>3, <3>2, <4>1 DEF Sound, Fits
      <4>6. ~w.slipped => \A k \in DOMAIN w.readings : \E m \in w.seen :
                              BlurOne(w.readings[k]) = Clear(m, Order[k])'
        BY <3>2, <4>1, <4>4, ZenonT(40) DEF Sound
      <4>7. /\ IsFiniteSet(w.seen) /\ w.seen \subseteq Machines'
            /\ Cardinality(w.seen) <= 2 => \A m, n \in w.seen : Near(m, n)
        BY <1>8, <2>4, <3>2
      <4> QED
        BY <4>2, <4>5, <4>6, <4>7, SoundNow
    <3>4. Sound(r)'
      BY <3>1, <3>3
    <3> QED
      BY <1>3, <1>8, <2>4, <3>4
  <2> QED
    BY <2>3, <2>4
<1>11. Reports'
  BY <1>3, <1>4, ReportsKeep DEF IInv
<1> QED
  BY <1>9, <1>10, <1>11 DEF IInv

\* The machine boots again, and the calls in progress are gone.
LEMMA RebootKeeps ==
    ASSUME IInv, Reboot
    PROVE  IInv'
<1>1. /\ platform' = platform /\ config' = config /\ boot' = boot + 1
      /\ shown' = shown /\ changes' = changes /\ reports' = reports /\ boot < MaxBoots
  BY DEF Reboot, installation
<1>2. \A p \in Processes :
         /\ pc'[p] = "idle" /\ readings'[p] = <<>> /\ combined'[p] = <<>>
         /\ slipped'[p] = FALSE /\ seen'[p] = {}
  BY DEF Reboot
<1>3. platform \in Platforms /\ boot \in Nat /\ boot' \in Nat /\ boot <= boot'
  BY <1>1, BoundsAssumption DEF IInv, TypeOK
<1>4. TypeOK'
  <2>1. Strings' = Strings' /\ <<>> \in Seq(Strings') /\ <<>> \in Seq(Strings' \cup {Missing})
    BY EmptySeq
  <2>2. /\ readings' \in [Processes -> Seq(Strings \cup {Missing})']
        /\ combined' \in [Processes -> Seq(Strings)']
        /\ pc' \in [Processes -> {"idle", "collect"}] /\ slipped' \in [Processes -> BOOLEAN]
    BY <2>1 DEF Reboot
  <2>3. \A p \in Processes : Len(readings'[p]) <= Len(Order) /\ IsFiniteSet(seen'[p])
    <3>1. Len(<<>>) <= Len(Order) /\ IsFiniteSet({})
      BY Places, FS_EmptySet
    <3> QED
      BY <1>2, <3>1
  <2>4. seen' \in [Processes -> SUBSET Machines']
    BY DEF Reboot
  <2>5. boot' \in 1..MaxBoots
    BY <1>1, BoundsAssumption DEF IInv, TypeOK
  <2> QED
    BY <1>1, <2>2, <2>3, <2>4, <2>5 DEF IInv, TypeOK
<1>5. Calls'
  <2>1. SUFFICES ASSUME NEW p \in Processes
                 PROVE  /\ Sound(Report(p))'
                        /\ (IF pc[p] = "idle" THEN readings[p] = <<>> ELSE machine \in seen[p])'
    BY DEF Calls
  <2>2. /\ Report(p)'.readings = <<>> /\ Report(p)'.seen = {}
        /\ Report(p)'.fingerprint = <<>>
    BY <1>2 DEF Report
  <2> QED
    BY <1>2, <2>2, SoundEmpty
<1>6. Reports'
  BY <1>1, <1>3, ReportsKeep DEF IInv
<1> QED
  BY <1>4, <1>5, <1>6 DEF IInv

\* A call begins, and has seen the machine as it is.
LEMMA BeginKeeps ==
    ASSUME IInv, NEW p \in Processes, Begin(p)
    PROVE  IInv'
<1>1. /\ platform' = platform /\ config' = config /\ boot' = boot
      /\ shown' = shown /\ changes' = changes /\ reports' = reports /\ readings' = readings
      /\ combined' = combined /\ slipped' = slipped /\ pc[p] = "idle"
      /\ pc' = [pc EXCEPT ![p] = "collect"] /\ seen' = [seen EXCEPT ![p] = {machine}]
  BY DEF Begin, environment
<1>2. /\ platform \in Platforms /\ boot \in Nat
      /\ boot \in 1..boot /\ shown \in [Sources -> Values \cup {Absent}]
      /\ pc \in [Processes -> {"idle", "collect"}]
  BY BoundsAssumption DEF IInv, TypeOK
<1>3. machine \in Machines /\ Strings' = Strings /\ Machines' = Machines /\ machine' = machine
  BY <1>1, <1>2 DEF machine, Machines, Strings
<1>4. seen'[p] = {machine} /\ \A q \in Processes \ {p} : seen'[q] = seen[q] /\ pc'[q] = pc[q]
  BY <1>1, <1>2 DEF IInv, TypeOK
<1>5. TypeOK'
  <2>1. IsFiniteSet({machine}) /\ {machine} \subseteq Machines
    BY <1>3, FS_Singleton
  <2>2. /\ \A q \in Processes : IsFiniteSet(seen'[q])
        /\ seen' \in [Processes -> SUBSET Machines']
    BY <1>1, <1>3, <1>4, <2>1 DEF IInv, TypeOK
  <2> QED
    BY <1>1, <1>2, <1>3, <2>2 DEF IInv, TypeOK
<1>6. Calls'
  <2>1. SUFFICES ASSUME NEW q \in Processes
                 PROVE  /\ Sound(Report(q))'
                        /\ (IF pc[q] = "idle" THEN readings[q] = <<>> ELSE machine \in seen[q])'
    BY DEF Calls
  <2>2. Sound(Report(q)) /\ IF pc[q] = "idle" THEN readings[q] = <<>> ELSE machine \in seen[q]
    BY DEF IInv, Calls
  <2>3. CASE q # p
    BY <1>1, <1>2, <1>4, <2>2, <2>3, OthersKeep
  <2>4. CASE q = p
    <3>1. PICK w : w = Report(p)'
      OBVIOUS
    <3>2. readings[p] = <<>> /\ Sound(Report(p))
      BY <1>1, <2>2, <2>4
    <3>3. /\ w.readings = <<>> /\ w.seen = {machine} /\ w.fingerprint = combined[p]
      BY <1>1, <1>4, <3>1, <3>2 DEF Report
    <3>4. w.fingerprint = Joined(w.readings)
      BY <3>2, <3>3 DEF Sound, Report
    <3>5. /\ w.readings \in Seq(Strings \cup {Missing})' /\ Len(w.readings) <= Len(Order)
          /\ DOMAIN w.readings = {}
      BY <3>3, EmptySeq, Places, Elements
    <3>6. /\ IsFiniteSet(w.seen) /\ w.seen \subseteq Machines'
          /\ \A m, n \in w.seen : Near(m, n)
      BY <1>3, <3>3, FS_Singleton, NearSelf
    <3>7. Sound(w)'
      BY <3>4, <3>5, <3>6, SoundNow
    <3>8. pc'[p] # "idle" /\ machine' \in seen'[p]
      BY <1>1, <1>2, <1>3, <1>4
    <3> QED
      BY <2>4, <3>1, <3>7, <3>8
  <2> QED
    BY <2>3, <2>4
<1>7. Reports'
  BY <1>1, <1>2, ReportsKeep DEF IInv
<1> QED
  BY <1>5, <1>6, <1>7 DEF IInv

\* A call that collects is in front of block Component(p).
LEMMA NextBlock ==
    ASSUME IInv, NEW p \in Processes, ~Finished(p)
    PROVE  /\ readings[p] \in Seq(Strings \cup {Missing}) /\ Len(readings[p]) \in 0..3
           /\ DOMAIN readings[p] = 1..Len(readings[p])
           /\ Component(p) = Order[Len(readings[p]) + 1] /\ Component(p) \in Components
<1>1. readings[p] \in Seq(Strings \cup {Missing}) /\ Len(readings[p]) <= 4
  BY Places DEF IInv, TypeOK
<1>2. Len(readings[p]) # 4
  BY Places DEF Finished
<1>3. Len(readings[p]) \in 0..3 /\ DOMAIN readings[p] = 1..Len(readings[p])
  <2>1. Len(readings[p]) \in Nat /\ DOMAIN readings[p] = 1..Len(readings[p])
    BY <1>1, LenProperties
  <2>2. \A n \in Nat : n <= 4 /\ n # 4 => n \in 0..3
    OBVIOUS
  <2> QED
    BY <1>1, <1>2, <2>1, <2>2
<1>4. Component(p) = Order[Len(readings[p]) + 1]
  BY DEF Component
<1>5. Component(p) \in Components
  <2>1. \A n \in 0..3 : n + 1 \in 1..4
    OBVIOUS
  <2>2. Len(readings[p]) + 1 \in 1..4
    BY <1>3, <2>1
  <2> QED
    BY <1>4, <2>2, Places
<1> QED
  BY <1>1, <1>3, <1>4, <1>5

\* A call collects its next component.
LEMMA CollectKeeps ==
    ASSUME IInv, NEW p \in Processes, Collect(p)
    PROVE  IInv'
<1>1. /\ platform' = platform /\ config' = config /\ boot' = boot
      /\ shown' = shown /\ changes' = changes /\ reports' = reports /\ pc' = pc /\ seen' = seen
      /\ pc[p] = "collect" /\ ~Finished(p)
  BY DEF Collect, environment
<1>2. /\ platform \in Platforms /\ boot \in Nat /\ config \subseteq Components
      /\ boot \in 1..boot /\ shown \in [Sources -> Values \cup {Absent}]
  BY BoundsAssumption DEF IInv, TypeOK
<1>3. machine \in Machines /\ machine' = machine /\ Machines' = Machines
  BY <1>1, <1>2 DEF machine, Machines
<1> DEFINE c == Component(p)
           rs == readings[p]
           k == Len(readings[p]) + 1
<1>4. PICK opened, v :
         /\ opened \in Openings(c) /\ v \in Block(machine, c, opened)
         /\ readings' = [readings EXCEPT ![p] = Append(@, v)]
         /\ combined' = [combined EXCEPT ![p] = @ \o Piece(v)]
         /\ slipped' = [slipped EXCEPT ![p] = @ \/ opened # SourcesOf(c)]
  BY DEF Collect
<1>5. /\ rs \in Seq(Strings \cup {Missing}) /\ Len(rs) \in 0..3 /\ DOMAIN rs = 1..Len(rs)
      /\ c = Order[k] /\ c \in Components
  BY <1>1, NextBlock
<1>6. Len(rs) < 4 /\ Len(rs) + 1 <= Len(Order)
  <2>1. \A n \in 0..3 : n < 4 /\ n + 1 <= 4
    OBVIOUS
  <2> QED
    BY <1>5, <2>1, Places
<1>7. boot' \in Nat /\ boot <= boot'
  BY <1>1, <1>2
<1>8. v \in Strings \cup {Missing} /\ Fits(c, v)
  BY <1>2, <1>3, <1>4, <1>5, BlockType
<1>9. Strings \subseteq Strings' /\ v \in Strings' \cup {Missing}
  <2>1. Strings \subseteq Strings'
    BY <1>1, <1>2, <1>7, StringsGrow
  <2> QED
    BY <1>8, <2>1
<1>10. rs \in Seq(Strings' \cup {Missing})
  BY <1>5, <1>9, SeqGrows
<1>11. /\ readings'[p] = Append(rs, v) /\ combined'[p] = combined[p] \o Piece(v)
       /\ slipped'[p] <=> slipped[p] \/ opened # SourcesOf(c)
       /\ \A q \in Processes \ {p} : /\ readings'[q] = readings[q] /\ combined'[q] = combined[q]
                                     /\ slipped'[q] = slipped[q]
  BY <1>4 DEF IInv, TypeOK
<1> HIDE DEF c, rs, k
<1>12. /\ Append(rs, v) \in Seq(Strings' \cup {Missing}) /\ Len(Append(rs, v)) = Len(rs) + 1
       /\ DOMAIN Append(rs, v) = 1..Len(rs) + 1
       /\ Append(rs, v)[Len(rs) + 1] = v /\ \A i \in 1..Len(rs) : Append(rs, v)[i] = rs[i]
  BY <1>9, <1>10, AppendProperties, LenProperties
<1>13. TypeOK'
  <2>1. Piece(v) \in Seq(Strings') /\ combined[p] \in Seq(Strings')
    <3>1. combined[p] \in Seq(Strings)
      BY DEF IInv, TypeOK
    <3> QED
      BY <1>9, <3>1, SeqGrows, PieceType
  <2>2. combined[p] \o Piece(v) \in Seq(Strings')
    BY <2>1, ConcatProperties
  <2>3. \A q \in Processes : combined[q] \in Seq(Strings') /\ readings[q] \in Seq(Strings' \cup {Missing})
    <3>1. Strings \cup {Missing} \subseteq Strings' \cup {Missing}
      BY <1>9
    <3> QED
      BY <1>9, <3>1, SeqGrows DEF IInv, TypeOK
  <2>4. combined' \in [Processes -> Seq(Strings')]
    BY <1>4, <2>2, <2>3 DEF IInv, TypeOK
  <2>5. readings' \in [Processes -> Seq(Strings' \cup {Missing})]
    BY <1>4, <1>12, <2>3 DEF IInv, TypeOK, rs
  <2>6. \A q \in Processes : Len(readings'[q]) <= Len(Order)
    <3>1. Len(readings'[p]) <= Len(Order)
      BY <1>6, <1>11, <1>12
    <3> QED
      BY <1>11, <3>1 DEF IInv, TypeOK
  <2>7. slipped' \in [Processes -> BOOLEAN]
    BY <1>4 DEF IInv, TypeOK
  <2> QED
    BY <1>1, <1>3, <1>7, <2>4, <2>5, <2>6, <2>7 DEF IInv, TypeOK
<1>14. Calls'
  <2>1. SUFFICES ASSUME NEW q \in Processes
                 PROVE  /\ Sound(Report(q))'
                        /\ (IF pc[q] = "idle" THEN readings[q] = <<>> ELSE machine \in seen[q])'
    BY DEF Calls
  <2>2. Sound(Report(q)) /\ IF pc[q] = "idle" THEN readings[q] = <<>> ELSE machine \in seen[q]
    BY DEF IInv, Calls
  <2>3. CASE q # p
    BY <1>1, <1>2, <1>7, <1>11, <2>2, <2>3, OthersKeep
  <2>4. CASE q = p
    <3>1. PICK w : w = Report(p)'
      OBVIOUS
    <3>2. /\ w.readings = Append(rs, v) /\ w.fingerprint = combined[p] \o Piece(v)
          /\ w.seen = seen[p] /\ w.slipped = slipped'[p]
      BY <1>1, <1>11, <3>1 DEF Report
    <3>3. /\ combined[p] = Joined(rs)
          /\ \A i \in DOMAIN rs : Fits(Order[i], rs[i])
          /\ ~slipped[p] => \A i \in DOMAIN rs : \E m \in seen[p] :
                               BlurOne(rs[i]) = Clear(m, Order[i])
          /\ IsFiniteSet(seen[p]) /\ seen[p] \subseteq Machines /\ machine \in seen[p]
          /\ Cardinality(seen[p]) <= 2 => \A m, n \in seen[p] : Near(m, n)
      BY <1>1, <2>2, <2>4 DEF Sound, Report, rs
    <3>4. w.fingerprint = Joined(w.readings)
      <4>1. Joined(Append(rs, v)) = Joined(rs) \o Piece(v)
        BY <1>6, <1>9, <1>10, JoinedAppend
      <4> QED
        BY <3>2, <3>3, <4>1
    <3>5. w.readings \in Seq(Strings \cup {Missing})' /\ Len(w.readings) <= Len(Order)
      BY <1>6, <1>12, <3>2
    <3>6. DOMAIN w.readings = DOMAIN rs \cup {k} /\ w.readings[k] = v /\ Order[k] = c
          /\ \A i \in DOMAIN rs : w.readings[i] = rs[i]
      BY <1>5, <1>12, <3>2 DEF k, rs
    <3>7. \A i \in DOMAIN w.readings : Fits(Order[i], w.readings[i])'
      <4>1. \A i \in DOMAIN w.readings : Fits(Order[i], w.readings[i])
        BY <1>8, <3>3, <3>6
      <4> QED
        BY <1>1, <4>1 DEF Fits
    <3>8. ASSUME ~w.slipped, NEW i \in DOMAIN w.readings
          PROVE  \E m \in w.seen : BlurOne(w.readings[i]) = Clear(m, Order[i])'
      <4>1. ~slipped[p] /\ opened = SourcesOf(c)
        BY <1>11, <3>2, <3>8
      <4>2. \E m \in w.seen : BlurOne(w.readings[i]) = Clear(m, Order[i])
        <5>1. CASE i = k
          <6>1. BlurOne(v) = Clear(machine, c)
            BY <1>2, <1>3, <1>4, <1>5, <4>1, ClearCases
          <6> QED
            BY <3>2, <3>3, <3>6, <5>1, <6>1
        <5>2. CASE i \in DOMAIN rs
          BY <3>2, <3>3, <3>6, <4>1, <5>2
        <5> QED
          BY <3>6, <5>1, <5>2
      <4>3. Order[i] \in Components
        BY <3>5, Places, LenProperties
      <4> QED
        BY <1>1, <1>2, <1>7, <4>2, <4>3, ClearSame
    <3>9. Sound(w)'
      BY <1>3, <3>2, <3>3, <3>4, <3>5, <3>7, <3>8, SoundNow
    <3> QED
      BY <1>1, <1>3, <2>4, <3>1, <3>3, <3>9
  <2> QED
    BY <2>3, <2>4
<1>15. Reports'
  BY <1>1, <1>2, <1>7, ReportsKeep DEF IInv
<1> QED
  BY <1>13, <1>14, <1>15 DEF IInv

\* A report more.
LEMMA ReportsAppend ==
    ASSUME reports \in Seq(Range(reports)), NEW r, reports' = Append(reports, r)
    PROVE  /\ DOMAIN reports' = DOMAIN reports \cup {Len(reports) + 1}
           /\ Len(reports) + 1 \notin DOMAIN reports /\ reports'[Len(reports) + 1] = r
           /\ \A i \in DOMAIN reports : reports'[i] = reports[i]
           /\ reports' \in Seq(Range(reports'))
<1> DEFINE T == Range(reports) \cup {r}
<1>1. reports \in Seq(T) /\ r \in T
  BY SeqGrows
<1>2. /\ reports' \in Seq(T) /\ Len(reports') = Len(reports) + 1 /\ reports'[Len(reports) + 1] = r
      /\ \A i \in 1 .. Len(reports) : reports'[i] = reports[i]
  BY <1>1, AppendProperties
<1>3. DOMAIN reports = 1..Len(reports) /\ DOMAIN reports' = 1..Len(reports') /\ Len(reports) \in Nat
  BY <1>1, <1>2, LenProperties
<1>4. DOMAIN reports' = DOMAIN reports \cup {Len(reports) + 1} /\ Len(reports) + 1 \notin DOMAIN reports
  BY <1>2, <1>3
<1>5. \A i \in DOMAIN reports : reports[i] \in Range(reports)
  BY DEF Range
<1>6. T \subseteq Range(reports')
  BY <1>2, <1>3, <1>4 DEF Range
<1> HIDE DEF T
<1> QED
  BY <1>2, <1>3, <1>4, <1>6, SeqGrows

\* A call joins and hashes what it collected.
LEMMA HashKeeps ==
    ASSUME IInv, NEW p \in Processes, Hash(p)
    PROVE  IInv'
<1>1. /\ platform' = platform /\ config' = config /\ boot' = boot
      /\ shown' = shown /\ changes' = changes /\ Finished(p)
      /\ pc' = [pc EXCEPT ![p] = "idle"] /\ readings' = [readings EXCEPT ![p] = <<>>]
      /\ combined' = [combined EXCEPT ![p] = <<>>] /\ slipped' = [slipped EXCEPT ![p] = FALSE]
      /\ seen' = [seen EXCEPT ![p] = {}]
  BY DEF Hash, Ends, environment
<1>2. reports' = IF combined[p] # <<>> THEN Append(reports, Report(p)) ELSE reports
  BY DEF Hash
<1>3. /\ platform \in Platforms /\ boot \in Nat
      /\ boot' \in Nat /\ boot <= boot'
  BY <1>1, BoundsAssumption DEF IInv, TypeOK
<1>4. machine' = machine /\ Strings' = Strings /\ Machines' = Machines
  BY <1>1 DEF machine, Machines, Strings
<1>5. /\ pc'[p] = "idle" /\ readings'[p] = <<>> /\ combined'[p] = <<>> /\ seen'[p] = {}
      /\ \A q \in Processes \ {p} :
            /\ pc'[q] = pc[q] /\ readings'[q] = readings[q] /\ combined'[q] = combined[q]
            /\ slipped'[q] = slipped[q] /\ seen'[q] = seen[q]
  BY <1>1 DEF IInv, TypeOK
<1>6. Sound(Report(p)) /\ Sound(Report(p))'
  <2>1. PICK w : w = Report(p)
    OBVIOUS
  <2>2. Sound(w)
    BY <2>1 DEF IInv, Calls
  <2>3. Sound(w)'
    BY <1>1, <1>3, <2>2, SoundGrows
  <2>4. Sound(Report(p))'
    BY <1>5, SoundEmpty DEF Report
  <2> QED
    BY <2>1, <2>2, <2>4
<1>7. PICK w : w = Report(p)
  OBVIOUS
<1>8. Sound(w)' /\ Len(w.readings) = Len(Order) /\ w.of = "all"
  <2>1. Sound(w)'
    BY <1>1, <1>3, <1>6, <1>7, SoundGrows
  <2> QED
    BY <1>1, <1>7, <2>1 DEF Report, Finished
<1>9. w.fingerprint = combined[p] /\ (combined[p] # <<>> => Len(w.fingerprint) \in 1..Len(Order))
  <2>1. w.fingerprint = combined[p] /\ combined[p] \in Seq(Strings)
    BY <1>7 DEF Report, IInv, TypeOK
  <2>2. Len(w.fingerprint) <= 4
    BY <1>6, <1>7, JoinedLength DEF Sound
  <2>3. combined[p] # <<>> => Len(combined[p]) \in Nat \ {0}
    BY <2>1, EmptySeq
  <2> QED
    <3>1. \A n \in Nat \ {0} : n <= 4 => n \in 1..4
      OBVIOUS
    <3>2. Len(Order) = 4
      BY Places
    <3> QED
      BY <2>1, <2>2, <2>3, <3>1, <3>2, Zenon
<1>10. TypeOK'
  <2>1. /\ pc' \in [Processes -> {"idle", "collect"}]
        /\ readings' \in [Processes -> Seq(Strings \cup {Missing})]
        /\ combined' \in [Processes -> Seq(Strings)]
        /\ slipped' \in [Processes -> BOOLEAN]
        /\ seen' \in [Processes -> SUBSET Machines]
    <3>1. <<>> \in Seq(Strings) /\ <<>> \in Seq(Strings \cup {Missing})
      BY EmptySeq
    <3> QED
      BY <1>1, <3>1 DEF IInv, TypeOK
  <2>2. \A q \in Processes : Len(readings'[q]) <= Len(Order) /\ IsFiniteSet(seen'[q])
    <3>1. Len(<<>>) <= Len(Order) /\ IsFiniteSet({})
      BY Places, FS_EmptySet
    <3> QED
      BY <1>5, <3>1 DEF IInv, TypeOK
  <2>3. \A i \in DOMAIN reports' : Len(reports'[i].fingerprint) \in 1..Len(Order)
    <3>1. CASE combined[p] = <<>>
      BY <1>2, <3>1 DEF IInv, TypeOK
    <3>2. CASE combined[p] # <<>>
      <4>1. reports' = Append(reports, w)
        BY <1>2, <1>7, <3>2
      <4> QED
        BY <1>9, <3>2, <4>1, ReportsAppend DEF IInv, TypeOK, Reports
    <3> QED
      BY <3>1, <3>2
  <2> QED
    BY <1>1, <1>4, <2>1, <2>2, <2>3 DEF IInv, TypeOK
<1>11. Calls'
  <2>1. SUFFICES ASSUME NEW q \in Processes
                 PROVE  /\ Sound(Report(q))'
                        /\ (IF pc[q] = "idle" THEN readings[q] = <<>> ELSE machine \in seen[q])'
    BY DEF Calls
  <2>2. CASE q # p
    <3>1. /\ Sound(Report(q))
          /\ IF pc[q] = "idle" THEN readings[q] = <<>> ELSE machine \in seen[q]
      BY DEF IInv, Calls
    <3>2. /\ pc'[q] = pc[q] /\ readings'[q] = readings[q] /\ combined'[q] = combined[q]
          /\ slipped'[q] = slipped[q] /\ seen'[q] = seen[q]
      BY <1>5, <2>2
    <3> QED
      BY <1>1, <1>3, <3>1, <3>2, OthersKeep
  <2>3. CASE q = p
    BY <1>5, <1>6, <2>3
  <2> QED
    BY <2>2, <2>3
<1>12. Reports'
  <2>1. CASE combined[p] = <<>>
    <3>1. reports' = reports
      BY <1>2, <2>1
    <3> QED
      BY <1>1, <1>3, <3>1, ReportsKeep DEF IInv
  <2>2. CASE combined[p] # <<>>
    <3>1. reports' = Append(reports, w)
      BY <1>2, <1>7, <2>2
    <3>2. /\ DOMAIN reports' = DOMAIN reports \cup {Len(reports) + 1}
          /\ reports'[Len(reports) + 1] = w
          /\ \A i \in DOMAIN reports : reports'[i] = reports[i]
          /\ reports' \in Seq(Range(reports'))
      BY <3>1, ReportsAppend DEF IInv, Reports
    <3>3. ASSUME NEW i \in DOMAIN reports'
          PROVE  IF reports'[i].of = "all" THEN Sound(reports[i])' /\ Len(reports'[i].readings) = Len(Order)
                                           ELSE Single(reports[i])'
      <4>1. CASE i = Len(reports) + 1
        BY <1>8, <3>2, <4>1
      <4>2. CASE i \in DOMAIN reports
        <5>1. PICK r : r = reports[i] /\ r = reports'[i]
          BY <3>2, <4>2
        <5>2. IF r.of = "all" THEN Sound(r) /\ Len(r.readings) = Len(Order) ELSE Single(r)
          BY <4>2, <5>1 DEF IInv, Reports, Whole
        <5>3. IF r.of = "all" THEN Sound(r)' /\ Len(r.readings) = Len(Order) ELSE Single(r)'
          BY <1>1, <1>3, <5>2, SoundGrows, SingleGrows
        <5> QED
          BY <5>1, <5>3
      <4> QED
        BY <3>2, <4>1, <4>2
    <3> QED
      BY <3>2, <3>3 DEF Reports, Whole
  <2> QED
    BY <2>1, <2>2
<1> QED
  BY <1>10, <1>11, <1>12 DEF IInv

\* A getter reads its one component.
LEMMA GetOneKeeps ==
    ASSUME IInv, NEW p \in Processes, NEW c \in Components, GetOne(p, c)
    PROVE  IInv'
<1>1. /\ platform' = platform /\ config' = config /\ boot' = boot /\ shown' = shown
      /\ changes' = changes /\ pc' = pc /\ readings' = readings /\ combined' = combined
      /\ slipped' = slipped /\ seen' = seen
  BY DEF GetOne, environment
<1>2. /\ platform \in Platforms /\ boot \in Nat /\ config \subseteq Components
      /\ boot \in 1..boot /\ shown \in [Sources -> Values \cup {Absent}]
  BY BoundsAssumption DEF IInv, TypeOK
<1>3. machine \in Machines /\ machine' = machine /\ Machines' = Machines
  BY <1>1, <1>2 DEF machine, Machines
<1>4. PICK opened, v :
         /\ opened \in Openings(c) /\ v \in Block(machine, c, opened)
         /\ Answers(c, v, opened)
  BY DEF GetOne
<1>5. PICK w : w = [of |-> c, fingerprint |-> <<v>>, readings |-> <<v>>,
                    seen |-> {machine}, slipped |-> opened # SourcesOf(c)]
  OBVIOUS
<1>6. reports' = Append(reports, w)
  BY <1>4, <1>5 DEF Answers
<1>7. boot' \in Nat /\ boot <= boot'
  BY <1>1, <1>2, <1>6
<1>8. Fits(c, v)
  BY <1>2, <1>3, <1>4, BlockType
<1>9. PICK n : n = Len(reports) + 1
  OBVIOUS
<1>10. /\ DOMAIN reports' = DOMAIN reports \cup {n} /\ n \notin DOMAIN reports
       /\ reports'[n] = w /\ \A i \in DOMAIN reports : reports'[i] = reports[i]
       /\ reports' \in Seq(Range(reports'))
  BY <1>6, <1>9, ReportsAppend DEF IInv, Reports
<1>11. /\ w.of = c /\ w.readings = <<v>> /\ w.fingerprint = <<v>> /\ w.seen = {machine}
       /\ w.readings[1] = v /\ Len(w.fingerprint) = 1
       /\ (w.slipped <=> opened # SourcesOf(c))
  BY <1>5
<1>12. Single(w) /\ w.of # "all"
  <2>1. ~w.slipped => \A m \in w.seen : BlurOne(w.readings[1]) = Clear(m, w.of)
    BY <1>2, <1>3, <1>4, <1>11, ClearCases
  <2> QED
    BY <1>8, <1>11, <2>1 DEF Single, Components
<1>13. TypeOK'
  <2>1. Strings \subseteq Strings'
    BY <1>2, <1>7, StringsGrow
  <2>2. \A q \in Processes : combined[q] \in Seq(Strings') /\ readings[q] \in Seq(Strings' \cup {Missing})
    <3>1. Strings \cup {Missing} \subseteq Strings' \cup {Missing}
      BY <2>1
    <3> QED
      BY <2>1, <3>1, SeqGrows DEF IInv, TypeOK
  <2>3. /\ combined' \in [Processes -> Seq(Strings')]
        /\ readings' \in [Processes -> Seq(Strings' \cup {Missing})]
    BY <1>1, <2>2 DEF IInv, TypeOK
  <2>4. \A i \in DOMAIN reports' : Len(reports'[i].fingerprint) \in 1..Len(Order)
    <3>1. 1 \in 1..Len(Order)
      BY Places
    <3> QED
      BY <1>10, <1>11, <3>1 DEF IInv, TypeOK
  <2> QED
    BY <1>1, <1>3, <1>7, <2>3, <2>4 DEF IInv, TypeOK
<1>14. Calls'
  <2>1. SUFFICES ASSUME NEW q \in Processes
                 PROVE  /\ Sound(Report(q))'
                        /\ (IF pc[q] = "idle" THEN readings[q] = <<>> ELSE machine \in seen[q])'
    BY DEF Calls
  <2>2. /\ Sound(Report(q))
        /\ IF pc[q] = "idle" THEN readings[q] = <<>> ELSE machine \in seen[q]
    BY DEF IInv, Calls
  <2> QED
    BY <1>1, <1>2, <1>7, <2>2, OthersKeep
<1>15. Reports'
  <2>1. ASSUME NEW i \in DOMAIN reports'
        PROVE  IF reports'[i].of = "all" THEN Sound(reports[i])' /\ Len(reports'[i].readings) = Len(Order)
                                         ELSE Single(reports[i])'
    <3>1. PICK r : r = reports'[i]
      OBVIOUS
    <3>2. IF r.of = "all" THEN Sound(r) /\ Len(r.readings) = Len(Order) ELSE Single(r)
      <4>1. CASE i = n
        BY <1>10, <1>12, <3>1, <4>1
      <4>2. CASE i \in DOMAIN reports
        BY <1>10, <3>1, <4>2 DEF IInv, Reports, Whole
      <4> QED
        BY <1>10, <4>1, <4>2
    <3>3. IF r.of = "all" THEN Sound(r)' /\ Len(r.readings) = Len(Order) ELSE Single(r)'
      BY <1>1, <1>2, <1>7, <3>2, SoundGrows, SingleGrows
    <3> QED
      BY <3>1, <3>3
  <2> QED
    BY <1>10, <2>1 DEF Reports, Whole
<1> QED
  BY <1>13, <1>14, <1>15 DEF IInv

\* Before the first call.
LEMMA InitHolds ==
    ASSUME Init
    PROVE  IInv
<1>1. PICK h \in Hosts : platform = h.platform /\ config = h.config /\ shown = h.shown
  BY DEF Init
<1>2. /\ platform \in Platforms /\ config \subseteq Components
      /\ shown \in [Sources -> Values \cup {Absent}]
  BY <1>1, HostsAssumption
<1>3. /\ boot = 1 /\ changes = 0 /\ reports = <<>>
      /\ \A p \in Processes : /\ pc[p] = "idle" /\ readings[p] = <<>> /\ combined[p] = <<>>
                              /\ seen[p] = {}
  BY DEF Init
<1>4. DOMAIN reports = {}
  BY <1>3, Elements
<1>5. TypeOK
  <2>1. <<>> \in Seq(Strings) /\ <<>> \in Seq(Strings \cup {Missing})
    BY EmptySeq
  <2>2. \A p \in Processes : Len(readings[p]) <= Len(Order) /\ IsFiniteSet(seen[p])
    <3>1. Len(<<>>) <= Len(Order) /\ IsFiniteSet({})
      BY Places, FS_EmptySet
    <3> QED
      BY <1>3, <3>1
  <2>3. boot \in 1..MaxBoots /\ changes \in 0..MaxChanges
    BY <1>3, BoundsAssumption
  <2> QED
    BY <1>2, <1>4, <2>1, <2>2, <2>3 DEF Init, TypeOK
<1>6. Calls
  <2>1. SUFFICES ASSUME NEW p \in Processes
                 PROVE  Sound(Report(p)) /\ pc[p] = "idle" /\ readings[p] = <<>>
    BY DEF Calls
  <2>2. PICK w : w = Report(p)
    OBVIOUS
  <2>3. w.readings = <<>> /\ w.fingerprint = <<>> /\ w.seen = {}
    BY <1>3, <2>2 DEF Report
  <2>4. /\ w.readings \in Seq(Strings \cup {Missing}) /\ Len(w.readings) <= Len(Order)
        /\ DOMAIN w.readings = {} /\ w.fingerprint = Joined(w.readings) /\ IsFiniteSet(w.seen)
    BY <2>3, EmptySeq, Places, Elements, JoinedEmpty, FS_EmptySet
  <2>5. Sound(w)
    BY <2>3, <2>4 DEF Sound
  <2> QED
    BY <1>3, <2>2, <2>5
<1>7. Reports
  <2>1. reports \in Seq(Range(reports))
    BY <1>3, EmptySeq
  <2> QED
    BY <1>4, <2>1 DEF Reports
<1> QED
  BY <1>5, <1>6, <1>7 DEF IInv

\* A step that changes nothing.
LEMMA StutterKeeps ==
    ASSUME IInv, UNCHANGED vars
    PROVE  IInv'
<1>1. /\ platform' = platform /\ config' = config /\ boot' = boot
      /\ shown' = shown /\ changes' = changes /\ reports' = reports /\ pc' = pc
      /\ readings' = readings /\ combined' = combined /\ slipped' = slipped /\ seen' = seen
  BY DEF vars
<1>2. /\ platform \in Platforms /\ boot \in Nat
      /\ boot' \in Nat /\ boot <= boot'
  BY <1>1, BoundsAssumption DEF IInv, TypeOK
<1>3. Strings' = Strings /\ Machines' = Machines
  BY <1>1 DEF Machines, Strings
<1>4. TypeOK'
  BY <1>1, <1>3 DEF IInv, TypeOK
<1>5. Calls'
  <2>1. SUFFICES ASSUME NEW q \in Processes
                 PROVE  /\ Sound(Report(q))'
                        /\ (IF pc[q] = "idle" THEN readings[q] = <<>> ELSE machine \in seen[q])'
    BY DEF Calls
  <2>2. /\ Sound(Report(q))
        /\ IF pc[q] = "idle" THEN readings[q] = <<>> ELSE machine \in seen[q]
    BY DEF IInv, Calls
  <2> QED
    BY <1>1, <1>2, <2>2, OthersKeep
<1>6. Reports'
  BY <1>1, <1>2, ReportsKeep DEF IInv
<1> QED
  BY <1>4, <1>5, <1>6 DEF IInv

\* What was read, what the stream holds and which machines were seen fit together, in
\* every call and in every report.
THEOREM Invariance == Spec => []IInv
<1>1. Init => IInv
  BY InitHolds
<1>2. IInv /\ [Next]_vars => IInv'
  <2> SUFFICES ASSUME IInv, [Next]_vars
               PROVE  IInv'
    OBVIOUS
  <2>1. CASE SourceChange
    BY <2>1, SourceChangeKeeps
  <2>2. CASE Reboot
    BY <2>2, RebootKeeps
  <2>3. ASSUME NEW p \in Processes, Begin(p)
        PROVE  IInv'
    BY <2>3, BeginKeeps
  <2>4. ASSUME NEW p \in Processes, Collect(p)
        PROVE  IInv'
    BY <2>4, CollectKeeps
  <2>5. ASSUME NEW p \in Processes, Hash(p)
        PROVE  IInv'
    BY <2>5, HashKeeps
  <2>6. ASSUME NEW p \in Processes, NEW c \in Components, GetOne(p, c)
        PROVE  IInv'
    BY <2>6, GetOneKeeps
  <2>7. CASE UNCHANGED vars
    BY <2>7, StutterKeeps
  <2> QED
    BY <2>1, <2>2, <2>3, <2>4, <2>5, <2>6, <2>7 DEF Next
<1> QED
  BY <1>1, <1>2, PTL DEF Spec

\* The variables of HardwareProbe, the streams and the machines seen keep their types
\* (compute_hash, hardware_fingerprint.cpp:231-326).
THEOREM Typing == Spec => []TypeOK
<1>1. IInv => TypeOK
  BY DEF IInv
<1> QED
  BY <1>1, Invariance, PTL

-----------------------------------------------------------------------------
(* The properties.                                                           *)

\* The four readings of a fingerprint.
LEMMA Four ==
    ASSUME IInv, NEW i \in Whole
    PROVE  LET r == reports[i]
           IN  /\ Sound(r) /\ Len(r.readings) = 4 /\ DOMAIN r.readings = 1..4
               /\ r.readings \in [1..4 -> Strings \cup {Missing}]
               /\ r.fingerprint = Joined(r.readings)
               /\ \A k \in 1..4 : Part(r.readings, k) = Piece(r.readings[k])
<1>1. PICK r : r = reports[i]
  OBVIOUS
<1>2. Sound(r) /\ Len(r.readings) = 4
  BY <1>1, Places DEF IInv, Reports, Whole
<1>3. r.readings \in Seq(Strings \cup {Missing}) /\ r.fingerprint = Joined(r.readings)
  BY <1>2 DEF Sound
<1>4. DOMAIN r.readings = 1..4 /\ r.readings \in [1..4 -> Strings \cup {Missing}]
  BY <1>2, <1>3, LenProperties
<1>5. \A k \in 1..4 : Part(r.readings, k) = Piece(r.readings[k])
  BY <1>4 DEF Part
<1> QED
  BY <1>1, <1>2, <1>3, <1>4, <1>5

\* A piece tells the reading, and whether it is one.
LEMMA PieceTells ==
    ASSUME NEW S, NEW v \in S \cup {Missing}, NEW w \in S \cup {Missing}, Missing \notin S
    PROVE  /\ Piece(v) = Piece(w) => v = w
           /\ Len(Piece(v)) = IF v = Missing THEN 0 ELSE 1
<1>1. \A x \in S \cup {Missing} : Piece(x) = IF x = Missing THEN <<>> ELSE <<x>>
  BY DEF Piece
<1>2. \A x : Len(<<x>>) = 1 /\ <<x>>[1] = x
  OBVIOUS
<1>3. Len(<<>>) = 0
  OBVIOUS
<1>4. CASE v = Missing /\ w = Missing
  BY <1>1, <1>3, <1>4
<1>5. CASE v = Missing /\ w # Missing
  BY <1>1, <1>2, <1>3, <1>5
<1>6. CASE v # Missing /\ w = Missing
  BY <1>1, <1>2, <1>3, <1>6
<1>7. CASE v # Missing /\ w # Missing
  BY <1>1, <1>2, <1>7
<1> QED
  BY <1>4, <1>5, <1>6, <1>7

\* No string that was read is the missing value.
LEMMA NoMissing ==
    ASSUME NEW v \in Strings
    PROVE  v # Missing /\ v[1] \in {"value", "serial"} \cup Components
<1>1. v[1] \in {"value", "serial"} \cup Components
  BY DEF Strings
<1> QED
  BY <1>1, MissingType DEF Components

\* Equal fingerprints come from equal components, the missing ones included.
LEMMA SameReadings ==
    ASSUME IInv
    PROVE  SameFingerprintSameComponents
<1> SUFFICES ASSUME NEW i \in Whole, NEW j \in Whole,
                    reports[i].fingerprint = reports[j].fingerprint
             PROVE  reports[i].readings = reports[j].readings
  BY DEF SameFingerprintSameComponents
<1>1. PICK r, s : r = reports[i].readings /\ s = reports[j].readings
  OBVIOUS
<1>2. /\ r \in [1..4 -> Strings \cup {Missing}] /\ s \in [1..4 -> Strings \cup {Missing}]
      /\ Joined(r) = Joined(s)
      /\ \A k \in 1..4 : Part(r, k) = Piece(r[k]) /\ Part(s, k) = Piece(s[k])
      /\ \A k \in 1..4 : Fits(Order[k], r[k]) /\ Fits(Order[k], s[k])
  BY <1>1, Four DEF Sound
<1>3. Missing \notin Strings /\ \A k \in 1..4 : r[k] \in Strings \cup {Missing} /\ s[k] \in Strings \cup {Missing}
  BY <1>2, NoMissing
<1> DEFINE a == [k \in 1..4 |-> Piece(r[k])]
           b == [k \in 1..4 |-> Piece(s[k])]
<1>4. a \in [1..4 -> Seq(Strings)] /\ b \in [1..4 -> Seq(Strings)]
  BY <1>3, PieceType
<1>5. \A k \in 1..4 : /\ Len(a[k]) = IF r[k] = Missing THEN 0 ELSE 1
                      /\ Len(b[k]) = IF s[k] = Missing THEN 0 ELSE 1
  BY <1>3, PieceTells
<1>6. ((a[1] \o a[2]) \o a[3]) \o a[4] = ((b[1] \o b[2]) \o b[3]) \o b[4]
  <2>1. /\ Part(r, 1) = a[1] /\ Part(r, 2) = a[2] /\ Part(r, 3) = a[3] /\ Part(r, 4) = a[4]
        /\ Part(s, 1) = b[1] /\ Part(s, 2) = b[2] /\ Part(s, 3) = b[3] /\ Part(s, 4) = b[4]
    BY <1>2
  <2> HIDE DEF a, b
  <2>2. /\ Joined(r) = ((a[1] \o a[2]) \o a[3]) \o a[4]
        /\ Joined(s) = ((b[1] \o b[2]) \o b[3]) \o b[4]
    BY <2>1 DEF Joined
  <2> QED
    BY <1>2, <2>2
<1>7. /\ Fits("cpu", r[1]) /\ Fits("mac", r[2]) /\ Fits("volume", r[3]) /\ Fits("mobo", r[4])
      /\ Fits("cpu", s[1]) /\ Fits("mac", s[2]) /\ Fits("volume", s[3]) /\ Fits("mobo", s[4])
  BY <1>2, Places
<1>8. Len(a[1]) = Len(b[1]) /\ Len(a[4]) = Len(b[4])
  <2>1. \A c, v, w : c \in {"cpu", "mobo"} /\ Fits(c, v) /\ Fits(c, w) => (v = Missing <=> w = Missing)
    BY MissingType DEF Fits
  <2> QED
    BY <1>5, <1>7, <2>1
<1>9. \A v, w : Fits("mac", v) /\ Fits("volume", w) /\ v = w => v = Missing
  BY MissingType DEF Fits
<1>10. (a[2] = b[3] => a[2] = <<>>) /\ (a[3] = b[2] => a[3] = <<>>)
  <2>1. Piece(r[2]) = Piece(s[3]) => r[2] = s[3]
    BY <1>3, PieceTells
  <2>2. Piece(r[3]) = Piece(s[2]) => r[3] = s[2]
    BY <1>3, PieceTells
  <2>3. Piece(Missing) = <<>>
    BY DEF Piece
  <2> QED
    BY <1>7, <1>9, <2>1, <2>2, <2>3
<1>11. Len(a[2]) <= 1 /\ Len(a[3]) <= 1 /\ Len(b[2]) <= 1 /\ Len(b[3]) <= 1
  BY <1>5
<1>12. a = b
  <2> HIDE DEF a, b
  <2> QED
    BY <1>4, <1>6, <1>8, <1>10, <1>11, FourPieces
<1>13. \A k \in 1..4 : Piece(r[k]) = Piece(s[k])
  <2>1. \A k \in 1..4 : a[k] = Piece(r[k]) /\ b[k] = Piece(s[k])
    OBVIOUS
  <2> QED
    BY <1>12, <2>1
<1>14. \A k \in 1..4 : r[k] = s[k]
  BY <1>3, <1>13, PieceTells
<1>15. r = s
  BY <1>2, <1>14
<1> QED
  BY <1>1, <1>15

\* A call that saw one machine saw no other.
LEMMA SeenSame ==
    ASSUME NEW T, IsFiniteSet(T), NEW m \in T, NEW n \in T, Cardinality(T) = 1
    PROVE  m = n
<1>1. IsFiniteSet(T \ {m}) /\ Cardinality(T \ {m}) = Cardinality(T) - 1
  BY FS_RemoveElement
<1>2. T \ {m} = {}
  BY <1>1, FS_EmptySet
<1> QED
  BY <1>2

\* What a fingerprint has for a component is what the one machine seen yields.
LEMMA OneMachine ==
    ASSUME IInv, NEW i \in Whole, Steady(reports[i]), NEW m \in reports[i].seen, NEW k \in 1..4
    PROVE  BlurOne(reports[i].readings[k]) = Clear(m, Order[k])
<1>1. PICK r : r = reports[i]
  OBVIOUS
<1>2. Sound(r) /\ DOMAIN r.readings = 1..4
  BY <1>1, Four
<1>3. IsFiniteSet(r.seen) /\ Cardinality(r.seen) = 1 /\ ~r.slipped
  BY <1>1, <1>2 DEF Sound, Steady
<1>4. PICK n \in r.seen : BlurOne(r.readings[k]) = Clear(n, Order[k])
  BY <1>2, <1>3 DEF Sound
<1>5. m = n
  BY <1>1, <1>3, <1>4, SeenSame
<1> QED
  BY <1>1, <1>4, <1>5

\* A steady call saw some machine.
LEMMA SeenSome ==
    ASSUME IInv, NEW i \in Whole, Steady(reports[i])
    PROVE  \E m : m \in reports[i].seen
<1>1. Cardinality(reports[i].seen) = 1
  BY DEF Steady
<1>2. Cardinality({}) = 0
  BY FS_EmptySet
<1> QED
  BY <1>1, <1>2

\* The fallbacks are all that is blurred.
LEMMA BlurTells ==
    ASSUME NEW v, NEW w, BlurOne(v) = BlurOne(w), ~IsFallback(v)
    PROVE  v = w
<1>1. BlurOne(v) = v
  BY DEF BlurOne
<1>2. CASE IsFallback(w)
  <2>1. PICK x : x = w[1]
    OBVIOUS
  <2>2. v = <<x, 0>>
    BY <1>1, <1>2, <2>1 DEF BlurOne
  <2>3. v[1] = w[1]
    BY <2>1, <2>2
  <2> QED
    BY <1>2, <2>3 DEF IsFallback
<1>3. CASE ~IsFallback(w)
  BY <1>1, <1>3 DEF BlurOne
<1> QED
  BY <1>2, <1>3

\* Two steady calls on the same machine report the same, if no fallback was drawn.
LEMMA SameAgain ==
    ASSUME IInv
    PROVE  Reproducible
<1> SUFFICES ASSUME NEW i \in Whole, NEW j \in Whole, Steady(reports[i]), Steady(reports[j]),
                    reports[i].seen = reports[j].seen, ~WithFallback(reports[i])
             PROVE  reports[i].fingerprint = reports[j].fingerprint
  BY DEF Reproducible
<1>1. PICK m : m \in reports[i].seen
  BY SeenSome
<1>2. PICK r, s : r = reports[i].readings /\ s = reports[j].readings
  OBVIOUS
<1>3. /\ r \in [1..4 -> Strings \cup {Missing}] /\ s \in [1..4 -> Strings \cup {Missing}]
      /\ DOMAIN r = 1..4
      /\ reports[i].fingerprint = Joined(r) /\ reports[j].fingerprint = Joined(s)
  BY <1>2, Four
<1>4. \A k \in 1..4 : ~IsFallback(r[k])
  BY <1>2, <1>3 DEF WithFallback
<1>5. \A k \in 1..4 : BlurOne(r[k]) = BlurOne(s[k])
  BY <1>1, <1>2, OneMachine
<1>6. \A k \in 1..4 : r[k] = s[k]
  BY <1>4, <1>5, BlurTells
<1>7. r = s
  BY <1>3, <1>6
<1> QED
  BY <1>3, <1>7

\* Only the volume serial of Linux knows which boot it is.
LEMMA BootApart ==
    ASSUME platform \in Platforms, NEW c \in Components, NEW m, NEW n, m.shown = n.shown,
           ~(platform = "linux" /\ c = "volume")
    PROVE  Clear(m, c) = Clear(n, c)
<1>1. "boot_id" \notin SourcesOf(c)
  <2>1. CASE platform = "linux"
    BY <2>1, SourcesAre DEF SourcesOf, Components
  <2>2. CASE platform = "windows"
    BY <2>2, SourcesAre DEF SourcesOf, Components
  <2>3. CASE platform = "macos"
    BY <2>3, SourcesAre DEF SourcesOf, Components
  <2> QED
    BY <2>1, <2>2, <2>3 DEF Platforms
<1>2. \A t \in SourcesOf(c) : Content(m, t) = Content(n, t)
  BY <1>1 DEF Content
<1> QED
  BY <1>2, ClearLocal

\* The volume serial of Linux is the boot id, once the root file system is found.
LEMMA RootSerial ==
    ASSUME platform = "linux", boot \in Nat, NEW m \in Machines
    PROVE  Clear(m, "volume") = IF "volume" \in config /\ m.shown["mounts"] # Absent
                                THEN <<"serial", m.boot>> ELSE Missing
<1> DEFINE way == <<"mounts", "boot_id">>
           good == Good(m, "volume", SourcesOf("volume"))
<1>1. /\ DOMAIN WaysOn(platform, "volume") = {1} /\ WaysOn(platform, "volume")[1] = way
      /\ SourcesOf("volume") = {"mounts", "boot_id"}
  BY WaysAre, SourcesAre DEF SourcesOf
<1>2. Range(way) = {"mounts", "boot_id"} /\ Last(way) = "boot_id"
  BY Elements
<1>3. Content(m, "boot_id") = m.boot /\ Content(m, "mounts") = m.shown["mounts"] /\ m.boot # Absent
  BY AbsentAssumption DEF Content, Machines
<1> HIDE DEF way
<1>4. good = IF m.shown["mounts"] # Absent THEN {1} ELSE {}
  BY <1>1, <1>2, <1>3 DEF Good, Yields
<1> HIDE DEF good
<1>5. CASE "volume" \in config /\ m.shown["mounts"] # Absent
  <2>1. Min({1}) = 1
    BY Smallest
  <2>2. Block(m, "volume", SourcesOf("volume")) = {Value("volume", m.boot)}
    BY <1>1, <1>2, <1>3, <1>4, <1>5, <2>1 DEF Block, Read, good
  <2>3. Clear(m, "volume") = BlurOne(Value("volume", m.boot))
    BY <2>2 DEF Clear
  <2>4. m.boot \in Values \cup 1..boot
    BY DEF Machines
  <2>5. ~IsFallback(Value("volume", m.boot))
    BY <2>4, ValueType DEF Components
  <2> QED
    BY <1>5, <2>3, <2>5 DEF BlurOne, Value
<1>6. CASE ~("volume" \in config /\ m.shown["mounts"] # Absent)
  <2>1. Block(m, "volume", SourcesOf("volume")) = {Missing}
    BY <1>4, <1>6 DEF Block, Read, Otherwise, good
  <2>2. Clear(m, "volume") = BlurOne(Missing)
    BY <2>1 DEF Clear
  <2> QED
    BY <1>6, <2>2, MissingType
<1> QED
  BY <1>5, <1>6

\* Two steady calls on one machine in two boots differ in the serial of Linux alone.
LEMMA OtherBoot ==
    ASSUME IInv
    PROVE  AcrossBoots
<1> SUFFICES ASSUME NEW i \in Whole, NEW j \in Whole, Steady(reports[i]), Steady(reports[j]),
                    ~WithFallback(reports[i]), NEW m \in reports[i].seen, NEW n \in reports[j].seen,
                    m.shown = n.shown, m.boot # n.boot
             PROVE  reports[i].fingerprint = reports[j].fingerprint
                        <=> platform # "linux" \/ reports[i].readings[3] = Missing
  BY DEF AcrossBoots
<1>1. PICK r, s : r = reports[i].readings /\ s = reports[j].readings
  OBVIOUS
<1>2. /\ r \in [1..4 -> Strings \cup {Missing}] /\ s \in [1..4 -> Strings \cup {Missing}]
      /\ DOMAIN r = 1..4
      /\ reports[i].fingerprint = Joined(r) /\ reports[j].fingerprint = Joined(s)
  BY <1>1, Four
<1>3. \A k \in 1..4 : ~IsFallback(r[k])
  BY <1>1, <1>2 DEF WithFallback
<1>4. \A k \in 1..4 : BlurOne(r[k]) = Clear(m, Order[k]) /\ BlurOne(s[k]) = Clear(n, Order[k])
  BY <1>1, OneMachine
<1>5. /\ platform \in Platforms /\ boot \in Nat /\ m \in Machines /\ n \in Machines
  <2>1. Sound(reports[i]) /\ Sound(reports[j])
    BY Four
  <2> QED
    BY <2>1, BoundsAssumption DEF IInv, TypeOK, Sound
<1>6. ASSUME NEW k \in 1..4, Clear(m, Order[k]) = Clear(n, Order[k])
      PROVE  r[k] = s[k]
  BY <1>3, <1>4, <1>6, BlurTells
<1>7. \A k \in {1, 2, 4} : r[k] = s[k]
  <2> SUFFICES ASSUME NEW k \in {1, 2, 4}
               PROVE  r[k] = s[k]
    OBVIOUS
  <2>1. k \in 1..4 /\ Order[k] \in Components /\ Order[k] # "volume"
    BY Places
  <2> QED
    BY <1>5, <1>6, <2>1, BootApart
<1>8. r[3] = s[3] => reports[i].fingerprint = reports[j].fingerprint
  <2>1. \A k \in 1..4 : k \in {1, 2, 4} \/ k = 3
    OBVIOUS
  <2>2. r[3] = s[3] => r = s
    BY <1>2, <1>7, <2>1
  <2> QED
    BY <1>2, <2>2
<1>9. CASE platform # "linux"
  <2>1. Clear(m, Order[3]) = Clear(n, Order[3])
    BY <1>5, <1>9, Places, BootApart
  <2> QED
    BY <1>6, <1>8, <1>9, <2>1
<1>10. CASE platform = "linux" /\ r[3] = Missing
  <2>1. Clear(m, "volume") = Missing
    BY <1>4, <1>10, Places, MissingType
  <2>2. <<"serial", m.boot>>[1] # Missing[1]
    BY MissingType
  <2>3. ~("volume" \in config /\ m.shown["mounts"] # Absent)
    BY <1>5, <1>10, <2>1, <2>2, RootSerial
  <2>4. Clear(n, "volume") = Missing
    BY <1>5, <1>10, <2>3, RootSerial
  <2> QED
    BY <1>1, <1>6, <1>8, <1>10, <2>1, <2>4, Places
<1>11. CASE platform = "linux" /\ r[3] # Missing
  <2>1. BlurOne(r[3]) = r[3]
    BY <1>3 DEF BlurOne
  <2>2. Clear(m, "volume") # Missing
    BY <1>4, <1>11, <2>1, Places
  <2>3. "volume" \in config /\ m.shown["mounts"] # Absent
    BY <1>5, <1>11, <2>2, RootSerial
  <2>4. Clear(m, "volume") = <<"serial", m.boot>> /\ Clear(n, "volume") = <<"serial", n.boot>>
    BY <1>5, <1>11, <2>3, RootSerial
  <2>5. BlurOne(r[3]) # BlurOne(s[3])
    BY <1>4, <2>4, Places
  <2>6. r # s
    BY <2>5
  <2> QED
    BY <1>1, <1>11, <2>6, SameReadings DEF SameFingerprintSameComponents
<1> QED
  BY <1>1, <1>9, <1>10, <1>11

\* Blurring a single string.
LEMMA BlurSingle ==
    ASSUME NEW v
    PROVE  Blur(<<v>>) = <<BlurOne(v)>>
<1>1. DOMAIN <<v>> = 1..1 /\ \A k \in 1..1 : <<v>>[k] = v
  OBVIOUS
<1>2. Blur(<<v>>) = [k \in 1..1 |-> BlurOne(v)]
  BY <1>1 DEF Blur
<1> QED
  BY <1>2

\* A getter and the collection agree on a component of the same machine.
LEMMA OneAgrees ==
    ASSUME IInv
    PROVE  GettersAgree
<1> SUFFICES ASSUME NEW i \in Whole, NEW j \in DOMAIN reports \ Whole,
                    Steady(reports[i]), Steady(reports[j]), reports[i].seen = reports[j].seen,
                    NEW k \in DOMAIN Order, Order[k] = reports[j].of
             PROVE  /\ Blur(reports[j].readings) = Blur(<<reports[i].readings[k]>>)
                    /\ reports[j].of \notin config => reports[j].readings = <<Missing>>
  BY DEF GettersAgree
<1>1. PICK m : m \in reports[i].seen
  BY SeenSome
<1>2. PICK s, v : s = reports[j] /\ v = s.readings[1]
  OBVIOUS
<1>3. Single(s) /\ s.readings = <<v>>
  BY <1>2 DEF IInv, Reports, Single
<1>4. BlurOne(v) = Clear(m, s.of)
  BY <1>1, <1>2, <1>3 DEF Single, Steady
<1>5. BlurOne(reports[i].readings[k]) = Clear(m, Order[k])
  BY <1>1, Places, OneMachine
<1>6. Blur(s.readings) = Blur(<<reports[i].readings[k]>>)
  BY <1>2, <1>3, <1>4, <1>5, BlurSingle
<1>7. s.of \notin config => v = Missing
  BY <1>2, <1>3 DEF Single, Fits
<1> QED
  BY <1>2, <1>3, <1>6, <1>7

\* A set of at most two machines is a pair.
LEMMA TwoSeen ==
    ASSUME NEW T, IsFiniteSet(T), Cardinality(T) <= 2, NEW m \in T
    PROVE  \E n \in T : T = {m, n}
<1>1. IsFiniteSet(T \ {m}) /\ Cardinality(T \ {m}) = Cardinality(T) - 1 /\ Cardinality(T) \in Nat
  BY FS_RemoveElement, FS_CardinalityType
<1>2. CASE T \ {m} = {}
  BY <1>2
<1>3. CASE T \ {m} # {}
  <2>1. PICK n : n \in T \ {m}
    BY <1>3
  <2>2. /\ IsFiniteSet((T \ {m}) \ {n}) /\ Cardinality((T \ {m}) \ {n}) = Cardinality(T \ {m}) - 1
        /\ Cardinality((T \ {m}) \ {n}) \in Nat
    BY <1>1, <2>1, FS_RemoveElement, FS_CardinalityType
  <2>3. Cardinality((T \ {m}) \ {n}) = 0
    BY <1>1, <2>2
  <2>4. (T \ {m}) \ {n} = {}
    BY <2>2, <2>3, FS_EmptySet
  <2> QED
    BY <2>1, <2>4
<1> QED
  BY <1>2, <1>3

\* Blurring keeps the length and acts on each place.
LEMMA BlurType ==
    ASSUME NEW S, NEW s \in Seq(S)
    PROVE  /\ Blur(s) \in Seq({BlurOne(x) : x \in S}) /\ Len(Blur(s)) = Len(s)
           /\ \A k \in 1..Len(s) : Blur(s)[k] = BlurOne(s[k])
<1>1. Len(s) \in Nat /\ DOMAIN s = 1..Len(s) /\ \A k \in 1..Len(s) : s[k] \in S
  BY LenProperties
<1>2. Blur(s) = [k \in 1..Len(s) |-> BlurOne(s[k])]
  BY <1>1 DEF Blur
<1>3. Blur(s) \in [1..Len(s) -> {BlurOne(x) : x \in S}]
  BY <1>1, <1>2
<1>4. Blur(s) \in Seq({BlurOne(x) : x \in S})
  BY <1>1, <1>3, IsASeq
<1>5. Len(Blur(s)) = Len(s)
  BY <1>1, <1>2, <1>4, LenProperties
<1> QED
  BY <1>2, <1>4, <1>5

\* Blurring distributes over concatenation.
LEMMA BlurCat ==
    ASSUME NEW S, NEW s \in Seq(S), NEW t \in Seq(S)
    PROVE  Blur(s \o t) = Blur(s) \o Blur(t)
<1> DEFINE T == {BlurOne(x) : x \in S}
<1>1. /\ s \o t \in Seq(S) /\ Len(s \o t) = Len(s) + Len(t) /\ Len(s) \in Nat /\ Len(t) \in Nat
      /\ \A k \in 1 .. Len(s) + Len(t) :
            (s \o t)[k] = IF k <= Len(s) THEN s[k] ELSE t[k - Len(s)]
  BY ConcatProperties, LenProperties
<1>2. /\ Blur(s) \in Seq(T) /\ Len(Blur(s)) = Len(s)
      /\ \A k \in 1..Len(s) : Blur(s)[k] = BlurOne(s[k])
  BY BlurType
<1>3. /\ Blur(t) \in Seq(T) /\ Len(Blur(t)) = Len(t)
      /\ \A k \in 1..Len(t) : Blur(t)[k] = BlurOne(t[k])
  BY BlurType
<1>4. /\ Blur(s \o t) \in Seq(T) /\ Len(Blur(s \o t)) = Len(s) + Len(t)
      /\ \A k \in 1..Len(s) + Len(t) : Blur(s \o t)[k] = BlurOne((s \o t)[k])
  BY <1>1, BlurType
<1> HIDE DEF T
<1>5. /\ Blur(s) \o Blur(t) \in Seq(T) /\ Len(Blur(s) \o Blur(t)) = Len(s) + Len(t)
      /\ \A k \in 1 .. Len(s) + Len(t) :
            (Blur(s) \o Blur(t))[k] = IF k <= Len(s) THEN Blur(s)[k] ELSE Blur(t)[k - Len(s)]
  <2>1. PICK u, v : u = Blur(s) /\ v = Blur(t)
    OBVIOUS
  <2>2. u \in Seq(T) /\ v \in Seq(T) /\ Len(u) = Len(s) /\ Len(v) = Len(t)
    BY <1>2, <1>3, <2>1
  <2>3. /\ u \o v \in Seq(T) /\ Len(u \o v) = Len(u) + Len(v)
        /\ \A k \in 1 .. Len(u) + Len(v) :
              (u \o v)[k] = IF k <= Len(u) THEN u[k] ELSE v[k - Len(u)]
    BY <2>2, ConcatProperties
  <2> QED
    BY <2>1, <2>2, <2>3
<1>6. ASSUME NEW k \in 1 .. Len(s) + Len(t)
      PROVE  Blur(s \o t)[k] = (Blur(s) \o Blur(t))[k]
  <2>1. CASE k <= Len(s)
    <3>1. k \in 1..Len(s)
      BY <1>1, <2>1
    <3> QED
      BY <1>1, <1>2, <1>4, <1>5, <2>1, <3>1
  <2>2. CASE ~(k <= Len(s))
    <3>1. k - Len(s) \in 1..Len(t)
      BY <1>1, <2>2
    <3> QED
      BY <1>1, <1>3, <1>4, <1>5, <2>2, <3>1
  <2> QED
    BY <2>1, <2>2
<1>7. Len(Blur(s \o t)) = Len(Blur(s) \o Blur(t))
  BY <1>4, <1>5
<1> QED
  BY <1>4, <1>5, <1>6, <1>7, SeqEqual

\* Blurring commutes with leaving out the missing ones.
LEMMA BlurPiece ==
    ASSUME NEW v \in Strings \cup {Missing}
    PROVE  Blur(Piece(v)) = Piece(BlurOne(v))
<1>1. CASE v = Missing
  <2>1. Blur(<<>>) = <<>>
    BY DEF Blur
  <2> QED
    BY <1>1, <2>1, MissingType DEF Piece
<1>2. CASE v # Missing
  <2>1. v[1] \in {"value", "serial"} \cup Components
    BY <1>2, NoMissing
  <2>2. BlurOne(v)[1] = v[1]
    BY DEF BlurOne
  <2>3. BlurOne(v) # Missing
    BY <2>1, <2>2, MissingType DEF Components
  <2> QED
    BY <1>2, <2>3, BlurSingle DEF Piece
<1> QED
  BY <1>1, <1>2

\* Four components of one machine make the fingerprint of that machine.
LEMMA IdealOf ==
    ASSUME IInv, NEW i \in Whole, NEW m,
           \A k \in 1..4 : BlurOne(reports[i].readings[k]) = Clear(m, Order[k])
    PROVE  Blur(reports[i].fingerprint) = Ideal(m)
<1>1. PICK r : r = reports[i].readings
  OBVIOUS
<1>2. /\ r \in [1..4 -> Strings \cup {Missing}] /\ reports[i].fingerprint = Joined(r)
      /\ \A k \in 1..4 : Part(r, k) = Piece(r[k])
  BY <1>1, Four
<1> DEFINE a == Piece(r[1])  b == Piece(r[2])  c == Piece(r[3])  d == Piece(r[4])
<1>3. a \in Seq(Strings) /\ b \in Seq(Strings) /\ c \in Seq(Strings) /\ d \in Seq(Strings)
  BY <1>2, PieceType
<1>4. /\ Blur(a) = Piece(Clear(m, "cpu")) /\ Blur(b) = Piece(Clear(m, "mac"))
      /\ Blur(c) = Piece(Clear(m, "volume")) /\ Blur(d) = Piece(Clear(m, "mobo"))
  <2>1. \A k \in 1..4 : Blur(Piece(r[k])) = Piece(Clear(m, Order[k]))
    BY <1>1, <1>2, BlurPiece
  <2> QED
    BY <2>1, Places
<1>5. Joined(r) = ((a \o b) \o c) \o d
  BY <1>2 DEF Joined
<1> HIDE DEF a, b, c, d
<1>6. a \o b \in Seq(Strings) /\ (a \o b) \o c \in Seq(Strings)
  BY <1>3, ConcatProperties
<1>7. Blur(a \o b) = Blur(a) \o Blur(b)
  BY <1>3, BlurCat
<1>8. Blur((a \o b) \o c) = Blur(a \o b) \o Blur(c)
  BY <1>3, <1>6, BlurCat
<1>9. Blur(((a \o b) \o c) \o d) = Blur((a \o b) \o c) \o Blur(d)
  BY <1>3, <1>6, BlurCat
<1>10. Blur(Joined(r)) = ((Blur(a) \o Blur(b)) \o Blur(c)) \o Blur(d)
  BY <1>5, <1>7, <1>8, <1>9
<1> QED
  BY <1>2, <1>4, <1>10 DEF Ideal

\* A call that met at most one change reports a machine of a single instant.
LEMMA OneInstant ==
    ASSUME IInv
    PROVE  AtomicUpToOneChange
<1> SUFFICES ASSUME NEW i \in Whole, ~reports[i].slipped, Cardinality(reports[i].seen) <= 2
             PROVE  \E m \in reports[i].seen : Blur(reports[i].fingerprint) = Ideal(m)
  BY DEF AtomicUpToOneChange
<1>1. PICK r : r = reports[i]
  OBVIOUS
<1>2. Sound(r) /\ DOMAIN r.readings = 1..4
  BY <1>1, Four
<1>3. /\ \A k \in 1..4 : \E m \in r.seen : BlurOne(r.readings[k]) = Clear(m, Order[k])
      /\ IsFiniteSet(r.seen) /\ r.seen \subseteq Machines /\ \A m, n \in r.seen : Near(m, n)
  BY <1>1, <1>2 DEF Sound
<1>4. PICK x \in r.seen : TRUE
  BY <1>3
<1>5. PICK y \in r.seen : r.seen = {x, y}
  BY <1>1, <1>3, TwoSeen
<1>6. x.boot = y.boot /\ \E s \in Sources : \A t \in Sources \ {s} : x.shown[t] = y.shown[t]
  BY <1>3, <1>4, <1>5 DEF Near
<1>7. PICK s \in Sources : \A t \in Sources \ {s} : x.shown[t] = y.shown[t]
  BY <1>6
<1>8. platform \in Platforms
  BY DEF IInv, TypeOK
<1>9. ASSUME NEW k \in 1..4, s \notin SourcesOf(Order[k])
      PROVE  \A m, n \in r.seen : Clear(m, Order[k]) = Clear(n, Order[k])
  <2>1. Order[k] \in Components /\ x \in Machines /\ y \in Machines
    BY <1>3, <1>4, <1>5, Places
  <2>2. \A t \in Sources \cap SourcesOf(Order[k]) : x.shown[t] = y.shown[t]
    BY <1>7, <1>9
  <2>3. SourcesOf(Order[k]) \subseteq Sources \cup {"boot_id"}
    BY <1>8, <2>1, AllSources DEF SourcesOf
  <2>4. \A t \in SourcesOf(Order[k]) : Content(x, t) = Content(y, t)
    BY <1>6, <2>2, <2>3 DEF Content
  <2>5. Clear(x, Order[k]) = Clear(y, Order[k])
    BY <1>8, <2>1, <2>4, ClearLocal
  <2> QED
    BY <1>5, <2>5
<1>10. \E m \in r.seen : \A k \in 1..4 : BlurOne(r.readings[k]) = Clear(m, Order[k])
  <2>1. CASE \E k \in 1..4 : s \in SourcesOf(Order[k])
    <3>1. PICK l \in 1..4 : s \in SourcesOf(Order[l])
      BY <2>1
    <3>2. PICK m \in r.seen : BlurOne(r.readings[l]) = Clear(m, Order[l])
      BY <1>3
    <3>3. ASSUME NEW k \in 1..4, k # l
          PROVE  BlurOne(r.readings[k]) = Clear(m, Order[k])
      <4>1. Order[k] \in Components /\ Order[l] \in Components /\ Order[k] # Order[l]
        BY <3>3, Places
      <4>2. s \notin SourcesOf(Order[k])
        BY <1>8, <3>1, <4>1, OwnSources DEF SourcesOf
      <4> QED
        BY <1>3, <1>9, <4>2
    <3> QED
      BY <3>2, <3>3
  <2>2. CASE \A k \in 1..4 : s \notin SourcesOf(Order[k])
    BY <1>3, <1>4, <1>9, <2>2
  <2> QED
    BY <2>1, <2>2
<1> QED
  BY <1>1, <1>10, IdealOf

\* While at most one source changes during a call of compute_hash, and every source that
\* exists can be opened, what it returns is what the machine was at some instant of the
\* call (hardware_fingerprint.cpp:231-326).
THEOREM Instant == Spec => []AtomicUpToOneChange
<1>1. IInv => AtomicUpToOneChange
  BY OneInstant
<1> QED
  BY <1>1, Invariance, PTL

\* Equal fingerprints of one configuration come from equal components, though the joined
\* strings carry no tags and some may be missing (hardware_fingerprint.cpp:236-290).
THEOREM Injective == Spec => []SameFingerprintSameComponents
<1>1. IInv => SameFingerprintSameComponents
  BY SameReadings
<1> QED
  BY <1>1, Invariance, PTL

\* Two probes of one unchanged machine agree, whoever makes them and however they
\* interleave, unless a component needed its fallback (hardware_fingerprint.cpp:231-326).
THEOREM Repeatable == Spec => []Reproducible
<1>1. IInv => Reproducible
  BY SameAgain
<1> QED
  BY <1>1, Invariance, PTL

\* A reboot changes the fingerprint exactly where the volume serial is the boot id:
\* on Linux, when the root file system is found (hardware_fingerprint.cpp:655-685).
THEOREM Rebooted == Spec => []AcrossBoots
<1>1. IInv => AcrossBoots
  BY OtherBoot
<1> QED
  BY <1>1, Invariance, PTL

\* get_cpu_id, get_mac_address and the others return what the fingerprint of the same
\* machine has in their place (hardware_fingerprint.cpp:88-166).
THEOREM Agreement == Spec => []GettersAgree
<1>1. IInv => GettersAgree
  BY OneAgrees
<1> QED
  BY <1>1, Invariance, PTL
=============================================================================
