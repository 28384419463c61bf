-------------------------- MODULE SimpleJsonProofs --------------------------
(***************************************************************************)
(* Proofs about SimpleJson, for any texts and limits: what the parser reads   *)
(* keeps within the limits (Typing), and a text that was signed is read as    *)
(* it was written (RoundTrip).  First the definitions that go along a string  *)
(* (the scans, the escapes, the order of names), then what stands where in a  *)
(* text that was written, then the steps of the second parse.                *)
(***************************************************************************)
EXTENDS SimpleJson, FiniteSetTheorems, SequenceTheorems, WellFoundedInduction, TLAPS

-----------------------------------------------------------------------------
(* Induction.  What is to be shown of every number is the membership in a     *)
(* set, so that the theorem can be cited.                                    *)

\* Every set of naturals that is not empty has a least element.
LEMMA Least ==
    ASSUME NEW T, T \subseteq Nat, T # {}
    PROVE  \E x \in T : \A y \in T : x <= y
<1> DEFINE R == {p \in Nat \X Nat : p[1] < p[2]}
<1>1. IsWellFoundedOn(R, Nat)
  BY NatLessThanWellFounded DEF OpToRel
<1> HIDE DEF R
<1>2. PICK x \in T : \A y \in T : ~(<<y, x>> \in R)
  BY <1>1, WFMin
<1>3. \A y \in T : ~(y < x)
  BY <1>2 DEF R
<1> QED
  BY <1>3

\* What holds of 0 and of every successor up to n holds of every number up to n.
LEMMA Induction ==
    ASSUME NEW T, 0 \in T, \A m \in Nat : m \in T => m + 1 \in T
    PROVE  Nat \subseteq T
<1> SUFFICES ASSUME Nat \ T # {} PROVE FALSE
  OBVIOUS
<1>1. PICK x \in Nat \ T : \A y \in Nat \ T : x <= y
  BY Least
<1>2. x # 0 /\ x - 1 \in Nat /\ ~(x <= x - 1) /\ (x - 1) + 1 = x
  BY <1>1
<1> QED
  BY <1>1, <1>2

\* A function defined from its value at the number before.
Steps(g, n, R) == n \in Nat /\ g \in [1..n -> [R -> R]]
Follows(f, g, n, R, a) ==
    f \in [0..n -> R] /\ f[0] = a /\ \A i \in 1..n : f[i] = g[i][f[i - 1]]

\* A value that is computed step by step from the one before exists.
LEMMA Recursion ==
    ASSUME NEW g, NEW n, NEW R, Steps(g, n, R), NEW a \in R
    PROVE  \E f : Follows(f, g, n, R, a)
<1> USE DEF Steps
<1> DEFINE Upto(m) == \E f \in [0..m -> R] : f[0] = a /\ \A i \in 1..m : f[i] = g[i][f[i - 1]]
           T == {m \in Nat : m <= n => Upto(m)}
<1>1. 0 \in T
  <2> DEFINE f == [i \in 0..0 |-> a]
  <2>1. f \in [0..0 -> R] /\ f[0] = a /\ \A i \in 1..0 : f[i] = g[i][f[i - 1]]
    OBVIOUS
  <2> QED
    BY <2>1
<1>2. ASSUME NEW m \in Nat, m \in T, m + 1 <= n
      PROVE  Upto(m + 1)
  <2>1. PICK f \in [0..m -> R] : f[0] = a /\ \A i \in 1..m : f[i] = g[i][f[i - 1]]
    BY <1>2
  <2> DEFINE h == [i \in 0..(m + 1) |-> IF i <= m THEN f[i] ELSE g[m + 1][f[m]]]
  <2>2. m + 1 \in 1..n /\ m \in 0..m
    BY <1>2
  <2>3. g[m + 1] \in [R -> R] /\ f[m] \in R
    BY <2>2
  <2>4. h \in [0..(m + 1) -> R]
    BY <2>3
  <2>5. h[0] = a
    BY <2>1
  <2>6. ASSUME NEW i \in 1..(m + 1)
        PROVE  h[i] = g[i][h[i - 1]]
    <3>1. i - 1 \in 0..m /\ i \in 0..(m + 1)
      OBVIOUS
    <3>2. h[i - 1] = f[i - 1]
      BY <3>1
    <3>3. CASE i <= m
      BY <2>1, <3>1, <3>2, <3>3
    <3>4. CASE ~(i <= m)
      <4>1. i = m + 1 /\ i - 1 = m
        BY <3>4
      <4> QED
        BY <3>2, <4>1
    <3> QED
      BY <3>3, <3>4
  <2> HIDE DEF h
  <2> QED
    BY <2>4, <2>5, <2>6
<1> HIDE DEF Upto
<1>3. \A m \in Nat : m \in T => m + 1 \in T
  BY <1>2
<1>4. Nat \subseteq T
  <2> HIDE DEF T
  <2> QED
    BY <1>1, <1>3, Induction
<1>5. Upto(n)
  BY <1>4
<1> QED
  BY <1>5 DEF Upto, Follows

\* A function defined from its value further on, up to the last argument.
LEMMA Scanning ==
    ASSUME NEW n \in Nat \ {0}, NEW stop \in [1..n -> BOOLEAN], NEW next \in [1..n -> Nat],
           \A j \in 1..n : stop[j] \/ next[j] \in (j + 1)..n
    PROVE  \E f \in [1..n -> Nat] :
              /\ f = [j \in 1..n |-> IF stop[j] THEN j ELSE f[next[j]]]
              /\ \A j \in 1..n : f[j] \in j..n
<1> DEFINE From(k, f) == \A j \in k..n : /\ f[j] = IF stop[j] THEN j ELSE f[next[j]]
                                         /\ f[j] \in j..n
           Has(m) == \E f \in [1..n -> Nat] : From(n - m, f)
           T == {m \in Nat : m < n => Has(m)}
<1>1. 0 \in T
  <2> DEFINE f == [j \in 1..n |-> n]
  <2>1. f \in [1..n -> Nat]
    OBVIOUS
  <2>2. \A j \in (n - 0)..n : j = n
    OBVIOUS
  <2>3. n \in 1..n /\ stop[n]
    <3>1. n \in 1..n /\ ~(next[n] \in (n + 1)..n)
      OBVIOUS
    <3> QED
      BY <3>1
  <2>4. From(n - 0, f)
    BY <2>2, <2>3
  <2> HIDE DEF f, From
  <2> QED
    BY <2>1, <2>4
<1> HIDE DEF From
<1>2. ASSUME NEW m \in Nat, m \in T, m + 1 < n
      PROVE  Has(m + 1)
  <2>0. m < n
    BY <1>2
  <2>1. PICK f \in [1..n -> Nat] : From(n - m, f)
    BY <1>2, <2>0
  <2> DEFINE k == n - (m + 1)
             h == [f EXCEPT ![k] = IF stop[k] THEN k ELSE f[next[k]]]
  <2>2. k \in 1..n /\ k + 1 = n - m
    BY <1>2
  <2>3. stop[k] \/ next[k] \in (k + 1)..n
    BY <2>2
  <2>4. ~stop[k] => f[next[k]] \in next[k]..n /\ next[k] \in k..n
    BY <2>1, <2>2, <2>3 DEF From
  <2>5. h[k] \in k..n /\ h \in [1..n -> Nat]
    BY <2>2, <2>4
  <2>6. \A j \in (k + 1)..n : h[j] = f[j]
    BY <2>2
  <2>7. h[k] = IF stop[k] THEN k ELSE h[next[k]]
    BY <2>2, <2>3, <2>6
  <2>8. ASSUME NEW j \in (k + 1)..n
        PROVE  h[j] = (IF stop[j] THEN j ELSE h[next[j]]) /\ h[j] \in j..n
    <3>1. j \in 1..n /\ (stop[j] \/ next[j] \in (k + 1)..n)
      <4>1. j \in 1..n /\ k \in Nat
        BY <2>2
      <4>2. \A x \in (j + 1)..n : x \in (k + 1)..n
        BY <4>1
      <4> QED
        BY <4>1, <4>2
    <3>2. f[j] = (IF stop[j] THEN j ELSE f[next[j]]) /\ f[j] \in j..n
      BY <2>1, <2>2 DEF From
    <3> QED
      BY <2>6, <3>1, <3>2
  <2> HIDE DEF h
  <2>9. From(k, h)
    <3> HIDE DEF k
    <3> SUFFICES ASSUME NEW j \in k..n
                 PROVE  h[j] = (IF stop[j] THEN j ELSE h[next[j]]) /\ h[j] \in j..n
      BY DEF From
    <3>1. CASE j = k
      BY <2>5, <2>7, <3>1
    <3>2. CASE j # k
      <4>1. j \in (k + 1)..n
        BY <2>2, <3>2
      <4> QED
        BY <2>8, <4>1
    <3> QED
      BY <3>1, <3>2
  <2> QED
    BY <2>5, <2>9
<1> HIDE DEF Has
<1>3. \A m \in Nat : m \in T => m + 1 \in T
  BY <1>2
<1>4. Nat \subseteq T
  <2> HIDE DEF T
  <2> QED
    BY <1>1, <1>3, Induction
<1>5. PICK f \in [1..n -> Nat] : From(1, f)
  <2>1. n - 1 \in Nat /\ n - 1 < n /\ n - (n - 1) = 1
    OBVIOUS
  <2>2. Has(n - 1)
    BY <1>4, <2>1
  <2> QED
    BY <2>1, <2>2 DEF Has
<1>6. f = [j \in 1..n |-> IF stop[j] THEN j ELSE f[next[j]]]
  BY <1>5 DEF From
<1> QED
  BY <1>5, <1>6 DEF From

-----------------------------------------------------------------------------
(* Sequences of sequences.                                                   *)

Flattens(f, ss, S) ==
    /\ f \in [0..Len(ss) -> Seq(S)]
    /\ f[0] = <<>>
    /\ \A i \in 1..Len(ss) : f[i] = f[i - 1] \o ss[i]
    /\ FlattenSeq(ss) = f[Len(ss)]

\* FlattenSeq is what appending the sequences one after the other gives.
LEMMA Flattening ==
    ASSUME NEW S, NEW ss \in Seq(Seq(S))
    PROVE  \E f : Flattens(f, ss, S)
<1> DEFINE n == Len(ss)
           g == [i \in 1..n |-> [r \in Seq(S) |-> r \o ss[i]]]
           Flat(f) == f = [i \in 1..n |-> IF i = 1 THEN ss[i] ELSE f[i - 1] \o ss[i]]
<1>1. n \in Nat /\ \A i \in 1..n : ss[i] \in Seq(S)
  BY LenProperties, ElementOfSeq
<1>2. g \in [1..n -> [Seq(S) -> Seq(S)]]
  BY <1>1, ConcatProperties
<1>3. <<>> \in Seq(S) /\ \A s \in Seq(S) : <<>> \o s = s
  BY EmptySeq, ConcatEmptySeq
<1>4. PICK f \in [0..n -> Seq(S)] :
         f[0] = <<>> /\ \A i \in 1..n : f[i] = g[i][f[i - 1]]
  <2> DEFINE R == Seq(S)
             a == <<>>
  <2>1. a \in R /\ Steps(g, n, R)
    BY <1>1, <1>2, <1>3 DEF Steps
  <2> HIDE DEF g, n, R, a
  <2>2. PICK f : Follows(f, g, n, R, a)
    BY <2>1, Recursion
  <2> QED
    BY <2>2 DEF R, a, Follows
<1>5. \A i \in 1..n : f[i] = f[i - 1] \o ss[i] /\ f[i] \in Seq(S)
  <2> SUFFICES ASSUME NEW i \in 1..n PROVE f[i] = f[i - 1] \o ss[i] /\ f[i] \in Seq(S)
    OBVIOUS
  <2>1. i - 1 \in 0..n /\ i \in 0..n
    BY <1>1
  <2>2. f[i - 1] \in Seq(S) /\ f[i] \in Seq(S)
    BY <2>1
  <2>3. g[i] = [r \in Seq(S) |-> r \o ss[i]]
    OBVIOUS
  <2>4. f[i] = g[i][f[i - 1]]
    BY <1>4
  <2> HIDE DEF g
  <2> QED
    BY <2>2, <2>3, <2>4
<1>6. CASE n = 0
  <2>1. FlattenSeq(ss) = <<>>
    <3>1. ss = <<>>
      BY <1>6, EmptySeq
    <3> QED
      BY <1>6, <3>1 DEF FlattenSeq
  <2>2. FlattenSeq(ss) = f[n]
    BY <1>4, <1>6, <2>1
  <2> HIDE DEF g, Flat
  <2> QED
    BY <1>4, <1>5, <2>2 DEF Flattens
<1>7. CASE n # 0
  <2> DEFINE h == [i \in 1..n |-> f[i]]
  <2>1. h = [i \in 1..n |-> IF i = 1 THEN ss[i] ELSE h[i - 1] \o ss[i]]
    <3> SUFFICES ASSUME NEW i \in 1..n
                 PROVE  h[i] = IF i = 1 THEN ss[i] ELSE h[i - 1] \o ss[i]
      OBVIOUS
    <3>1. CASE i = 1
      <4>0. i - 1 = 0 /\ f[0] = <<>>
        BY <1>4, <3>1
      <4>1. f[i] = f[0] \o ss[i] /\ f[0] = <<>>
        BY <1>5, <4>0
      <4> QED
        BY <1>1, <1>3, <3>1, <4>1
    <3>2. CASE i # 1
      <4>1. i - 1 \in 1..n
        BY <1>1, <3>2
      <4> QED
        BY <1>5, <3>2, <4>1
    <3> QED
      BY <3>1, <3>2
  <2>2. Flat(h)
    BY <2>1
  <2> DEFINE e == CHOOSE x : Flat(x)
  <2>3. Flat(e)
    <3> HIDE DEF Flat, h
    <3> QED
      BY <2>2
  <2>4. FlattenSeq(ss) = e[n]
    BY <1>7 DEF FlattenSeq
  <2>5. \A i \in 1..n : e[i] = IF i = 1 THEN ss[i] ELSE e[i - 1] \o ss[i]
    <3>1. e = [i \in 1..n |-> IF i = 1 THEN ss[i] ELSE e[i - 1] \o ss[i]]
      BY <2>3
    <3> HIDE DEF e, n
    <3> QED
      BY <3>1
  <2>6. \A i \in 1..n : e[i] = f[i]
    <3> DEFINE T == {m \in Nat : m + 1 \in 1..n => e[m + 1] = f[m + 1]}
    <3> HIDE DEF e
    <3>1. 0 \in T
      <4>0. 1 - 1 = 0 /\ 1 \in 1..n
        BY <1>1, <1>7
      <4>1. f[1] = f[1 - 1] \o ss[1] /\ 1 - 1 = 0 /\ 1 \in 1..n
        BY <1>5, <4>0
      <4>2. f[1] = ss[1] /\ e[1] = ss[1]
        BY <1>1, <1>3, <1>4, <2>5, <4>1
      <4> QED
        BY <4>2
    <3>2. ASSUME NEW m \in Nat, m \in T, (m + 1) + 1 \in 1..n
          PROVE  e[(m + 1) + 1] = f[(m + 1) + 1]
      <4>1. m + 1 \in 1..n /\ (m + 1) + 1 # 1 /\ ((m + 1) + 1) - 1 = m + 1
        BY <1>1, <3>2
      <4>2. e[m + 1] = f[m + 1]
        BY <3>2, <4>1
      <4>3. f[(m + 1) + 1] = f[m + 1] \o ss[(m + 1) + 1]
        BY <1>5, <3>2, <4>1
      <4>4. e[(m + 1) + 1] = e[m + 1] \o ss[(m + 1) + 1]
        BY <2>5, <3>2, <4>1
      <4> QED
        BY <4>2, <4>3, <4>4
    <3>3. \A m \in Nat : m \in T => m + 1 \in T
      BY <3>2
    <3>4. Nat \subseteq T
      <4> HIDE DEF T
      <4> QED
        BY <3>1, <3>3, Induction
    <3> SUFFICES ASSUME NEW i \in 1..n PROVE e[i] = f[i]
      OBVIOUS
    <3>5. i - 1 \in Nat /\ (i - 1) + 1 = i
      BY <1>1
    <3> QED
      BY <3>4, <3>5
  <2>7. FlattenSeq(ss) = f[n]
    <3> HIDE DEF e
    <3> QED
      BY <1>1, <1>7, <2>4, <2>6
  <2> HIDE DEF h, e, Flat
  <2> QED
    BY <1>4, <1>5, <2>7 DEF Flattens
<1> QED
  BY <1>6, <1>7

\* The length of the whole, when no piece is longer than one.
LEMMA FlatLength ==
    ASSUME NEW S, NEW ss \in Seq(Seq(S))
    PROVE  /\ FlattenSeq(ss) \in Seq(S)
           /\ (\A i \in 1..Len(ss) : Len(ss[i]) <= 1) => Len(FlattenSeq(ss)) <= Len(ss)
<1> DEFINE n == Len(ss)
<1>1. PICK f : Flattens(f, ss, S)
  BY Flattening
<1>2. n \in Nat /\ FlattenSeq(ss) = f[n] /\ f[n] \in Seq(S)
  <2>1. n \in Nat /\ n \in 0..n
    BY LenProperties
  <2> QED
    BY <1>1, <2>1 DEF Flattens
<1>3. ASSUME \A i \in 1..n : Len(ss[i]) <= 1
      PROVE  Len(f[n]) <= n
  <2> DEFINE T == {m \in Nat : m <= n => Len(f[m]) <= m}
  <2>1. 0 \in T
    BY <1>1, EmptySeq DEF Flattens
  <2>2. ASSUME NEW m \in Nat, m \in T, m + 1 <= n
        PROVE  Len(f[m + 1]) <= m + 1
    <3>1. m \in 0..n /\ m + 1 \in 1..n /\ (m + 1) - 1 = m
      BY <1>2, <2>2
    <3>2. f[m + 1] = f[m] \o ss[m + 1] /\ f[m] \in Seq(S) /\ ss[m + 1] \in Seq(S)
      BY <1>1, <3>1, ElementOfSeq DEF Flattens
    <3>3. Len(f[m + 1]) = Len(f[m]) + Len(ss[m + 1])
          /\ Len(f[m]) \in Nat /\ Len(ss[m + 1]) \in Nat
      BY <3>2, ConcatProperties, LenProperties
    <3>4. Len(f[m]) <= m /\ Len(ss[m + 1]) <= 1
      BY <1>3, <2>2, <3>1
    <3> DEFINE a == Len(f[m])
               b == Len(ss[m + 1])
    <3>5. a + b <= m + 1
      <4>1. a <= m /\ b <= 1 /\ a \in Nat /\ b \in Nat
        BY <3>3, <3>4
      <4> HIDE DEF a, b
      <4> QED
        BY <4>1
    <3> QED
      BY <3>3, <3>5
  <2>3. \A m \in Nat : m \in T => m + 1 \in T
    BY <2>2
  <2>4. Nat \subseteq T
    <3> HIDE DEF T
    <3> QED
      BY <2>1, <2>3, Induction
  <2> QED
    BY <1>2, <2>4
<1> QED
  BY <1>2, <1>3
-----------------------------------------------------------------------------
(* Escaping.                                                                 *)

\* The table of the escapes: each special character has a letter that stands for it.
LEMMA EscapeTable ==
    /\ Special \subseteq Nat /\ Letters \subseteq Nat
    /\ Quote \in Special /\ Backslash \in Special
    /\ \A c \in Special : Letter(c) \in Letters /\ Meant(Letter(c)) = c
    /\ \A l \in Letters : Meant(l) \in Nat
<1> USE DEF Escapes, Special, Letters, Quote, Backslash, Newline
<1>1. Special = {34, 92, 8, 12, 10, 13, 9} /\ Letters = {34, 92, 98, 102, 110, 114, 116}
  OBVIOUS
<1>2. \A e, d \in Escapes : (e[1] = d[1] <=> e = d) /\ (e[2] = d[2] <=> e = d)
  OBVIOUS
<1>3. \A e \in Escapes : Letter(e[1]) = e[2] /\ Meant(e[2]) = e[1]
  <2> SUFFICES ASSUME NEW e \in Escapes PROVE Letter(e[1]) = e[2] /\ Meant(e[2]) = e[1]
    OBVIOUS
  <2>1. (CHOOSE d \in Escapes : d[1] = e[1]) = e
    <3> HIDE DEF Escapes
    <3> QED
      BY <1>2
  <2>2. (CHOOSE d \in Escapes : d[2] = e[2]) = e
    <3> HIDE DEF Escapes
    <3> QED
      BY <1>2
  <2> HIDE DEF Escapes
  <2> QED
    BY <2>1, <2>2 DEF Letter, Meant
<1>4. \A c \in Special : Letter(c) \in Letters /\ Meant(Letter(c)) = c
  <2> HIDE DEF Escapes
  <2> QED
    BY <1>3
<1>5. \A l \in Letters : Meant(l) \in Special
  <2> HIDE DEF Escapes
  <2> QED
    BY <1>3
<1> QED
  BY <1>1, <1>4, <1>5

\* The places where an escape begins, and what each place becomes.
Leads(lead, s) ==
    /\ lead \in [0..Len(s) -> BOOLEAN]
    /\ lead[0] = FALSE
    /\ \A i \in 1..Len(s) :
          lead[i] = (/\ i \in 1..(Len(s) - 1)
                     /\ s[i] = Backslash /\ s[i + 1] \in Letters
                     /\ ~lead[i - 1])
Piece(lead, s, i) ==
    CASE lead[i]                     -> <<>>
      [] ~lead[i] /\ lead[i - 1]     -> <<Meant(s[i])>>
      [] ~lead[i] /\ ~lead[i - 1]    -> <<s[i]>>

\* unescape_json_string is the pieces of its leads, one after the other.
LEMMA Unescaping ==
    ASSUME NEW s \in Seq(Nat)
    PROVE  \E lead : /\ Leads(lead, s)
                     /\ unescape_json_string(s) = FlattenSeq([i \in 1..Len(s) |-> Piece(lead, s, i)])
<1> DEFINE n == Len(s)
           P(i) == i \in 1..(n - 1) /\ s[i] = Backslash /\ s[i + 1] \in Letters
           g == [i \in 1..n |-> [b \in BOOLEAN |-> P(i) /\ ~b]]
           Eq(f) == f = [i \in 0..n |-> /\ i \in 1..(Len(s) - 1)
                                        /\ s[i] = Backslash /\ s[i + 1] \in Letters
                                        /\ ~f[i - 1]]
<1>1. n \in Nat
  BY LenProperties
<1>2. PICK f : Follows(f, g, n, BOOLEAN, FALSE)
  <2>1. Steps(g, n, BOOLEAN)
    BY <1>1 DEF Steps
  <2> DEFINE R == BOOLEAN
             a == FALSE
  <2>2. a \in R
    OBVIOUS
  <2> HIDE DEF g, n, R, a
  <2>3. \E f : Follows(f, g, n, R, a)
    BY <2>1, <2>2, Recursion DEF R
  <2> QED
    BY <2>3 DEF R, a
<1>3. f \in [0..n -> BOOLEAN] /\ f[0] = FALSE /\ \A i \in 1..n : f[i] = (P(i) /\ ~f[i - 1])
  <2>1. f \in [0..n -> BOOLEAN] /\ f[0] = FALSE /\ \A i \in 1..n : f[i] = g[i][f[i - 1]]
    <3> HIDE DEF g, n
    <3> QED
      BY <1>2 DEF Follows
  <2>2. ASSUME NEW i \in 1..n PROVE f[i] = (P(i) /\ ~f[i - 1])
    <3>1. i - 1 \in 0..n
      BY <1>1
    <3>2. f[i - 1] \in BOOLEAN
      BY <2>1, <3>1
    <3>3. \A b \in BOOLEAN : g[i][b] = (P(i) /\ ~b)
      OBVIOUS
    <3> HIDE DEF g, P
    <3> QED
      BY <2>1, <3>2, <3>3
  <2> HIDE DEF g, P
  <2> QED
    BY <2>1, <2>2
<1>4. Eq(f)
  <2>1. ASSUME NEW i \in 0..n PROVE f[i] = (P(i) /\ ~f[i - 1])
    <3>1. CASE i = 0
      BY <1>3, <3>1
    <3>2. CASE i # 0
      <4>1. i \in 1..n
        BY <3>2
      <4> HIDE DEF P
      <4> QED
        BY <1>3, <4>1
    <3> QED
      BY <3>1, <3>2
  <2>2. f = [i \in 0..n |-> f[i]]
    BY <1>3
  <2>3. [i \in 0..n |-> f[i]] = [i \in 0..n |-> P(i) /\ ~f[i - 1]]
    <3> HIDE DEF P
    <3> QED
      BY <2>1
  <2> QED
    BY <2>2, <2>3
<1> DEFINE lead == CHOOSE x : Eq(x)
<1>5. Eq(lead)
  <2> HIDE DEF Eq
  <2> QED
    BY <1>4
<1>6. unescape_json_string(s) = FlattenSeq([i \in 1..Len(s) |-> Piece(lead, s, i)])
  BY DEF unescape_json_string, Piece
<1>7. Leads(lead, s)
  <2>1. \A i \in 0..n : lead[i] = (P(i) /\ ~lead[i - 1])
    <3>1. lead = [i \in 0..n |-> P(i) /\ ~lead[i - 1]]
      BY <1>5
    <3> HIDE DEF lead, P
    <3> QED
      BY <3>1
  <2>2. lead \in [0..n -> BOOLEAN]
    <3>1. lead = [i \in 0..n |-> P(i) /\ ~lead[i - 1]]
      BY <1>5
    <3> HIDE DEF lead
    <3>2. \A i \in 0..n : (P(i) /\ ~lead[i - 1]) \in BOOLEAN
      OBVIOUS
    <3> HIDE DEF P
    <3> QED
      BY <3>1, <3>2
  <2> HIDE DEF lead
  <2>3. lead[0] = FALSE
    <3>1. 0 \in 0..n /\ ~P(0)
      BY <1>1
    <3> HIDE DEF P
    <3> QED
      BY <2>1, <3>1
  <2>4. \A i \in 1..n : i \in 0..n
    BY <1>1
  <2>5. \A i \in 1..n : lead[i] = (P(i) /\ ~lead[i - 1])
    <3> HIDE DEF P
    <3> QED
      BY <2>1, <2>4
  <2>6. \A i \in 1..n :
          lead[i] = (/\ i \in 1..(n - 1)
                     /\ s[i] = Backslash /\ s[i + 1] \in Letters
                     /\ ~lead[i - 1])
    BY <2>5
  <2> QED
    BY <2>2, <2>3, <2>6 DEF Leads
<1> HIDE DEF lead
<1> QED
  BY <1>6, <1>7

\* A string does not get longer by unescaping.
LEMMA UnescapeType ==
    ASSUME NEW s \in Seq(Nat)
    PROVE  unescape_json_string(s) \in Seq(Nat) /\ Len(unescape_json_string(s)) <= Len(s)
<1> DEFINE n == Len(s)
<1>1. n \in Nat /\ s \in [1..n -> Nat]
  BY LenProperties
<1>2. PICK lead : /\ Leads(lead, s)
                  /\ unescape_json_string(s) = FlattenSeq([i \in 1..n |-> Piece(lead, s, i)])
  BY Unescaping
<1> DEFINE ss == [i \in 1..n |-> Piece(lead, s, i)]
<1>3. \A i \in 1..n : Piece(lead, s, i) \in Seq(Nat) /\ Len(Piece(lead, s, i)) <= 1
  <2> SUFFICES ASSUME NEW i \in 1..n
               PROVE  Piece(lead, s, i) \in Seq(Nat) /\ Len(Piece(lead, s, i)) <= 1
    OBVIOUS
  <2>1. lead[i] \in BOOLEAN /\ lead[i - 1] \in BOOLEAN /\ s[i] \in Nat
    <3>1. i \in 0..n /\ i - 1 \in 0..n
      BY <1>1
    <3> QED
      BY <1>1, <1>2, <3>1 DEF Leads
  <2>2. CASE lead[i]
    <3>1. Piece(lead, s, i) = <<>>
      BY <2>2 DEF Piece
    <3> QED
      BY <3>1
  <2>3. CASE ~lead[i] /\ lead[i - 1]
    <3>1. Piece(lead, s, i) = <<Meant(s[i])>>
      BY <2>3 DEF Piece
    <3>2. i - 1 \in 1..n /\ (i - 1) + 1 = i
      <4>1. i - 1 # 0
        BY <1>2, <2>3 DEF Leads
      <4> QED
        BY <1>1, <4>1
    <3>3. s[i] \in Letters
      BY <1>2, <2>3, <3>2 DEF Leads
    <3>4. Meant(s[i]) \in Nat
      BY <3>3, EscapeTable
    <3> QED
      BY <3>1, <3>4
  <2>4. CASE ~lead[i] /\ ~lead[i - 1]
    <3>1. Piece(lead, s, i) = <<s[i]>>
      BY <2>4 DEF Piece
    <3> QED
      BY <2>1, <3>1
  <2> QED
    BY <2>1, <2>2, <2>3, <2>4
<1>4. ss \in Seq(Seq(Nat)) /\ Len(ss) = n /\ \A i \in 1..n : Len(ss[i]) <= 1
  BY <1>1, <1>3
<1> HIDE DEF ss
<1>5. FlattenSeq(ss) \in Seq(Nat) /\ Len(FlattenSeq(ss)) <= Len(ss)
  BY <1>4, FlatLength
<1> QED
  BY <1>2, <1>4, <1>5 DEF ss

\* What is escaped is a string.
LEMMA EscapeType ==
    ASSUME NEW s \in Seq(Nat)
    PROVE  escape_json_string(s) \in Seq(Nat)
<1> DEFINE ss == [i \in 1..Len(s) |->
                    IF s[i] \in Special THEN <<Backslash, Letter(s[i])>> ELSE <<s[i]>>]
<1>1. Backslash \in Nat /\ \A c \in Special : Letter(c) \in Nat
  BY EscapeTable
<1>2. ss \in Seq(Seq(Nat))
  <2>1. Len(s) \in Nat /\ \A i \in 1..Len(s) : s[i] \in Nat
    BY LenProperties, ElementOfSeq
  <2> QED
    BY <1>1, <2>1
<1> HIDE DEF ss
<1>3. FlattenSeq(ss) \in Seq(Nat)
  BY <1>2, FlatLength
<1> QED
  BY <1>3 DEF escape_json_string, ss

\* So is what is quoted.
LEMMA QuotedType ==
    ASSUME NEW s \in Seq(Nat)
    PROVE  Quoted(s) \in Seq(Nat)
<1>1. <<Quote>> \in Seq(Nat) /\ escape_json_string(s) \in Seq(Nat)
  BY EscapeType DEF Quote
<1> QED
  BY <1>1, ConcatProperties DEF Quoted

\* Strings are joined to a string.
LEMMA JoinedType ==
    ASSUME NEW ss \in Seq(Seq(Nat)), NEW separator \in Seq(Nat)
    PROVE  Joined(ss, separator) \in Seq(Nat)
<1> DEFINE tt == [i \in DOMAIN ss |-> IF i = 1 THEN ss[i] ELSE separator \o ss[i]]
<1>1. Len(ss) \in Nat /\ DOMAIN ss = 1..Len(ss)
  BY LenProperties
<1>2. \A i \in 1..Len(ss) : ss[i] \in Seq(Nat) /\ separator \o ss[i] \in Seq(Nat)
  BY <1>1, ElementOfSeq, ConcatProperties
<1>3. tt \in Seq(Seq(Nat))
  BY <1>1, <1>2
<1> HIDE DEF tt
<1>4. FlattenSeq(tt) \in Seq(Nat)
  BY <1>3, FlatLength
<1> QED
  BY <1>4 DEF Joined, tt

\* The least of a set of numbers.
LEMMA MinOf ==
    ASSUME NEW T, T \subseteq Nat, T # {}
    PROVE  Min(T) \in T /\ \A y \in T : Min(T) <= y
<1>1. \E x \in T : \A y \in T : x <= y
  BY Least
<1> QED
  BY <1>1 DEF Min

\* The greatest of a set of numbers with a bound.
LEMMA MaxOf ==
    ASSUME NEW n \in Nat, NEW T, T \subseteq 0..n, T # {}
    PROVE  Max(T) \in T /\ \A y \in T : y <= Max(T)
<1> DEFINE U == {n - x : x \in T}
<1>0. \A x \in T : x \in 0..n /\ x \in Nat /\ n - x \in Nat
  <2> SUFFICES ASSUME NEW x \in T PROVE x \in 0..n /\ x \in Nat /\ n - x \in Nat
    OBVIOUS
  <2>1. x \in 0..n
    OBVIOUS
  <2> QED
    BY <2>1
<1>1. U \subseteq Nat /\ U # {}
  BY <1>0
<1>2. PICK u \in U : \A v \in U : u <= v
  <2> HIDE DEF U
  <2> QED
    BY <1>1, Least
<1>3. PICK x \in T : u = n - x
  BY <1>2
<1>4. \A y \in T : x >= y
  <2> SUFFICES ASSUME NEW y \in T PROVE x >= y
    OBVIOUS
  <2>1. n - x <= n - y
    BY <1>2, <1>3
  <2>2. x \in Nat /\ y \in Nat
    OBVIOUS
  <2> QED
    BY <2>1, <2>2
<1>5. \E w \in T : \A y \in T : w >= y
  BY <1>4
<1>6. Max(T) \in T /\ \A y \in T : Max(T) >= y
  BY <1>5 DEF Max
<1> DEFINE m == Max(T)
<1>7. m \in Nat
  BY <1>0, <1>6
<1>8. \A y \in T : y \in Nat /\ m >= y
  BY <1>0, <1>6
<1> HIDE DEF m
<1>9. \A y \in T : y <= m
  BY <1>7, <1>8
<1> QED
  BY <1>6, <1>9 DEF m

\* A string does not get longer by trimming.
LEMMA TrimType ==
    ASSUME NEW s \in Seq(Nat)
    PROVE  trim(s) \in Seq(Nat) /\ Len(trim(s)) <= Len(s)
<1> DEFINE kept == {i \in DOMAIN s : s[i] \notin Trimmed}
<1>1. Len(s) \in Nat /\ DOMAIN s = 1..Len(s) /\ \A i \in 1..Len(s) : s[i] \in Nat
  BY LenProperties, ElementOfSeq
<1>2. CASE kept = {}
  BY <1>1, <1>2 DEF trim
<1>3. CASE kept # {}
  <2>1. kept \subseteq Nat /\ kept \subseteq 0..Len(s) /\ kept \subseteq 1..Len(s)
    BY <1>1
  <2>2. Min(kept) \in 1..Len(s) /\ Max(kept) \in 1..Len(s)
    <3> HIDE DEF kept
    <3> QED
      BY <1>1, <1>3, <2>1, MinOf, MaxOf
  <2>3. trim(s) = SubSeq(s, Min(kept), Max(kept))
    BY <1>3 DEF trim
  <2> DEFINE a == Min(kept)
             b == Max(kept)
  <2> HIDE DEF a, b, kept
  <2>4. SubSeq(s, a, b) \in Seq(Nat) /\ Len(SubSeq(s, a, b)) = IF a <= b THEN b - a + 1 ELSE 0
    BY <1>1, <2>2, SubSeqProperties DEF a, b
  <2>5. Len(SubSeq(s, a, b)) <= Len(s)
    BY <1>1, <2>2, <2>4 DEF a, b
  <2> QED
    BY <2>3, <2>4, <2>5 DEF a, b
<1> QED
  BY <1>2, <1>3

-----------------------------------------------------------------------------
(* Places in the text.                                                       *)

\* A scan that only moves forward stops at or after where it began.
LEMMA ScanningRange ==
    ASSUME NEW n \in Nat \ {0}, NEW stop \in [1..n -> BOOLEAN], NEW next \in [1..n -> Nat],
           \A j \in 1..n : stop[j] \/ next[j] \in (j + 1)..n,
           NEW f, \A j \in 1..n : f[j] = IF stop[j] THEN j ELSE f[next[j]]
    PROVE  \A j \in 1..n : f[j] \in j..n
<1> DEFINE From(m) == \A j \in (n - m)..n : f[j] \in j..n
           T == {m \in Nat : m < n => From(m)}
<1>1. 0 \in T
  <2>1. \A j \in (n - 0)..n : j = n
    OBVIOUS
  <2>2. n \in 1..n /\ ~(next[n] \in (n + 1)..n)
    OBVIOUS
  <2>3. f[n] = n
    BY <2>2
  <2> QED
    BY <2>1, <2>2, <2>3
<1>2. ASSUME NEW m \in Nat, m \in T, m + 1 < n
      PROVE  From(m + 1)
  <2> DEFINE k == n - (m + 1)
  <2>1. From(m) /\ k \in 1..n /\ k + 1 = n - m
    BY <1>2
  <2>2. f[k] \in k..n
    <3>1. CASE stop[k]
      BY <2>1, <3>1
    <3>2. CASE ~stop[k]
      <4>1. next[k] \in (k + 1)..n /\ f[k] = f[next[k]]
        BY <2>1, <3>2
      <4>2. f[next[k]] \in next[k]..n
        BY <2>1, <4>1
      <4> HIDE DEF k
      <4> QED
        BY <2>1, <4>1, <4>2
    <3> QED
      BY <3>1, <3>2
  <2>3. \A j \in (k + 1)..n : f[j] \in j..n
    BY <2>1
  <2> HIDE DEF k
  <2>4. \A j \in k..n : f[j] \in j..n
    BY <2>1, <2>2, <2>3
  <2> QED
    BY <2>4 DEF k
<1> HIDE DEF From
<1>3. \A m \in Nat : m \in T => m + 1 \in T
  BY <1>2
<1>4. Nat \subseteq T
  <2> HIDE DEF T
  <2> QED
    BY <1>1, <1>3, Induction
<1>5. From(n - 1) /\ n - (n - 1) = 1
  <2>1. n - 1 \in Nat /\ n - 1 < n /\ n - (n - 1) = 1
    OBVIOUS
  <2> QED
    BY <1>4, <2>1
<1> QED
  BY <1>5 DEF From

\* The end of a text is behind its characters.
LEMMA TextEnd ==
    ASSUME content \in Seq(Nat)
    PROVE  End \in Nat \ {0} /\ Len(content) \in Nat /\ \A i \in 1..End : i < End => content[i] \in Nat
<1>1. Len(content) \in Nat /\ \A i \in 1..Len(content) : content[i] \in Nat
  BY LenProperties, ElementOfSeq
<1> QED
  BY <1>1 DEF End

\* The scan over white space stops where there is none, and no sooner.
LEMMA SkipWhitespace ==
    ASSUME content \in Seq(Nat)
    PROVE  \A i \in 1..End :
              /\ skip_whitespace(i) \in i..End
              /\ skip_whitespace(i) = IF i < End /\ content[i] \in Blanks
                                      THEN skip_whitespace(i + 1) ELSE i
<1> DEFINE n == End
           B(j) == j < n /\ content[j] \in Blanks
           stop == [j \in 1..n |-> ~B(j)]
           next == [j \in 1..n |-> j + 1]
           Eq(f) == f = [j \in 1..n |-> IF j < n /\ content[j] \in Blanks THEN f[j + 1] ELSE j]
<1>1. n \in Nat \ {0}
  BY TextEnd
<1> HIDE DEF n
<1>2. /\ stop \in [1..n -> BOOLEAN] /\ next \in [1..n -> Nat]
      /\ \A j \in 1..n : stop[j] \/ next[j] \in (j + 1)..n
      /\ \A j \in 1..n : stop[j] = ~B(j) /\ next[j] = j + 1
  <2>1. \A j \in 1..n : (~B(j)) \in BOOLEAN /\ j + 1 \in Nat
    BY <1>1
  <2>2. \A j \in 1..n : ~B(j) \/ j + 1 \in (j + 1)..n
    BY <1>1
  <2> HIDE DEF B
  <2> QED
    BY <2>1, <2>2
<1>3. \E f : Eq(f)
  <2> HIDE DEF stop, next, B
  <2>0. \E f \in [1..n -> Nat] :
          /\ f = [j \in 1..n |-> IF stop[j] THEN j ELSE f[next[j]]]
          /\ \A j \in 1..n : f[j] \in j..n
    BY <1>1, <1>2, Scanning, ZenonT(30)
  <2>1. PICK f \in [1..n -> Nat] : f = [j \in 1..n |-> IF stop[j] THEN j ELSE f[next[j]]]
    BY <2>0
  <2>2. \A j \in 1..n : f[j] = IF B(j) THEN f[j + 1] ELSE j
    <3>1. \A j \in 1..n : f[j] = IF stop[j] THEN j ELSE f[next[j]]
      BY <2>1
    <3> QED
      BY <1>2, <3>1
  <2>3. f = [j \in 1..n |-> f[j]]
    BY <2>1
  <2>4. Eq(f)
    BY <2>2, <2>3 DEF B
  <2> HIDE DEF Eq
  <2> QED
    BY <2>4
<1> DEFINE e == CHOOSE f : Eq(f)
<1>4. Eq(e)
  <2> HIDE DEF Eq
  <2> QED
    BY <1>3
<1>5. \A i : skip_whitespace(i) = e[i]
  BY DEF skip_whitespace, n
<1> HIDE DEF e
<1>6. \A j \in 1..n : e[j] = IF B(j) THEN e[j + 1] ELSE j
  BY <1>4
<1>7. \A j \in 1..n : e[j] \in j..n
  <2>1. \A j \in 1..n : e[j] = IF stop[j] THEN j ELSE e[next[j]]
    BY <1>2, <1>6
  <2> HIDE DEF stop, next, B
  <2> QED
    BY <1>1, <1>2, <2>1, ScanningRange
<1> QED
  BY <1>5, <1>6, <1>7 DEF n

\* The scan for one of some characters stops at the first of them.
LEMMA NextOfStops ==
    ASSUME content \in Seq(Nat), NEW chars
    PROVE  \A i \in 1..End :
              /\ NextOf(i, chars) \in i..End
              /\ NextOf(i, chars) = IF i < End /\ content[i] \notin chars
                                    THEN NextOf(i + 1, chars) ELSE i
<1> DEFINE n == End
           B(j) == j < n /\ content[j] \notin chars
           stop == [j \in 1..n |-> ~B(j)]
           next == [j \in 1..n |-> j + 1]
           Eq(f) == f = [j \in 1..n |-> IF j < n /\ content[j] \notin chars THEN f[j + 1] ELSE j]
<1>1. n \in Nat \ {0}
  BY TextEnd
<1> HIDE DEF n
<1>2. /\ stop \in [1..n -> BOOLEAN] /\ next \in [1..n -> Nat]
      /\ \A j \in 1..n : stop[j] \/ next[j] \in (j + 1)..n
      /\ \A j \in 1..n : stop[j] = ~B(j) /\ next[j] = j + 1
  <2>1. \A j \in 1..n : (~B(j)) \in BOOLEAN /\ j + 1 \in Nat
    BY <1>1
  <2>2. \A j \in 1..n : ~B(j) \/ j + 1 \in (j + 1)..n
    BY <1>1
  <2> HIDE DEF B
  <2> QED
    BY <2>1, <2>2
<1>3. \E f : Eq(f)
  <2> HIDE DEF stop, next, B
  <2>0. \E f \in [1..n -> Nat] :
          /\ f = [j \in 1..n |-> IF stop[j] THEN j ELSE f[next[j]]]
          /\ \A j \in 1..n : f[j] \in j..n
    BY <1>1, <1>2, Scanning, ZenonT(30)
  <2>1. PICK f \in [1..n -> Nat] : f = [j \in 1..n |-> IF stop[j] THEN j ELSE f[next[j]]]
    BY <2>0
  <2>2. \A j \in 1..n : f[j] = IF B(j) THEN f[j + 1] ELSE j
    <3>1. \A j \in 1..n : f[j] = IF stop[j] THEN j ELSE f[next[j]]
      BY <2>1
    <3> QED
      BY <1>2, <3>1
  <2>3. f = [j \in 1..n |-> f[j]]
    BY <2>1
  <2>4. Eq(f)
    BY <2>2, <2>3 DEF B
  <2> HIDE DEF Eq
  <2> QED
    BY <2>4
<1> DEFINE e == CHOOSE f : Eq(f)
<1>4. Eq(e)
  <2> HIDE DEF Eq
  <2> QED
    BY <1>3
<1>5. \A i : NextOf(i, chars) = e[i]
  BY DEF NextOf, n
<1> HIDE DEF e
<1>6. \A j \in 1..n : e[j] = IF B(j) THEN e[j + 1] ELSE j
  BY <1>4
<1>7. \A j \in 1..n : e[j] \in j..n
  <2>1. \A j \in 1..n : e[j] = IF stop[j] THEN j ELSE e[next[j]]
    BY <1>2, <1>6
  <2> HIDE DEF stop, next, B
  <2> QED
    BY <1>1, <1>2, <2>1, ScanningRange
<1> QED
  BY <1>5, <1>6, <1>7 DEF n

\* The scan for the closing quote stops at a quote that no backslash precedes.
LEMMA ClosingQuoteStops ==
    ASSUME content \in Seq(Nat)
    PROVE  \A i \in 1..End :
              /\ ClosingQuote(i) \in i..End
              /\ ClosingQuote(i) = IF i = End \/ content[i] = Quote THEN i
                                   ELSE ClosingQuote(IF content[i] = Backslash /\ i + 1 < End
                                                     THEN i + 2 ELSE i + 1)
<1> DEFINE n == End
           B(j) == j = n \/ content[j] = Quote
           after(j) == IF content[j] = Backslash /\ j + 1 < n THEN j + 2 ELSE j + 1
           stop == [j \in 1..n |-> B(j)]
           next == [j \in 1..n |-> after(j)]
           Eq(f) == f = [j \in 1..n |->
                           IF j = n \/ content[j] = Quote THEN j
                           ELSE f[IF content[j] = Backslash /\ j + 1 < n THEN j + 2 ELSE j + 1]]
<1>1. n \in Nat \ {0}
  BY TextEnd
<1> HIDE DEF n
<1>2. /\ stop \in [1..n -> BOOLEAN] /\ next \in [1..n -> Nat]
      /\ \A j \in 1..n : stop[j] \/ next[j] \in (j + 1)..n
      /\ \A j \in 1..n : stop[j] = B(j) /\ next[j] = after(j)
  <2>1. \A j \in 1..n : B(j) \in BOOLEAN /\ after(j) \in Nat
    BY <1>1
  <2>2. \A j \in 1..n : B(j) \/ after(j) \in (j + 1)..n
    BY <1>1
  <2> HIDE DEF B, after
  <2> QED
    BY <2>1, <2>2
<1>3. \E f : Eq(f)
  <2> HIDE DEF stop, next, B, after
  <2>0. \E f \in [1..n -> Nat] :
          /\ f = [j \in 1..n |-> IF stop[j] THEN j ELSE f[next[j]]]
          /\ \A j \in 1..n : f[j] \in j..n
    BY <1>1, <1>2, Scanning, ZenonT(30)
  <2>1. PICK f \in [1..n -> Nat] : f = [j \in 1..n |-> IF stop[j] THEN j ELSE f[next[j]]]
    BY <2>0
  <2>2. \A j \in 1..n : f[j] = IF B(j) THEN j ELSE f[after(j)]
    <3>1. \A j \in 1..n : f[j] = IF stop[j] THEN j ELSE f[next[j]]
      BY <2>1
    <3> QED
      BY <1>2, <3>1
  <2>3. f = [j \in 1..n |-> f[j]]
    BY <2>1
  <2>4. Eq(f)
    BY <2>2, <2>3 DEF B, after
  <2> HIDE DEF Eq
  <2> QED
    BY <2>4
<1> DEFINE e == CHOOSE f : Eq(f)
<1>4. Eq(e)
  <2> HIDE DEF Eq
  <2> QED
    BY <1>3
<1>5. \A i : ClosingQuote(i) = e[i]
  BY DEF ClosingQuote, n
<1> HIDE DEF e
<1>6. \A j \in 1..n : e[j] = IF B(j) THEN j ELSE e[after(j)]
  BY <1>4
<1>7. \A j \in 1..n : e[j] \in j..n
  <2>1. \A j \in 1..n : e[j] = IF stop[j] THEN j ELSE e[next[j]]
    BY <1>2, <1>6
  <2> HIDE DEF stop, next, B, after
  <2> QED
    BY <1>1, <1>2, <2>1, ScanningRange
<1> QED
  BY <1>5, <1>6, <1>7 DEF n

-----------------------------------------------------------------------------
(* The order of the names.                                                   *)

\* d is the first place at which s and t differ, and s comes first there.
Differs(s, t, d) ==
    /\ d \in Nat \ {0} /\ d - 1 <= Len(s) /\ d <= Len(t)
    /\ \A j \in 1..(d - 1) : s[j] = t[j]
    /\ d <= Len(s) => s[d] < t[d]

\* One string precedes another if it does where they first differ.
LEMMA PrecedesAt ==
    ASSUME NEW s \in Seq(Nat), NEW t \in Seq(Nat)
    PROVE  Precedes(s, t) <=> \E d \in Nat : Differs(s, t, d)
<1> DEFINE m == Len(s)
           n == Len(t)
<1>0. /\ m \in Nat /\ n \in Nat
      /\ \A j \in 1..m : s[j] \in Nat
      /\ \A j \in 1..n : t[j] \in Nat
  BY LenProperties, ElementOfSeq
<1>1. \A k \in 0..m : /\ SubSeq(s, 1, k) \in Seq(Nat) /\ Len(SubSeq(s, 1, k)) = k
                      /\ \A j \in 1..k : SubSeq(s, 1, k)[j] = s[j]
  <2> SUFFICES ASSUME NEW k \in 0..m
               PROVE  /\ SubSeq(s, 1, k) \in Seq(Nat) /\ Len(SubSeq(s, 1, k)) = k
                      /\ \A j \in 1..k : SubSeq(s, 1, k)[j] = s[j]
    OBVIOUS
  <2>1. k \in Int /\ 1 \in Int /\ \A j \in 1..k : s[j] \in Nat
    BY <1>0
  <2>2. /\ SubSeq(s, 1, k) \in Seq(Nat)
        /\ Len(SubSeq(s, 1, k)) = IF 1 <= k THEN k - 1 + 1 ELSE 0
        /\ \A j \in 1..(k - 1 + 1) : SubSeq(s, 1, k)[j] = s[1 + j - 1]
    BY <2>1, SubSeqProperties
  <2> QED
    BY <1>0, <2>2
<1>2. \A k \in 0..n : /\ SubSeq(t, 1, k) \in Seq(Nat) /\ Len(SubSeq(t, 1, k)) = k
                      /\ \A j \in 1..k : SubSeq(t, 1, k)[j] = t[j]
  <2> SUFFICES ASSUME NEW k \in 0..n
               PROVE  /\ SubSeq(t, 1, k) \in Seq(Nat) /\ Len(SubSeq(t, 1, k)) = k
                      /\ \A j \in 1..k : SubSeq(t, 1, k)[j] = t[j]
    OBVIOUS
  <2>1. k \in Int /\ 1 \in Int /\ \A j \in 1..k : t[j] \in Nat
    BY <1>0
  <2>2. /\ SubSeq(t, 1, k) \in Seq(Nat)
        /\ Len(SubSeq(t, 1, k)) = IF 1 <= k THEN k - 1 + 1 ELSE 0
        /\ \A j \in 1..(k - 1 + 1) : SubSeq(t, 1, k)[j] = t[1 + j - 1]
    BY <2>1, SubSeqProperties
  <2> QED
    BY <1>0, <2>2
<1>3. \A k \in 0..m : k <= n =>
         (SubSeq(s, 1, k) = SubSeq(t, 1, k) <=> \A j \in 1..k : s[j] = t[j])
  <2> SUFFICES ASSUME NEW k \in 0..m, k <= n
               PROVE  SubSeq(s, 1, k) = SubSeq(t, 1, k) <=> \A j \in 1..k : s[j] = t[j]
    OBVIOUS
  <2> DEFINE u == SubSeq(s, 1, k)
             v == SubSeq(t, 1, k)
  <2>1. k \in 0..n
    BY <1>0
  <2>2. /\ u \in Seq(Nat) /\ v \in Seq(Nat) /\ Len(u) = k /\ Len(v) = k
        /\ \A j \in 1..k : u[j] = s[j] /\ v[j] = t[j]
    BY <1>1, <1>2, <2>1
  <2> HIDE DEF u, v
  <2>3. ASSUME \A j \in 1..k : s[j] = t[j] PROVE u = v
    <3>1. Len(u) = Len(v) /\ \A j \in 1..Len(u) : u[j] = v[j]
      BY <2>2, <2>3
    <3> QED
      BY <2>2, <3>1, SeqEqual
  <2>4. ASSUME u = v PROVE \A j \in 1..k : s[j] = t[j]
    BY <2>2, <2>4
  <2>5. u = v <=> \A j \in 1..k : s[j] = t[j]
    BY <2>3, <2>4
  <2> QED
    BY <2>5 DEF u, v
<1>4. m = n /\ (\A j \in 1..m : s[j] = t[j]) => s = t
  BY <1>0, SeqEqual
<1>5. IsPrefix(s, t) <=> m <= n /\ \A j \in 1..m : s[j] = t[j]
  <2>1. IsPrefix(s, t) <=> m <= n /\ SubSeq(s, 1, m) = SubSeq(t, 1, m)
    BY DEF IsPrefix
  <2>2. m \in 0..m
    BY <1>0
  <2> QED
    BY <1>3, <2>1, <2>2
<1>6. ASSUME s # t, IsPrefix(s, t) PROVE Differs(s, t, m + 1) /\ m + 1 \in Nat
  <2>1. m < n
    BY <1>0, <1>4, <1>5, <1>6
  <2> QED
    BY <1>0, <1>5, <1>6, <2>1 DEF Differs
<1>7. ASSUME NEW i \in 1..m, i <= n,
             SubSeq(s, 1, i - 1) = SubSeq(t, 1, i - 1), s[i] < t[i]
      PROVE  Differs(s, t, i) /\ i \in Nat
  <2>1. i - 1 \in 0..m /\ i - 1 <= n
    BY <1>0, <1>7
  <2>2. \A j \in 1..(i - 1) : s[j] = t[j]
    BY <1>3, <1>7, <2>1
  <2> QED
    BY <1>0, <1>7, <2>2 DEF Differs
<1>8. ASSUME NEW d \in Nat, Differs(s, t, d) PROVE Precedes(s, t)
  <2>1. CASE d <= m
    <3>1. d \in 1..m /\ d <= n /\ d - 1 \in 0..m /\ d - 1 <= n /\ s[d] < t[d]
      BY <1>0, <1>8, <2>1 DEF Differs
    <3>2. SubSeq(s, 1, d - 1) = SubSeq(t, 1, d - 1)
      BY <1>3, <1>8, <3>1 DEF Differs
    <3> QED
      BY <3>1, <3>2 DEF Precedes
  <2>2. CASE ~(d <= m)
    <3>1. d - 1 = m /\ m < n
      BY <1>0, <1>8, <2>2 DEF Differs
    <3>2. IsPrefix(s, t)
      BY <1>0, <1>5, <1>8, <3>1 DEF Differs
    <3>3. s # t
      BY <1>0, <3>1
    <3> QED
      BY <3>2, <3>3 DEF Precedes
  <2> QED
    BY <2>1, <2>2
<1> QED
  <2>1. Precedes(s, t) <=>
          \/ s # t /\ IsPrefix(s, t)
          \/ \E i \in 1..m : i <= n /\ SubSeq(s, 1, i - 1) = SubSeq(t, 1, i - 1) /\ s[i] < t[i]
    BY DEF Precedes
  <2> QED
    BY <1>6, <1>7, <1>8, <2>1

\* The order in which field names are written: two names are never written in either
\* order, so that the text that is signed depends on the fields alone.
THEOREM StrictOrder ==
    /\ \A s \in Seq(Nat) : ~Precedes(s, s)
    /\ \A s, t \in Seq(Nat) : s # t => Precedes(s, t) \/ Precedes(t, s)
    /\ \A s, t, u \in Seq(Nat) : Precedes(s, t) /\ Precedes(t, u) => Precedes(s, u)
<1>1. ASSUME NEW s \in Seq(Nat) PROVE ~Precedes(s, s)
  <2> SUFFICES ASSUME NEW d \in Nat, Differs(s, s, d) PROVE FALSE
    BY PrecedesAt
  <2>1. d <= Len(s) /\ s[d] < s[d] /\ d \in 1..Len(s)
    BY LenProperties DEF Differs
  <2>2. s[d] \in Nat
    BY <2>1, ElementOfSeq
  <2> QED
    BY <2>1, <2>2
<1>2. ASSUME NEW s \in Seq(Nat), NEW t \in Seq(Nat), s # t
      PROVE  Precedes(s, t) \/ Precedes(t, s)
  <2> DEFINE m == Len(s)
             n == Len(t)
             T == {d \in Nat \ {0} : /\ d <= m + 1 /\ d <= n + 1
                                     /\ ~(d <= m /\ d <= n /\ s[d] = t[d])}
  <2>1. m \in Nat /\ n \in Nat /\ (\A j \in 1..m : s[j] \in Nat) /\ (\A j \in 1..n : t[j] \in Nat)
    BY LenProperties, ElementOfSeq
  <2>2. T \subseteq Nat /\ T # {}
    <3>1. CASE m <= n
      <4>1. m + 1 \in T
        BY <2>1, <3>1
      <4> QED
        BY <4>1
    <3>2. CASE ~(m <= n)
      <4>1. n + 1 \in T
        BY <2>1, <3>2
      <4> QED
        BY <4>1
    <3> QED
      BY <3>1, <3>2
  <2>3. PICK d \in T : \A y \in T : d <= y
    <3> HIDE DEF T
    <3> QED
      BY <2>2, Least
  <2>4. \A j \in 1..(d - 1) : j <= m /\ j <= n /\ s[j] = t[j]
    <3> SUFFICES ASSUME NEW j \in 1..(d - 1), ~(j <= m /\ j <= n /\ s[j] = t[j])
                 PROVE  FALSE
      OBVIOUS
    <3>1. j \in T /\ ~(d <= j)
      BY <2>1, SMTT(30)
    <3> QED
      BY <2>3, <3>1
  <2>5. d \in Nat \ {0} /\ d <= m + 1 /\ d <= n + 1 /\ ~(d <= m /\ d <= n /\ s[d] = t[d])
    OBVIOUS
  <2> HIDE DEF T
  <2>6. CASE d <= m /\ d <= n
    <3>1. s[d] \in Nat /\ t[d] \in Nat /\ s[d] # t[d]
      BY <2>1, <2>5, <2>6
    <3>2. Differs(s, t, d) \/ Differs(t, s, d)
      BY <2>1, <2>4, <2>5, <2>6, <3>1 DEF Differs
    <3> QED
      BY <2>5, <3>2, PrecedesAt
  <2>7. CASE d = m + 1 /\ d <= n
    <3>1. Differs(s, t, d)
      BY <2>1, <2>4, <2>5, <2>7 DEF Differs
    <3> QED
      BY <2>5, <3>1, PrecedesAt
  <2>8. CASE d = n + 1 /\ d <= m
    <3>1. Differs(t, s, d)
      BY <2>1, <2>4, <2>5, <2>8 DEF Differs
    <3> QED
      BY <2>5, <3>1, PrecedesAt
  <2>9. CASE d = m + 1 /\ d = n + 1
    <3>1. m = n /\ \A j \in 1..m : s[j] = t[j]
      BY <2>1, <2>4, <2>9
    <3>2. s = t
      BY <3>1, SeqEqual
    <3> QED
      BY <1>2, <3>2
  <2> QED
    BY <2>1, <2>5, <2>6, <2>7, <2>8, <2>9
<1>3. ASSUME NEW s \in Seq(Nat), NEW t \in Seq(Nat), NEW u \in Seq(Nat),
             Precedes(s, t), Precedes(t, u)
      PROVE  Precedes(s, u)
  <2>1. PICK d \in Nat : Differs(s, t, d)
    BY <1>3, PrecedesAt
  <2>2. PICK e \in Nat : Differs(t, u, e)
    BY <1>3, PrecedesAt
  <2>3. /\ Len(s) \in Nat /\ Len(t) \in Nat /\ Len(u) \in Nat
        /\ \A j \in 1..Len(s) : s[j] \in Nat
        /\ \A j \in 1..Len(t) : t[j] \in Nat
        /\ \A j \in 1..Len(u) : u[j] \in Nat
    BY LenProperties, ElementOfSeq
  <2>4. CASE d <= e
    <3>1. d <= Len(u) /\ d - 1 <= Len(s) /\ d <= Len(t) /\ d # 0
      BY <2>1, <2>2, <2>3, <2>4 DEF Differs
    <3>2. \A j \in 1..(d - 1) : s[j] = u[j]
      <4>1. \A j \in 1..(d - 1) : j \in 1..(e - 1)
        BY <2>1, <2>2, <2>4
      <4> QED
        BY <2>1, <2>2, <4>1 DEF Differs
    <3>3. ASSUME d <= Len(s) PROVE s[d] < u[d]
      <4>1. s[d] < t[d] /\ d \in 1..Len(s) /\ d \in 1..Len(t) /\ d \in 1..Len(u)
        BY <2>1, <2>3, <3>1, <3>3 DEF Differs
      <4>2. t[d] < u[d] \/ t[d] = u[d]
        <5>1. CASE d = e
          BY <2>2, <3>1, <5>1 DEF Differs
        <5>2. CASE d # e
          <6>1. d \in 1..(e - 1)
            BY <2>4, <3>1, <5>2
          <6> QED
            BY <2>2, <6>1 DEF Differs
        <5> QED
          BY <5>1, <5>2
      <4> QED
        BY <2>3, <4>1, <4>2, SMTT(30)
    <3>4. Differs(s, u, d)
      BY <3>1, <3>2, <3>3 DEF Differs
    <3> QED
      BY <3>4, PrecedesAt
  <2>5. CASE ~(d <= e)
    <3>1. e <= Len(u) /\ e <= Len(s) /\ e <= Len(t) /\ e # 0 /\ e \in 1..(d - 1)
      BY <2>1, <2>2, <2>3, <2>5, SMTT(30) DEF Differs
    <3>2. \A j \in 1..(e - 1) : s[j] = u[j]
      <4>1. \A j \in 1..(e - 1) : j \in 1..(d - 1)
        BY <2>1, <2>2, <2>5
      <4> QED
        BY <2>1, <2>2, <4>1 DEF Differs
    <3>3. s[e] = t[e] /\ t[e] < u[e]
      BY <2>1, <2>2, <3>1 DEF Differs
    <3>4. Differs(s, u, e)
      BY <2>3, <3>1, <3>2, <3>3 DEF Differs
    <3> QED
      BY <3>4, PrecedesAt
  <2> QED
    BY <2>4, <2>5
<1> QED
  BY <1>1, <1>2, <1>3

\* Sorted lists every name once, and nothing else.
LEMMA SortedNames ==
    ASSUME NEW S, IsFiniteSet(S), S \subseteq Seq(Nat)
    PROVE  /\ Cardinality(S) \in Nat
           /\ Sorted(S) \in [1..Cardinality(S) -> S]
           /\ \A i, j \in 1..Cardinality(S) : Sorted(S)[i] = Sorted(S)[j] => i = j
           /\ \A s \in S : \E i \in 1..Cardinality(S) : Sorted(S)[i] = s
<1> DEFINE n == Cardinality(S)
           before(s) == {t \in S : Precedes(t, s)}
           rank(s) == Cardinality(before(s)) + 1
<1>1. n \in Nat
  BY FS_CardinalityType
<1>2. ASSUME NEW s \in S
      PROVE  before(s) \subseteq S /\ s \notin before(s)
             /\ IsFiniteSet(before(s)) /\ Cardinality(before(s)) \in Nat /\ rank(s) \in 1..n
  <2>1. before(s) \subseteq S /\ s \notin before(s)
    BY StrictOrder
  <2> DEFINE B == before(s)
  <2> HIDE DEF B
  <2>2. B \in SUBSET S /\ B # S
    BY <2>1 DEF B
  <2>3. IsFiniteSet(B) /\ Cardinality(B) <= n /\ n # Cardinality(B)
    BY <2>2, FS_Subset
  <2>4. Cardinality(B) \in Nat
    BY <2>3, FS_CardinalityType
  <2>5. Cardinality(B) + 1 \in 1..n
    BY <1>1, <2>3, <2>4
  <2> QED
    BY <2>1, <2>3, <2>4, <2>5 DEF B
<1>3. ASSUME NEW s \in S, NEW t \in S, Precedes(s, t)
      PROVE  rank(s) # rank(t)
  <2> DEFINE A == before(s)
             B == before(t)
  <2>1. A \subseteq B /\ s \in B /\ s \notin A
    <3>1. A \subseteq B
      BY <1>3, StrictOrder
    <3> QED
      BY <1>2, <1>3, <3>1
  <2>2. IsFiniteSet(B) /\ Cardinality(B) \in Nat /\ Cardinality(A) \in Nat
    BY <1>2
  <2> HIDE DEF A, B
  <2>3. A \in SUBSET B /\ A # B
    BY <2>1
  <2>4. Cardinality(A) # Cardinality(B)
    BY <2>2, <2>3, FS_Subset
  <2>5. Cardinality(A) + 1 # Cardinality(B) + 1
    BY <2>2, <2>4
  <2> QED
    BY <2>5 DEF A, B
<1>4. \A s, t \in S : rank(s) = rank(t) => s = t
  <2> HIDE DEF rank
  <2> SUFFICES ASSUME NEW s \in S, NEW t \in S, s # t PROVE rank(s) # rank(t)
    OBVIOUS
  <2>1. Precedes(s, t) \/ Precedes(t, s)
    BY StrictOrder
  <2> QED
    BY <1>3, <2>1
<1> DEFINE f == [s \in S |-> rank(s)]
<1>5. \A i \in 1..n : \E s \in S : rank(s) = i
  <2> HIDE DEF rank
  <2>1. f \in [S -> 1..n] /\ \A s, t \in S : f[s] = f[t] => s = t
    BY <1>2, <1>4
  <2>2. f \in Injection(S, 1..n)
    <3> HIDE DEF f
    <3> QED
      BY <2>1 DEF Injection, IsInjective
  <2>3. IsFiniteSet(1..n) /\ Cardinality(1..n) = n
    <3>1. 1 \in Int /\ n \in Int /\ (1 > n => n = 0)
      BY <1>1
    <3> QED
      BY <1>1, <3>1, FS_Interval
  <2>4. f \in Surjection(S, 1..n)
    <3> HIDE DEF f
    <3> QED
      BY <2>2, <2>3, FS_Injection
  <2> QED
    BY <2>4 DEF Surjection
<1> DEFINE K == Sorted(S)
<1>6. K = [i \in 1..n |-> CHOOSE s \in S : rank(s) = i]
  BY DEF Sorted
<1> HIDE DEF K, rank, f
<1>7. \A i \in 1..n : K[i] \in S /\ rank(K[i]) = i
  <2> SUFFICES ASSUME NEW i \in 1..n PROVE K[i] \in S /\ rank(K[i]) = i
    OBVIOUS
  <2>1. K[i] = CHOOSE s \in S : rank(s) = i
    BY <1>6
  <2>2. \E s \in S : rank(s) = i
    BY <1>5
  <2> QED
    BY <2>1, <2>2
<1>8. K \in [1..n -> S]
  BY <1>6, <1>7
<1>9. \A s \in S : \E i \in 1..n : K[i] = s
  <2> SUFFICES ASSUME NEW s \in S PROVE \E i \in 1..n : K[i] = s
    OBVIOUS
  <2>1. rank(s) \in 1..n
    BY <1>2
  <2>2. K[rank(s)] \in S /\ rank(K[rank(s)]) = rank(s)
    BY <1>7, <2>1
  <2> QED
    BY <1>4, <2>1, <2>2
<1>10. \A i, j \in 1..n : K[i] = K[j] => i = j
  BY <1>7
<1> QED
  BY <1>1, <1>8, <1>9, <1>10 DEF K

-----------------------------------------------------------------------------
(* Objects.                                                                  *)

\* The text of a value is a text.
LEMMA TextOfType ==
    ASSUME NEW v, IsValue(v)
    PROVE  TextOf(v) \in Seq(Nat)
<1>1. CASE v \in {"string"} \X Strings
  <2>1. v[1] = "string" /\ v[2] \in Seq(Nat)
    BY <1>1 DEF Strings
  <2>2. TextOf(v) = Quoted(v[2])
    BY <2>1 DEF TextOf
  <2> QED
    BY <2>1, <2>2, QuotedType
<1>2. CASE v \in {"bool"} \X BOOLEAN
  <2>1. TextOf(v) \in {WordTrue, WordFalse}
    BY <1>2 DEF TextOf
  <2>2. WordTrue \in Seq(Nat) /\ WordFalse \in Seq(Nat)
    BY DEF WordTrue, WordFalse
  <2> QED
    BY <2>1, <2>2
<1>3. CASE v \in {"array"} \X Seq(Strings)
  <2> DEFINE a == v[2]
             qq == [i \in DOMAIN a |-> Quoted(a[i])]
  <2>1. v[1] = "array" /\ a \in Seq(Strings)
    BY <1>3
  <2>2. TextOf(v) = <<OpenBracket>> \o Joined(qq, <<Comma, Space>>) \o <<CloseBracket>>
    BY <2>1 DEF TextOf
  <2> HIDE DEF a
  <2>3. Len(a) \in Nat /\ DOMAIN a = 1..Len(a) /\ \A i \in 1..Len(a) : a[i] \in Seq(Nat)
    BY <2>1, LenProperties, ElementOfSeq DEF Strings
  <2>4. qq \in Seq(Seq(Nat))
    <3>1. \A i \in 1..Len(a) : Quoted(a[i]) \in Seq(Nat)
      BY <2>3, QuotedType
    <3> QED
      BY <2>3, <3>1
  <2> HIDE DEF qq
  <2>5. <<Comma, Space>> \in Seq(Nat) /\ <<OpenBracket>> \in Seq(Nat) /\ <<CloseBracket>> \in Seq(Nat)
    BY DEF Comma, Space, OpenBracket, CloseBracket
  <2>6. Joined(qq, <<Comma, Space>>) \in Seq(Nat)
    BY <2>4, <2>5, JoinedType
  <2> DEFINE J == Joined(qq, <<Comma, Space>>)
             b == <<OpenBracket>>
             c == <<CloseBracket>>
  <2>7. J \in Seq(Nat) /\ b \in Seq(Nat) /\ c \in Seq(Nat)
    BY <2>5, <2>6
  <2> HIDE DEF J, b, c
  <2>8. b \o J \o c \in Seq(Nat)
    BY <2>7, ConcatProperties
  <2> QED
    BY <2>2, <2>8 DEF J, b, c
<1> QED
  BY <1>1, <1>2, <1>3 DEF IsValue

\* The text of one name and its value.
FieldText(k, v) == <<Space, Space>> \o Quoted(k) \o <<Colon, Space>> \o TextOf(v)

\* An object is written as a text.
LEMMA StringifyType ==
    ASSUME NEW o, IsFiniteSet(DOMAIN o), DOMAIN o \subseteq Strings,
           \A k \in DOMAIN o : IsValue(o[k])
    PROVE  stringify(o) \in Seq(Nat)
<1> DEFINE K == Sorted(DOMAIN o)
           n == Cardinality(DOMAIN o)
           ff == [i \in DOMAIN K |-> FieldText(K[i], o[K[i]])]
<1>1. stringify(o) = <<Newline>> \o Joined(ff, <<Comma, Newline>>) \o <<Newline>>
  BY DEF stringify, FieldText
<1>2. n \in Nat /\ K \in [1..n -> DOMAIN o]
  <2>1. DOMAIN o \subseteq Seq(Nat)
    BY DEF Strings
  <2> QED
    BY <2>1, SortedNames
<1> HIDE DEF K, n
<1>3. \A k \in DOMAIN o : FieldText(k, o[k]) \in Seq(Nat)
  <2> SUFFICES ASSUME NEW k \in DOMAIN o PROVE FieldText(k, o[k]) \in Seq(Nat)
    OBVIOUS
  <2>1. Quoted(k) \in Seq(Nat) /\ TextOf(o[k]) \in Seq(Nat)
    BY QuotedType, TextOfType DEF Strings
  <2>2. <<Space, Space>> \in Seq(Nat) /\ <<Colon, Space>> \in Seq(Nat)
    BY DEF Space, Colon
  <2> QED
    BY <2>1, <2>2, ConcatProperties DEF FieldText
<1>4. ff \in Seq(Seq(Nat))
  BY <1>2, <1>3
<1> HIDE DEF ff
<1>5. <<Comma, Newline>> \in Seq(Nat) /\ <<Newline>> \in Seq(Nat)
  BY DEF Comma, Newline
<1>6. Joined(ff, <<Comma, Newline>>) \in Seq(Nat)
  BY <1>4, <1>5, JoinedType
<1> QED
  BY <1>1, <1>5, <1>6, ConcatProperties

\* An object that gets a field is an object, with one field more at most.
LEMMA WithType ==
    ASSUME NEW o, IsFiniteSet(DOMAIN o), DOMAIN o \subseteq Strings,
           \A x \in DOMAIN o : IsValue(o[x]),
           NEW k \in Strings, NEW v, IsValue(v)
    PROVE  /\ DOMAIN With(o, k, v) = DOMAIN o \cup {k}
           /\ IsFiniteSet(DOMAIN With(o, k, v)) /\ DOMAIN With(o, k, v) \subseteq Strings
           /\ Cardinality(DOMAIN With(o, k, v)) \in Nat
           /\ Cardinality(DOMAIN With(o, k, v)) <= Cardinality(DOMAIN o) + 1
           /\ \A x \in DOMAIN With(o, k, v) : IsValue(With(o, k, v)[x])
<1> DEFINE w == With(o, k, v)
<1>1. DOMAIN w = DOMAIN o \cup {k} /\ \A x \in DOMAIN w : w[x] = IF x = k THEN v ELSE o[x]
  BY DEF With
<1> HIDE DEF w
<1>2. IsFiniteSet(DOMAIN w) /\ Cardinality(DOMAIN o) \in Nat
      /\ Cardinality(DOMAIN w) = IF k \in DOMAIN o THEN Cardinality(DOMAIN o)
                                 ELSE Cardinality(DOMAIN o) + 1
  BY <1>1, FS_AddElement, FS_CardinalityType
<1>3. \A x \in DOMAIN w : IsValue(w[x])
  BY <1>1
<1>4. DOMAIN w \subseteq Strings
  BY <1>1
<1>5. Cardinality(DOMAIN w) \in Nat /\ Cardinality(DOMAIN w) <= Cardinality(DOMAIN o) + 1
  BY <1>2
<1> QED
  BY <1>1, <1>2, <1>3, <1>4, <1>5 DEF w

\* The text that is signed over is a text again.
LEMMA CompletedType ==
    ASSUME NEW o, IsObject(o)
    PROVE  Completed(o) \in Seq(Nat)
<1>1. hmac_signature \in Strings /\ IsValue(<<"string", <<>>>>)
  <2>1. hmac_signature \in Seq(Nat) /\ Len(hmac_signature) = 1 /\ MaxString \in Nat \ {0}
    BY LimitsAssumption DEF hmac_signature
  <2>2. <<>> \in Seq(Nat) /\ Len(<<>>) = 0
    OBVIOUS
  <2> DEFINE e == <<>>
  <2>3. e \in Seq(Nat) /\ Len(e) = 0
    BY <2>2
  <2> HIDE DEF e
  <2>4. hmac_signature \in Strings /\ e \in Strings
    <3>1. 1 <= MaxString /\ 0 <= MaxString
      BY <2>1
    <3>2. Len(hmac_signature) <= MaxString /\ Len(e) <= MaxString
      BY <2>1, <2>3, <3>1
    <3> QED
      BY <2>1, <2>3, <3>2 DEF Strings
  <2>5. <<"string", e>> \in {"string"} \X Strings
    BY <2>4
  <2> QED
    BY <2>4, <2>5 DEF IsValue, e
<1> DEFINE w == With(o, hmac_signature, <<"string", <<>>>>)
<1>2. IsFiniteSet(DOMAIN w) /\ DOMAIN w \subseteq Strings /\ \A x \in DOMAIN w : IsValue(w[x])
  BY <1>1, WithType DEF IsObject
<1> HIDE DEF w
<1>3. stringify(w) \in Seq(Nat)
  BY <1>2, StringifyType
<1> QED
  BY <1>3 DEF Completed, w

\* A part of a text is a text.
LEMMA SubText ==
    ASSUME content \in Seq(Nat), NEW i \in 1..End, NEW j \in 1..End
    PROVE  SubSeq(content, i, j - 1) \in Seq(Nat)
<1>1. i \in Int /\ j - 1 \in Int /\ \A q \in i..(j - 1) : content[q] \in Nat
  BY TextEnd
<1> QED
  BY <1>1, SubSeqProperties

\* Behind the comma is a place of the text or its end.
LEMMA AfterCommaType ==
    ASSUME content \in Seq(Nat), NEW i \in 1..End
    PROVE  AfterComma(i) \in 1..End
<1>1. skip_whitespace(i) \in 1..End /\ End \in Nat
  BY SkipWhitespace, TextEnd
<1> QED
  BY <1>1 DEF AfterComma, At

-----------------------------------------------------------------------------
(* The types and the limits.                                                 *)

\* The reader before the first call.
LEMMA TypingInit == Init => TypeOK
<1> SUFFICES ASSUME Init PROVE TypeOK
  OBVIOUS
<1>1. content \in Seq(Nat) /\ pos \in 1..End /\ signed = Unsigned
  <2>1. content \in Seq(Nat) /\ pos = 1 /\ signed = Unsigned
    BY ContentsAssumption DEF Init
  <2> QED
    BY <2>1, TextEnd
<1>2. MaxKeys \in Nat /\ MaxArray \in Nat /\ MaxString \in Nat
  BY LimitsAssumption
<1>3. object_key_count \in 0..(MaxKeys + 1) /\ (pc = "array" => object_key_count <= MaxKeys)
      /\ pc \in {"object", "array", "done", "thrown"}
  BY <1>2 DEF Init, Opens
<1> DEFINE e == <<>>
<1>4. DOMAIN e = {} /\ e \in Strings /\ e \in Seq(Strings) /\ Len(e) = 0
  BY <1>2 DEF Strings
<1>5. IsFiniteSet({}) /\ Cardinality({}) = 0
  BY FS_EmptySet
<1>6. result = e /\ key = e /\ array_values = e
  BY DEF Init, EmptyObject
<1> HIDE DEF e
<1>7. IsObject(result) /\ Cardinality(DOMAIN result) <= object_key_count
  BY <1>2, <1>3, <1>4, <1>5, <1>6 DEF IsObject
<1>8. key \in Strings /\ array_values \in Seq(Strings) /\ Len(array_values) <= MaxArray + 1
  BY <1>2, <1>4, <1>6
<1> QED
  BY <1>1, <1>3, <1>7, <1>8 DEF TypeOK

\* An exception leaves everything within the limits.
LEMMA TypingThrows ==
    ASSUME TypeOK, Throws
    PROVE  TypeOK'
BY DEF TypeOK, Throws, End

\* So does a field that is added.
LEMMA TypingAdds ==
    ASSUME TypeOK, object_key_count <= MaxKeys,
           NEW k \in Strings, NEW v, IsValue(v), NEW next \in 1..End, Adds(k, v, next)
    PROVE  TypeOK'
<1> DEFINE w == With(result, k, v)
<1>1. /\ MaxKeys \in Nat /\ object_key_count \in Nat /\ Cardinality(DOMAIN result) \in Nat
      /\ Cardinality(DOMAIN result) <= object_key_count
  BY LimitsAssumption, FS_CardinalityType DEF TypeOK, IsObject
<1>2. /\ IsFiniteSet(DOMAIN w) /\ DOMAIN w \subseteq Strings
      /\ Cardinality(DOMAIN w) \in Nat
      /\ Cardinality(DOMAIN w) <= Cardinality(DOMAIN result) + 1
      /\ \A x \in DOMAIN w : IsValue(w[x])
  BY WithType DEF TypeOK, IsObject
<1>3. result' = w /\ object_key_count' = object_key_count + 1 /\ pc' = "object"
      /\ UNCHANGED <<content, key, array_values, signed>>
  BY DEF Adds
<1>4. pos' \in 1..End
  BY AfterCommaType DEF Adds, TypeOK
<1> HIDE DEF w
<1>5. object_key_count + 1 \in 0..(MaxKeys + 1)
      /\ Cardinality(DOMAIN w) <= object_key_count + 1
      /\ Cardinality(DOMAIN w) <= MaxKeys + 1
  BY <1>1, <1>2
<1>6. IsObject(w)
  BY <1>2, <1>5 DEF IsObject
<1>7. IsObject(result')
  BY <1>3, <1>6
<1>8. IsObject(result)'
  BY <1>7 DEF IsObject, IsValue, Strings
<1>9. (signed = Unsigned \/ IsObject(signed))'
  BY <1>3 DEF TypeOK, IsObject, IsValue, Strings, Unsigned
<1> QED
  BY <1>3, <1>4, <1>5, <1>8, <1>9 DEF TypeOK, End, Strings

\* The characters of a string in the text, which is not too long.
LEMMA RawType ==
    ASSUME content \in Seq(Nat), NEW i \in 1..End, NEW j \in 1..End,
           ~(Len(SubSeq(content, i, j - 1)) > MaxString)
    PROVE  /\ SubSeq(content, i, j - 1) \in Strings
           /\ unescape_json_string(SubSeq(content, i, j - 1)) \in Strings
<1> DEFINE raw == SubSeq(content, i, j - 1)
<1>1. raw \in Seq(Nat)
  BY SubText
<1> HIDE DEF raw
<1>2. Len(raw) \in Nat /\ Len(raw) <= MaxString
  BY <1>1, LimitsAssumption, LenProperties DEF raw
<1> DEFINE u == unescape_json_string(raw)
<1>3. u \in Seq(Nat) /\ Len(u) <= Len(raw)
  BY <1>1, UnescapeType
<1> HIDE DEF u
<1>4. Len(u) <= MaxString
  BY <1>2, <1>3, LimitsAssumption, LenProperties
<1> QED
  BY <1>1, <1>2, <1>3, <1>4 DEF Strings, raw, u

\* A field that is read keeps within the limits.
LEMMA TypingField ==
    ASSUME TypeOK, Field
    PROVE  TypeOK'
<1> DEFINE start == skip_whitespace(pos)
           close == ClosingQuote(start + 1)
           name == SubSeq(content, start + 1, close - 1)
           colon == skip_whitespace(close + 1)
           value == skip_whitespace(colon + 1)
<1>1. /\ InObject /\ At(start, Quote)
      /\ IF close = End \/ Len(name) > MaxString THEN Throws
         ELSE IF ~At(colon, Colon) \/ value = End THEN Throws
         ELSE \/ content[value] = Quote       /\ StringValue(name, value)
              \/ content[value] = OpenBracket /\ ArrayValue(name, value)
              \/ content[value] \notin {Quote, OpenBracket} /\ BareValue(name, value)
  BY DEF Field
<1>2. content \in Seq(Nat) /\ End \in Nat \ {0} /\ pos \in 1..End /\ object_key_count <= MaxKeys
  BY <1>1, TextEnd DEF TypeOK, InObject
<1>3. start \in 1..End /\ start + 1 \in 1..End
  <2>1. start \in pos..End
    BY <1>2, SkipWhitespace
  <2>2. start < End
    BY <1>1 DEF At
  <2> HIDE DEF start
  <2> QED
    BY <1>2, <2>1, <2>2
<1>4. close \in (start + 1)..End
  BY <1>2, <1>3, ClosingQuoteStops
<1> HIDE DEF start, close, name, colon, value
<1>5. CASE Throws
  BY <1>5, TypingThrows
<1>6. CASE ~Throws
  <2>1. close # End /\ ~(Len(name) > MaxString) /\ At(colon, Colon) /\ value # End
        /\ \/ content[value] = Quote       /\ StringValue(name, value)
           \/ content[value] = OpenBracket /\ ArrayValue(name, value)
           \/ content[value] \notin {Quote, OpenBracket} /\ BareValue(name, value)
    BY <1>1, <1>6
  <2>2. close \in 1..End /\ close + 1 \in 1..End
    BY <1>2, <1>3, <1>4, <2>1
  <2>3. colon \in 1..End /\ colon + 1 \in 1..End
    <3>1. colon \in (close + 1)..End
      BY <1>2, <2>2, SkipWhitespace DEF colon
    <3>2. colon < End
      BY <2>1 DEF At
    <3> QED
      BY <1>2, <2>2, <3>1, <3>2
  <2>4. value \in 1..End /\ value + 1 \in 1..End
    <3>1. value \in (colon + 1)..End
      BY <1>2, <2>3, SkipWhitespace DEF value
    <3> QED
      BY <1>2, <2>1, <2>3, <3>1
  <2>5. name \in Strings
    BY <1>2, <1>3, <2>1, <2>2, RawType DEF name
  <2>6. CASE StringValue(name, value)
    <3> DEFINE end == ClosingQuote(value + 1)
               raw == SubSeq(content, value + 1, end - 1)
    <3>1. end # End /\ ~(Len(raw) > MaxString)
          /\ Adds(name, <<"string", unescape_json_string(raw)>>, end + 1)
      BY <1>6, <2>6 DEF StringValue
    <3>2. end \in (value + 1)..End
      BY <1>2, <2>4, ClosingQuoteStops
    <3> HIDE DEF end
    <3>3. end \in 1..End /\ end + 1 \in 1..End
      BY <1>2, <2>4, <3>1, <3>2
    <3>4. unescape_json_string(raw) \in Strings
      BY <1>2, <2>4, <3>1, <3>3, RawType
    <3>5. IsValue(<<"string", unescape_json_string(raw)>>)
      BY <3>4 DEF IsValue
    <3> HIDE DEF raw
    <3> QED
      BY <1>2, <2>5, <3>1, <3>3, <3>5, TypingAdds
  <2>7. CASE ArrayValue(name, value)
    <3>1. UNCHANGED <<content, object_key_count, result, signed>>
          /\ key' = name /\ array_values' = <<>> /\ pos' = value + 1 /\ pc' = "array"
      BY <2>7 DEF ArrayValue
    <3>2. <<>> \in Seq(Strings) /\ Len(<<>>) = 0 /\ 0 <= MaxArray + 1
      BY LimitsAssumption
    <3>3. (array_values \in Seq(Strings) /\ Len(array_values) <= MaxArray + 1)'
      BY <3>1, <3>2 DEF Strings
    <3> QED
      BY <1>2, <2>4, <2>5, <3>1, <3>3 DEF TypeOK, End, Strings, IsObject, IsValue, Unsigned
  <2>8. CASE BareValue(name, value)
    <3> DEFINE end == NextOf(value, {Comma, CloseBrace})
               word == trim(SubSeq(content, value, end - 1))
               v == IF word \in {WordTrue, WordFalse}
                    THEN <<"bool", word = WordTrue>> ELSE <<"string", word>>
    <3>1. ~(Len(word) > MaxString) /\ Adds(name, v, end)
      BY <1>6, <2>8 DEF BareValue
    <3>2. end \in value..End
      BY <1>2, <2>4, NextOfStops
    <3>3. end \in 1..End
      <4> HIDE DEF end
      <4> QED
        BY <1>2, <2>4, <3>2
    <3>4. word \in Seq(Nat)
      <4> HIDE DEF end
      <4> QED
        BY <1>2, <2>4, <3>3, SubText, TrimType
    <3>5. word \in Strings
      <4> HIDE DEF word
      <4> QED
        BY <3>1, <3>4, LimitsAssumption, LenProperties DEF Strings
    <3>6. IsValue(v)
      <4> HIDE DEF word
      <4>1. (word = WordTrue) \in BOOLEAN
        OBVIOUS
      <4> QED
        BY <3>5, <4>1 DEF IsValue
    <3> HIDE DEF v, end
    <3> QED
      BY <1>2, <2>5, <3>1, <3>3, <3>6, TypingAdds
  <2> QED
    BY <2>1, <2>6, <2>7, <2>8
<1> QED
  BY <1>5, <1>6

\* So does an element of an array.
LEMMA TypingElement ==
    ASSUME TypeOK, Element
    PROVE  TypeOK'
<1> DEFINE start == skip_whitespace(pos)
           end == ClosingQuote(start + 1)
           raw == SubSeq(content, start + 1, end - 1)
<1>1. /\ InArray /\ Len(array_values) <= MaxArray /\ At(start, Quote)
      /\ IF end = End \/ Len(raw) > MaxString THEN Throws
         ELSE /\ array_values' = Append(array_values, unescape_json_string(raw))
              /\ pos' = AfterComma(end + 1)
              /\ UNCHANGED <<content, object_key_count, result, key, pc, signed>>
  BY DEF Element
<1>2. content \in Seq(Nat) /\ End \in Nat \ {0} /\ pos \in 1..End
  BY <1>1, TextEnd DEF TypeOK
<1>3. start \in 1..End /\ start + 1 \in 1..End
  <2>1. start \in pos..End
    BY <1>2, SkipWhitespace
  <2>2. start < End
    BY <1>1 DEF At
  <2> HIDE DEF start
  <2> QED
    BY <1>2, <2>1, <2>2
<1>4. end \in (start + 1)..End
  BY <1>2, <1>3, ClosingQuoteStops
<1> HIDE DEF start, end
<1>5. CASE Throws
  BY <1>5, TypingThrows
<1>6. CASE ~Throws
  <2>1. /\ end # End /\ ~(Len(raw) > MaxString)
        /\ array_values' = Append(array_values, unescape_json_string(raw))
        /\ pos' = AfterComma(end + 1)
        /\ UNCHANGED <<content, object_key_count, result, key, pc, signed>>
    BY <1>1, <1>6
  <2>2. end \in 1..End /\ end + 1 \in 1..End
    BY <1>2, <1>3, <1>4, <2>1
  <2>3. unescape_json_string(raw) \in Strings
    BY <1>2, <1>3, <2>1, <2>2, RawType
  <2>4. pos' \in 1..End
    BY <1>2, <2>1, <2>2, AfterCommaType
  <2>5. array_values' \in Seq(Strings) /\ Len(array_values') <= MaxArray + 1
    <3> DEFINE u == unescape_json_string(raw)
    <3>1. u \in Strings /\ array_values \in Seq(Strings) /\ array_values' = Append(array_values, u)
      BY <2>1, <2>3 DEF TypeOK
    <3> HIDE DEF u
    <3> DEFINE a == Append(array_values, u)
    <3>2. a \in Seq(Strings) /\ Len(a) = Len(array_values) + 1 /\ Len(array_values) \in Nat
      BY <3>1, AppendProperties, LenProperties
    <3> HIDE DEF a
    <3>3. Len(a) <= MaxArray + 1
      BY <1>1, <3>2, LimitsAssumption
    <3> QED
      BY <3>1, <3>2, <3>3 DEF a
  <2> QED
    BY <2>1, <2>4, <2>5 DEF TypeOK, End, Strings, IsObject, IsValue, Unsigned
<1> QED
  BY <1>5, <1>6

\* Every step keeps within the limits.
LEMMA TypingNext == TypeOK /\ [Next]_vars => TypeOK'
<1> SUFFICES ASSUME TypeOK, [Next]_vars PROVE TypeOK'
  OBVIOUS
<1>0. content \in Seq(Nat) /\ End \in Nat \ {0} /\ pos \in 1..End
  BY TextEnd DEF TypeOK
<1>1. CASE EndOfObject
  BY <1>1 DEF EndOfObject, TypeOK, End, Strings, IsObject, IsValue, Unsigned
<1>2. CASE TooManyKeys
  BY <1>2, TypingThrows DEF TooManyKeys
<1>3. CASE SkipGarbage
  <2> DEFINE start == skip_whitespace(pos)
             next == NextOf(start, {Comma})
  <2>1. /\ pos' = Min({next + 1, End})
        /\ UNCHANGED <<content, object_key_count, result, key, array_values, pc, signed>>
    BY <1>3 DEF SkipGarbage
  <2>2. start \in 1..End
    BY <1>0, SkipWhitespace
  <2>3. next \in 1..End
    <3> HIDE DEF start
    <3>1. next \in start..End
      BY <1>0, <2>2, NextOfStops
    <3> HIDE DEF next
    <3> QED
      BY <1>0, <2>2, <3>1
  <2> HIDE DEF next
  <2>4. {next + 1, End} \subseteq Nat /\ {next + 1, End} # {}
    BY <1>0, <2>3
  <2> DEFINE m == Min({next + 1, End})
  <2>5. m \in {next + 1, End} /\ m <= End
    BY <2>4, MinOf
  <2> HIDE DEF m
  <2>6. m \in 1..End
    BY <1>0, <2>3, <2>5
  <2>7. pos' \in 1..End
    BY <2>1, <2>6 DEF m
  <2> QED
    BY <2>1, <2>7 DEF TypeOK, End, Strings, IsObject, IsValue, Unsigned
<1>4. CASE Field
  BY <1>4, TypingField
<1>5. CASE TooManyElements
  BY <1>5, TypingThrows DEF TooManyElements
<1>6. CASE Element
  BY <1>6, TypingElement
<1>7. CASE NoElement
  <2>1. pos' \in 1..End
    BY <1>0, <1>7, AfterCommaType DEF NoElement
  <2> QED
    BY <1>7, <2>1 DEF NoElement, TypeOK, End, Strings, IsObject, IsValue, Unsigned
<1>8. CASE EndOfArray
  <2>1. pc = "array" /\ Adds(key, <<"array", array_values>>, Min({pos + 1, End}))
    BY <1>8 DEF EndOfArray
  <2>2. {pos + 1, End} \subseteq Nat /\ {pos + 1, End} # {}
    BY <1>0
  <2> DEFINE m == Min({pos + 1, End})
  <2>3. m \in {pos + 1, End} /\ m <= End
    BY <2>2, MinOf
  <2> HIDE DEF m
  <2>4. m \in 1..End
    BY <1>0, <2>3
  <2>5. IsValue(<<"array", array_values>>)
    BY DEF TypeOK, IsValue
  <2>6. key \in Strings /\ object_key_count <= MaxKeys /\ Adds(key, <<"array", array_values>>, m)
    BY <2>1 DEF TypeOK, m
  <2> QED
    BY <2>4, <2>5, <2>6, TypingAdds
<1>9. CASE Sign
  <2>1. /\ signed' = result /\ content' = Completed(result) /\ pos' = 1
        /\ object_key_count' = 0 /\ result' = <<>> /\ key' = <<>> /\ array_values' = <<>>
        /\ pc' = Opens(content', SignatureSize)
    BY <1>9 DEF Sign, EmptyObject
  <2>2. MaxKeys \in Nat /\ MaxArray \in Nat /\ MaxString \in Nat
    BY LimitsAssumption
  <2>3. content' \in Seq(Nat)
    BY <2>1, CompletedType DEF TypeOK
  <2>4. End' \in Nat \ {0} /\ 1 \in 1..End'
    <3> DEFINE c == content'
    <3>1. Len(c) \in Nat
      BY <2>3, LenProperties
    <3>2. End' = Len(c) + 1
      BY DEF End
    <3> HIDE DEF c
    <3>3. Len(c) + 1 \in Nat \ {0} /\ 1 \in 1..(Len(c) + 1)
      BY <3>1
    <3> QED
      BY <3>2, <3>3
  <2>5. pc' \in {"object", "thrown"}
    BY <2>1 DEF Opens
  <2> DEFINE e == <<>>
  <2>6. DOMAIN e = {} /\ e \in Strings /\ e \in Seq(Strings) /\ Len(e) = 0
    BY <2>2 DEF Strings
  <2>7. IsFiniteSet({}) /\ Cardinality({}) = 0
    BY FS_EmptySet
  <2>8. result' = e /\ key' = e /\ array_values' = e
    BY <2>1
  <2> HIDE DEF e
  <2>9. IsObject(result') /\ Cardinality(DOMAIN result') <= object_key_count'
    BY <2>1, <2>2, <2>6, <2>7, <2>8 DEF IsObject
  <2>10. key' \in Strings /\ array_values' \in Seq(Strings) /\ Len(array_values') <= MaxArray + 1
    BY <2>2, <2>6, <2>8
  <2>11. IsObject(signed')
    BY <2>1 DEF TypeOK
  <2>12. object_key_count' \in 0..(MaxKeys + 1) /\ pc' # "array" /\ pos' \in 1..End'
    BY <2>1, <2>2, <2>4, <2>5
  <2> QED
    BY <2>3, <2>5, <2>9, <2>10, <2>11, <2>12 DEF TypeOK, IsObject, IsValue, Strings, Unsigned
<1>10. CASE UNCHANGED vars
  BY <1>10 DEF vars, TypeOK, End, Strings, IsObject, IsValue, Unsigned
<1> QED
  BY <1>1, <1>2, <1>3, <1>4, <1>5, <1>6, <1>7, <1>8, <1>9, <1>10 DEF Next, Parse

\* Whatever the text, what is read of it keeps within the limits, and the parser
\* within the text: its places are those of the text or its end.
THEOREM Typing == Spec => []TypeOK
<1> QED
  BY TypingInit, TypingNext, PTL DEF Spec

-----------------------------------------------------------------------------
(* Texts within texts: x stands in t at p.                                   *)

Stands(t, p, x) ==
    /\ p \in Nat \ {0} /\ p + Len(x) <= Len(t) + 1
    /\ \A q \in 1..Len(x) : t[p + q - 1] = x[q]

\* Where two texts stand one after the other, each of them stands.
LEMMA StandsConcat ==
    ASSUME NEW t \in Seq(Nat), NEW p, NEW x \in Seq(Nat), NEW y \in Seq(Nat), Stands(t, p, x \o y)
    PROVE  Stands(t, p, x) /\ Stands(t, p + Len(x), y)
<1> DEFINE a == Len(x)
           b == Len(y)
           n == Len(t)
<1>1. a \in Nat /\ b \in Nat /\ n \in Nat
  BY LenProperties
<1>2. Len(x \o y) = a + b /\ \A q \in 1..(a + b) : (x \o y)[q] = IF q <= a THEN x[q] ELSE y[q - a]
  BY ConcatProperties
<1> DEFINE z == x \o y
<1>3. /\ p \in Nat \ {0} /\ p + (a + b) <= n + 1
      /\ \A q \in 1..(a + b) : t[p + q - 1] = IF q <= a THEN x[q] ELSE y[q - a]
  <2>1. Len(z) = a + b /\ \A q \in 1..(a + b) : z[q] = IF q <= a THEN x[q] ELSE y[q - a]
    BY <1>2
  <2>2. Stands(t, p, z)
    OBVIOUS
  <2> HIDE DEF z
  <2> QED
    BY <2>1, <2>2 DEF Stands
<1> HIDE DEF a, b, n, z
<1>4. /\ p + a <= n + 1 /\ \A q \in 1..a : t[p + q - 1] = x[q]
  <2>1. \A q \in 1..a : q \in 1..(a + b) /\ q <= a
    BY <1>1
  <2> QED
    BY <1>1, <1>3, <2>1
<1>5. (p + a) + b <= n + 1 /\ p + a \in Nat \ {0}
  BY <1>1, <1>3
<1>6. \A q \in 1..b : t[(p + a) + q - 1] = y[q]
  <2> SUFFICES ASSUME NEW q \in 1..b PROVE t[(p + a) + q - 1] = y[q]
    OBVIOUS
  <2>1. a + q \in 1..(a + b) /\ ~(a + q <= a) /\ (a + q) - a = q /\ p + (a + q) - 1 = (p + a) + q - 1
    BY <1>1, <1>3
  <2>2. t[p + (a + q) - 1] = y[(a + q) - a]
    BY <1>3, <2>1
  <2> QED
    BY <2>1, <2>2
<1> QED
  BY <1>3, <1>4, <1>5, <1>6 DEF Stands, a, b, n

\* What stands at a place is what is cut out there.
LEMMA StandsSubSeq ==
    ASSUME NEW t \in Seq(Nat), NEW p, NEW x \in Seq(Nat), Stands(t, p, x)
    PROVE  SubSeq(t, p, p + Len(x) - 1) = x
<1> DEFINE n == Len(x)
           r == p + n - 1
           u == SubSeq(t, p, r)
<1>1. n \in Nat /\ p \in Nat \ {0} /\ Len(t) \in Nat /\ p + n <= Len(t) + 1
  BY LenProperties DEF Stands
<1>2. \A i \in p..r : t[i] \in Nat
  <2>1. \A i \in p..r : i \in 1..Len(t)
    BY <1>1
  <2> QED
    BY <2>1, ElementOfSeq
<1>3. p \in Int /\ r \in Int /\ r - p + 1 = n /\ (p <= r <=> n # 0)
  BY <1>1
<1> HIDE DEF r
<1>4. u \in Seq(Nat) /\ Len(u) = (IF p <= r THEN r - p + 1 ELSE 0)
      /\ \A i \in 1..(r - p + 1) : u[i] = t[p + i - 1]
  BY <1>2, <1>3, SubSeqProperties
<1> HIDE DEF u
<1>5. Len(u) = n /\ \A i \in 1..n : u[i] = t[p + i - 1]
  BY <1>1, <1>3, <1>4
<1>6. \A i \in 1..n : u[i] = x[i]
  BY <1>5 DEF Stands
<1>7. u = x
  BY <1>4, <1>5, <1>6, SeqEqual
<1> QED
  BY <1>7 DEF u, r

\* The pieces of a whole stand behind each other.
PiecesStand(t, p, ss, f) ==
    /\ \A i \in 0..Len(ss) : Stands(t, p, f[i]) /\ f[i] \in Seq(Nat) /\ Len(f[i]) \in Nat
    /\ \A i \in 1..Len(ss) : /\ Stands(t, p + Len(f[i - 1]), ss[i])
                             /\ ss[i] \in Seq(Nat) /\ Len(ss[i]) \in Nat
                             /\ Len(f[i]) = Len(f[i - 1]) + Len(ss[i])

\* Where texts stand one after the other, each of them stands behind those before it.
LEMMA StandsPieces ==
    ASSUME NEW t \in Seq(Nat), NEW p, NEW ss \in Seq(Seq(Nat)), NEW f, Flattens(f, ss, Nat),
           Stands(t, p, FlattenSeq(ss))
    PROVE  PiecesStand(t, p, ss, f)
<1> DEFINE n == Len(ss)
           Ok(m) == Stands(t, p, f[n - m])
           T == {m \in Nat : m <= n => Ok(m)}
<1>1. n \in Nat /\ \A i \in 1..n : ss[i] \in Seq(Nat) /\ Len(ss[i]) \in Nat
  BY LenProperties, ElementOfSeq
<1>2. \A i \in 0..n : f[i] \in Seq(Nat) /\ Len(f[i]) \in Nat
  <2>1. f \in [0..n -> Seq(Nat)]
    BY DEF Flattens
  <2>2. \A i \in 0..n : f[i] \in Seq(Nat)
    BY <2>1
  <2> QED
    BY <2>2, LenProperties
<1>3. ASSUME NEW i \in 1..n
      PROVE  /\ f[i] = f[i - 1] \o ss[i] /\ i - 1 \in 0..n
             /\ Len(f[i]) = Len(f[i - 1]) + Len(ss[i])
             /\ Stands(t, p, f[i]) => Stands(t, p, f[i - 1]) /\ Stands(t, p + Len(f[i - 1]), ss[i])
  <2>1. i - 1 \in 0..n
    BY <1>1
  <2>2. f[i] = f[i - 1] \o ss[i]
    BY DEF Flattens
  <2> DEFINE x == f[i - 1]
             y == ss[i]
             z == f[i]
  <2>3. x \in Seq(Nat) /\ y \in Seq(Nat) /\ z = x \o y
    BY <1>1, <1>2, <2>1, <2>2
  <2> HIDE DEF x, y, z
  <2>4. Len(z) = Len(x) + Len(y)
    BY <2>3, ConcatProperties
  <2>5. ASSUME Stands(t, p, z) PROVE Stands(t, p, x) /\ Stands(t, p + Len(x), y)
    <3>1. Stands(t, p, x \o y)
      BY <2>3, <2>5
    <3> QED
      BY <2>3, <3>1, StandsConcat
  <2> QED
    BY <2>1, <2>2, <2>4, <2>5 DEF x, y, z
<1>4. 0 \in T
  <2>1. n - 0 = n
    BY <1>1
  <2>2. Stands(t, p, f[n])
    BY DEF Flattens
  <2> QED
    BY <2>1, <2>2
<1>5. ASSUME NEW m \in Nat, m \in T, m + 1 <= n PROVE Ok(m + 1)
  <2>1. n - m \in 1..n /\ (n - m) - 1 = n - (m + 1) /\ m <= n
    BY <1>1, <1>5
  <2>2. Stands(t, p, f[n - m])
    BY <1>5, <2>1
  <2>3. Stands(t, p, f[(n - m) - 1])
    BY <1>3, <2>1, <2>2
  <2> QED
    BY <2>1, <2>3
<1> HIDE DEF Ok
<1>6. \A m \in Nat : m \in T => m + 1 \in T
  BY <1>5
<1>7. Nat \subseteq T
  <2> HIDE DEF T
  <2> QED
    BY <1>4, <1>6, Induction
<1> USE DEF Ok
<1>8. \A i \in 0..n : Stands(t, p, f[i])
  <2> SUFFICES ASSUME NEW i \in 0..n PROVE Stands(t, p, f[i])
    OBVIOUS
  <2>1. n - i \in Nat /\ n - i <= n /\ n - (n - i) = i
    BY <1>1
  <2> QED
    BY <1>7, <2>1
<1>9. \A i \in 1..n : i \in 0..n
  BY <1>1
<1> QED
  BY <1>1, <1>2, <1>3, <1>8, <1>9 DEF PiecesStand

-----------------------------------------------------------------------------
(* What was escaped is read back.                                            *)

EscapePieces(s) ==
    [i \in 1..Len(s) |-> IF s[i] \in Special THEN <<Backslash, Letter(s[i])>> ELSE <<s[i]>>]

\* An escaped string is one piece for each character: the character or its escape.
LEMMA EscapePiecesType ==
    ASSUME NEW s \in Seq(Nat)
    PROVE  /\ escape_json_string(s) = FlattenSeq(EscapePieces(s))
           /\ EscapePieces(s) \in Seq(Seq(Nat)) /\ Len(EscapePieces(s)) = Len(s)
           /\ Len(s) \in Nat
           /\ \A i \in 1..Len(s) :
                 /\ s[i] \in Nat
                 /\ \/ /\ s[i] \in Special
                       /\ EscapePieces(s)[i] = <<Backslash, Letter(s[i])>>
                    \/ s[i] \notin Special /\ EscapePieces(s)[i] = <<s[i]>>
<1> DEFINE n == Len(s)
<1>1. n \in Nat /\ \A i \in 1..n : s[i] \in Nat
  BY LenProperties, ElementOfSeq
<1>2. Backslash \in Nat /\ \A c \in Special : Letter(c) \in Nat
  BY EscapeTable
<1>3. \A i \in 1..n : EscapePieces(s)[i] \in Seq(Nat)
  BY <1>1, <1>2 DEF EscapePieces
<1>4. EscapePieces(s) \in Seq(Seq(Nat)) /\ Len(EscapePieces(s)) = n
  BY <1>1, <1>3 DEF EscapePieces
<1>5. escape_json_string(s) = FlattenSeq(EscapePieces(s))
  BY DEF escape_json_string, EscapePieces
<1>6. \A i \in 1..n :
         \/ s[i] \in Special /\ EscapePieces(s)[i] = <<Backslash, Letter(s[i])>>
         \/ s[i] \notin Special /\ EscapePieces(s)[i] = <<s[i]>>
  BY DEF EscapePieces
<1> QED
  BY <1>1, <1>4, <1>5, <1>6

\* The string ends at the quote behind it, and at none within.
LEMMA ClosingQuoteOfEscaped ==
    ASSUME content \in Seq(Nat), NEW s \in Seq(Nat), NEW p,
           Stands(content, p, escape_json_string(s)),
           Stands(content, p + Len(escape_json_string(s)), <<Quote>>)
    PROVE  /\ ClosingQuote(p) = p + Len(escape_json_string(s))
           /\ ClosingQuote(p) \in Nat /\ ClosingQuote(p) < End
           /\ SubSeq(content, p, ClosingQuote(p) - 1) = escape_json_string(s)
<1> DEFINE E == escape_json_string(s)
           ss == EscapePieces(s)
           n == Len(s)
           z == p + Len(E)
           q1 == <<Quote>>
<1>1. /\ E = FlattenSeq(ss) /\ ss \in Seq(Seq(Nat)) /\ Len(ss) = n /\ n \in Nat
      /\ \A i \in 1..n : \/ s[i] \in Special /\ ss[i] = <<Backslash, Letter(s[i])>>
                         \/ s[i] \notin Special /\ ss[i] = <<s[i]>>
  BY EscapePiecesType
<1> HIDE DEF ss
<1>2. E \in Seq(Nat) /\ Len(E) \in Nat /\ q1 \in Seq(Nat) /\ Len(q1) = 1 /\ q1[1] = Quote
  BY EscapeType, LenProperties DEF Quote
<1>3. Stands(content, p, E) /\ Stands(content, p + Len(E), q1)
  OBVIOUS
<1>4. End \in Nat \ {0} /\ End = Len(content) + 1
  BY TextEnd DEF End
<1>5. p \in Nat \ {0} /\ z \in Nat \ {0} /\ z < End /\ content[z] = Quote
  <2>1. p \in Nat \ {0}
    BY <1>3 DEF Stands
  <2>2. z \in Nat \ {0} /\ z + 1 <= Len(content) + 1
    BY <1>2, <1>3, <2>1 DEF Stands
  <2>3. 1 \in 1..Len(q1) /\ z + 1 - 1 = z
    BY <1>2, <2>2
  <2>4. content[z + 1 - 1] = q1[1]
    BY <1>3, <2>3 DEF Stands
  <2> HIDE DEF z, q1
  <2> QED
    BY <1>2, <1>4, <2>1, <2>2, <2>3, <2>4
<1>6. PICK f : Flattens(f, ss, Nat)
  BY <1>1, Flattening
<1> HIDE DEF E
<1>7. /\ \A i \in 0..n : f[i] \in Seq(Nat) /\ Len(f[i]) \in Nat
      /\ \A i \in 1..n : /\ Stands(content, p + Len(f[i - 1]), ss[i])
                         /\ Len(f[i]) = Len(f[i - 1]) + Len(ss[i])
      /\ E = f[n]
  <2>1. Stands(content, p, FlattenSeq(ss))
    BY <1>1, <1>3
  <2>2. E = f[n]
    BY <1>1, <1>6 DEF Flattens
  <2>3. /\ \A i \in 0..Len(ss) : f[i] \in Seq(Nat) /\ Len(f[i]) \in Nat
        /\ \A i \in 1..Len(ss) : /\ Stands(content, p + Len(f[i - 1]), ss[i])
                                 /\ Len(f[i]) = Len(f[i - 1]) + Len(ss[i])
    <3>1. ss \in Seq(Seq(Nat))
      BY <1>1
    <3>2. PiecesStand(content, p, ss, f)
      BY <1>6, <2>1, <3>1, StandsPieces
    <3> QED
      BY <3>2 DEF PiecesStand
  <2> HIDE DEF n
  <2> QED
    BY <1>1, <2>2, <2>3
<1> DEFINE y(i) == p + Len(f[i])
           Ok(m) == ClosingQuote(y(n - m)) = z /\ y(n - m) <= z
           T == {m \in Nat : m <= n => Ok(m)}
<1>8. 0 \in T
  <2>1. n - 0 = n /\ y(n) = z
    BY <1>1, <1>7
  <2>2. ClosingQuote(z) = z
    BY <1>4, <1>5, ClosingQuoteStops
  <2> HIDE DEF z
  <2> QED
    BY <1>5, <2>1, <2>2
<1>9. ASSUME NEW m \in Nat, m \in T, m + 1 <= n PROVE Ok(m + 1)
  <2> DEFINE i == n - m
  <2>1. i \in 1..n /\ i - 1 = n - (m + 1) /\ m <= n /\ i \in 0..n /\ i - 1 \in 0..n
    <3>1. n \in Nat /\ m \in Nat /\ m + 1 <= n
      BY <1>1, <1>9
    <3> HIDE DEF n
    <3> QED
      BY <3>1
  <2>2. ClosingQuote(y(i)) = z /\ y(i) <= z
    BY <1>9, <2>1
  <2> HIDE DEF i, z
  <2>3. y(i - 1) \in Nat \ {0} /\ y(i) \in Nat /\ y(i) = y(i - 1) + Len(ss[i])
        /\ Stands(content, y(i - 1), ss[i])
    <3>1. Len(f[i]) \in Nat /\ Len(f[i - 1]) \in Nat /\ Len(f[i]) = Len(f[i - 1]) + Len(ss[i])
          /\ Stands(content, p + Len(f[i - 1]), ss[i])
      BY <1>7, <2>1
    <3>2. Len(ss[i]) \in Nat
      BY <1>1, <2>1, ElementOfSeq, LenProperties
    <3> DEFINE a == Len(f[i - 1])
               b == Len(ss[i])
               c == Len(f[i])
    <3>3. p \in Nat \ {0} /\ a \in Nat /\ b \in Nat /\ c = a + b
      BY <1>5, <3>1, <3>2
    <3> HIDE DEF a, b, c
    <3>4. p + a \in Nat \ {0} /\ p + c \in Nat /\ p + c = (p + a) + b
      BY <3>3
    <3> QED
      BY <3>1, <3>4 DEF a, b, c
  <2>4. \A q \in 1..Len(ss[i]) : content[y(i - 1) + q - 1] = ss[i][q]
    BY <2>3 DEF Stands
  <2> HIDE DEF y
  <2>5. CASE s[i] \in Special /\ ss[i] = <<Backslash, Letter(s[i])>>
    <3>1. Len(ss[i]) = 2 /\ ss[i][1] = Backslash
      BY <2>5
    <3>2. content[y(i - 1)] = Backslash /\ y(i) = y(i - 1) + 2
      <4>1. 1 \in 1..Len(ss[i]) /\ y(i - 1) + 1 - 1 = y(i - 1)
        BY <2>3, <3>1
      <4> QED
        BY <2>3, <2>4, <3>1, <4>1
    <3>3. y(i - 1) \in 1..End /\ y(i - 1) # End /\ y(i - 1) + 1 < End /\ y(i - 1) <= z
      <4>1. z \in Nat /\ z < End /\ End \in Nat
        BY <1>4, <1>5 DEF z
      <4> QED
        BY <2>2, <2>3, <3>2, <4>1, SMTT(30)
    <3>4. Backslash # Quote
      BY DEF Backslash, Quote
    <3>5. ClosingQuote(y(i - 1)) = ClosingQuote(y(i - 1) + 2)
      BY <3>2, <3>3, <3>4, ClosingQuoteStops
    <3> QED
      BY <2>1, <2>2, <3>2, <3>3, <3>5
  <2>6. CASE s[i] \notin Special /\ ss[i] = <<s[i]>>
    <3>1. Len(ss[i]) = 1 /\ ss[i][1] = s[i] /\ s[i] # Quote /\ s[i] # Backslash
      BY <2>6, EscapeTable
    <3>2. content[y(i - 1)] = s[i] /\ y(i) = y(i - 1) + 1
      <4>1. 1 \in 1..Len(ss[i]) /\ y(i - 1) + 1 - 1 = y(i - 1)
        BY <2>3, <3>1
      <4> QED
        BY <2>3, <2>4, <3>1, <4>1
    <3>3. y(i - 1) \in 1..End /\ y(i - 1) # End /\ y(i - 1) <= z
      <4>1. z \in Nat /\ z < End /\ End \in Nat
        BY <1>4, <1>5 DEF z
      <4> QED
        BY <2>2, <2>3, <3>2, <4>1
    <3>4. ClosingQuote(y(i - 1)) = ClosingQuote(y(i - 1) + 1)
      BY <3>1, <3>2, <3>3, ClosingQuoteStops
    <3> QED
      BY <2>1, <2>2, <3>2, <3>3, <3>4
  <2> QED
    BY <1>1, <2>1, <2>5, <2>6
<1> HIDE DEF Ok
<1>10. \A m \in Nat : m \in T => m + 1 \in T
  BY <1>9
<1>11. Nat \subseteq T
  <2> HIDE DEF T
  <2> QED
    BY <1>8, <1>10, Induction
<1>12. ClosingQuote(p) = z
  <2>1. n \in T /\ n - n = 0
    BY <1>1, <1>11
  <2>2. f[0] = <<>> /\ p + Len(f[0]) = p
    BY <1>5, <1>6 DEF Flattens
  <2> QED
    BY <1>1, <2>1, <2>2 DEF Ok
<1>13. SubSeq(content, p, z - 1) = E
  <2>1. SubSeq(content, p, p + Len(E) - 1) = E
    BY <1>2, <1>3, StandsSubSeq
  <2>2. p + Len(E) - 1 = z - 1
    BY <1>2, <1>5
  <2> HIDE DEF z
  <2> QED
    BY <2>1, <2>2
<1> HIDE DEF z
<1>14. ClosingQuote(p) \in Nat /\ ClosingQuote(p) < End /\ SubSeq(content, p, ClosingQuote(p) - 1) = E
  BY <1>5, <1>12, <1>13
<1> QED
  BY <1>12, <1>14 DEF z, E

\* Unescaping takes escaping back, whatever the string: what a field means is the same
\* before and after it was signed.
THEOREM UnescapeOfEscaped ==
    ASSUME NEW s \in Seq(Nat)
    PROVE  unescape_json_string(escape_json_string(s)) = s
<1> DEFINE E == escape_json_string(s)
           ss == EscapePieces(s)
           n == Len(s)
<1>1. /\ E = FlattenSeq(ss) /\ ss \in Seq(Seq(Nat)) /\ Len(ss) = n /\ n \in Nat
      /\ \A i \in 1..n : s[i] \in Nat
      /\ \A i \in 1..n : \/ s[i] \in Special /\ ss[i] = <<Backslash, Letter(s[i])>>
                         \/ s[i] \notin Special /\ ss[i] = <<s[i]>>
  BY EscapePiecesType
<1> HIDE DEF ss
<1>2. E \in Seq(Nat) /\ Len(E) \in Nat
  BY EscapeType, LenProperties
<1> HIDE DEF E
<1>3. PICK lead : /\ Leads(lead, E)
                  /\ unescape_json_string(E) = FlattenSeq([i \in 1..Len(E) |-> Piece(lead, E, i)])
  BY <1>2, Unescaping
<1> DEFINE N == Len(E)
           pp == [i \in 1..N |-> Piece(lead, E, i)]
<1>4. PICK f : Flattens(f, ss, Nat)
  BY <1>1, Flattening
<1>5. /\ \A i \in 0..n : f[i] \in Seq(Nat) /\ Len(f[i]) \in Nat /\ Len(f[i]) <= N
      /\ \A i \in 1..n : /\ Stands(E, 1 + Len(f[i - 1]), ss[i])
                         /\ Len(f[i]) = Len(f[i - 1]) + Len(ss[i])
      /\ E = f[n] /\ f[0] = <<>>
  <2>1. E = f[n] /\ f[0] = <<>>
    BY <1>1, <1>4 DEF Flattens
  <2>2. Stands(E, 1, FlattenSeq(ss))
    <3>1. 1 + N <= N + 1 /\ \A q \in 1..N : E[1 + q - 1] = E[q]
      BY <1>2
    <3> QED
      BY <1>1, <3>1 DEF Stands
  <2> DEFINE p == 1
  <2> HIDE DEF n, p
  <2>0. /\ \A i \in 0..Len(ss) : Stands(E, p, f[i]) /\ f[i] \in Seq(Nat) /\ Len(f[i]) \in Nat
        /\ \A i \in 1..Len(ss) : /\ Stands(E, p + Len(f[i - 1]), ss[i])
                                 /\ Len(f[i]) = Len(f[i - 1]) + Len(ss[i])
    <3>1. Stands(E, p, FlattenSeq(ss)) /\ ss \in Seq(Seq(Nat)) /\ E \in Seq(Nat)
      BY <1>1, <1>2, <2>2 DEF p
    <3>2. PiecesStand(E, p, ss, f)
      BY <1>4, <3>1, StandsPieces
    <3> QED
      BY <3>2 DEF PiecesStand
  <2>3. \A i \in 0..n : Stands(E, 1, f[i]) /\ f[i] \in Seq(Nat) /\ Len(f[i]) \in Nat
    BY <1>1, <2>0 DEF p
  <2>4. \A i \in 0..n : Len(f[i]) <= N
    <3> SUFFICES ASSUME NEW i \in 0..n PROVE Len(f[i]) <= N
      OBVIOUS
    <3>1. 1 + Len(f[i]) <= N + 1 /\ Len(f[i]) \in Nat
      BY <2>3 DEF Stands
    <3> QED
      BY <1>2, <3>1
  <2>5. \A i \in 1..n : /\ Stands(E, 1 + Len(f[i - 1]), ss[i])
                        /\ Len(f[i]) = Len(f[i - 1]) + Len(ss[i])
    BY <1>1, <2>0 DEF p
  <2> QED
    BY <2>1, <2>3, <2>4, <2>5
<1>6. /\ lead[0] = FALSE
      /\ \A i \in 1..N : lead[i] = (/\ i \in 1..(N - 1)
                                    /\ E[i] = Backslash /\ E[i + 1] \in Letters
                                    /\ ~lead[i - 1])
      /\ \A i \in 0..N : lead[i] \in BOOLEAN
  BY <1>3 DEF Leads
<1>7. \A i \in 1..N : pp[i] = Piece(lead, E, i)
  OBVIOUS
<1> DEFINE y(i) == Len(f[i])
<1>8. ASSUME NEW i \in 1..n, lead[y(i - 1)] = FALSE
      PROVE  /\ lead[y(i)] = FALSE
             /\ \/ y(i) = y(i - 1) + 1 /\ y(i - 1) + 1 \in 1..N /\ pp[y(i - 1) + 1] = <<s[i]>>
                \/ /\ y(i) = y(i - 1) + 2 /\ y(i - 1) + 1 \in 1..N /\ y(i - 1) + 2 \in 1..N
                   /\ pp[y(i - 1) + 1] = <<>> /\ pp[y(i - 1) + 2] = <<s[i]>>
  <2> DEFINE b == y(i - 1)
  <2>1. i - 1 \in 0..n /\ i \in 0..n
    BY <1>1
  <2>2. b \in Nat /\ y(i) \in Nat /\ y(i) = b + Len(ss[i]) /\ y(i) <= N /\ Stands(E, 1 + b, ss[i])
    BY <1>5, <2>1
  <2>3. \A q \in 1..Len(ss[i]) : E[(1 + b) + q - 1] = ss[i][q]
    BY <2>2 DEF Stands
  <2>4. lead[b] = FALSE
    BY <1>8
  <2> HIDE DEF b, y, pp
  <2>5. CASE s[i] \in Special /\ ss[i] = <<Backslash, Letter(s[i])>>
    <3>1. Len(ss[i]) = 2 /\ ss[i][1] = Backslash /\ ss[i][2] = Letter(s[i])
      BY <2>5
    <3>2. E[b + 1] = Backslash /\ E[b + 2] = Letter(s[i]) /\ y(i) = b + 2
      <4>1. 1 \in 1..Len(ss[i]) /\ 2 \in 1..Len(ss[i])
            /\ (1 + b) + 1 - 1 = b + 1 /\ (1 + b) + 2 - 1 = b + 2
        BY <2>2, <3>1
      <4> QED
        BY <2>2, <2>3, <3>1, <4>1
    <3>3. b + 1 \in 1..N /\ b + 2 \in 1..N /\ b + 1 \in 1..(N - 1) /\ (b + 1) + 1 = b + 2
          /\ (b + 1) - 1 = b /\ (b + 2) - 1 = b + 1
      BY <1>2, <2>2, <3>2
    <3>4. Letter(s[i]) \in Letters /\ Meant(Letter(s[i])) = s[i]
      BY <2>5, EscapeTable
    <3>5. lead[b + 1] = TRUE
      BY <1>6, <2>4, <3>2, <3>3, <3>4
    <3>6. lead[b + 2] = FALSE
      BY <1>6, <3>3, <3>5
    <3>7. Piece(lead, E, b + 1) = <<>>
      BY <3>5 DEF Piece
    <3>8. Piece(lead, E, b + 2) = <<s[i]>>
      BY <3>2, <3>3, <3>4, <3>5, <3>6 DEF Piece
    <3> QED
      BY <1>7, <3>2, <3>3, <3>6, <3>7, <3>8 DEF b
  <2>6. CASE s[i] \notin Special /\ ss[i] = <<s[i]>>
    <3>1. Len(ss[i]) = 1 /\ ss[i][1] = s[i] /\ s[i] # Backslash
      BY <2>6, EscapeTable
    <3>2. E[b + 1] = s[i] /\ y(i) = b + 1
      <4>1. 1 \in 1..Len(ss[i]) /\ (1 + b) + 1 - 1 = b + 1
        BY <2>2, <3>1
      <4> QED
        BY <2>2, <2>3, <3>1, <4>1
    <3>3. b + 1 \in 1..N /\ (b + 1) - 1 = b
      BY <1>2, <2>2, <3>2
    <3>4. lead[b + 1] = FALSE
      BY <1>6, <3>1, <3>2, <3>3
    <3>5. Piece(lead, E, b + 1) = <<s[i]>>
      BY <2>4, <3>2, <3>3, <3>4 DEF Piece
    <3> QED
      BY <1>7, <3>2, <3>3, <3>4, <3>5 DEF b
  <2> QED
    BY <1>1, <2>5, <2>6
<1>9. pp \in Seq(Seq(Nat)) /\ Len(pp) = N
  <2>1. \A i \in 1..N : pp[i] \in Seq(Nat)
    <3> SUFFICES ASSUME NEW i \in 1..N PROVE Piece(lead, E, i) \in Seq(Nat)
      BY <1>7
    <3>1. lead[i] \in BOOLEAN /\ lead[i - 1] \in BOOLEAN /\ E[i] \in Nat
      <4>1. i \in 0..N /\ i - 1 \in 0..N
        BY <1>2
      <4> QED
        BY <1>2, <1>6, <4>1, ElementOfSeq
    <3>2. ASSUME ~lead[i], lead[i - 1] PROVE Meant(E[i]) \in Nat
      <4>1. i - 1 \in 1..N /\ (i - 1) + 1 = i
        <5>1. i - 1 # 0
          BY <1>6, <3>2
        <5> QED
          BY <1>2, <5>1
      <4>2. E[i] \in Letters
        BY <1>6, <3>2, <4>1
      <4> QED
        BY <4>2, EscapeTable
    <3> QED
      BY <3>1, <3>2 DEF Piece
  <2> QED
    BY <1>2, <2>1
<1> HIDE DEF pp
<1>10. PICK g : Flattens(g, pp, Nat)
  BY <1>9, Flattening
<1>11. /\ g[0] = <<>> /\ FlattenSeq(pp) = g[N]
       /\ \A i \in 1..N : g[i] = g[i - 1] \o pp[i]
       /\ \A i \in 0..N : g[i] \in Seq(Nat)
  BY <1>9, <1>10 DEF Flattens
<1> DEFINE Ok(m) == /\ lead[y(m)] = FALSE
                    /\ Len(g[y(m)]) = m
                    /\ \A j \in 1..m : g[y(m)][j] = s[j]
           T == {m \in Nat : m <= n => Ok(m)}
<1>12. 0 \in T
  <2>1. y(0) = 0
    BY <1>5
  <2> QED
    BY <1>6, <1>11, <2>1
<1>13. ASSUME NEW m \in Nat, m \in T, m + 1 <= n PROVE Ok(m + 1)
  <2> DEFINE i == m + 1
             b == y(m)
             x == g[b]
             c == <<s[i]>>
  <2>1. i \in 1..n /\ i - 1 = m /\ m <= n /\ m \in 0..n
    BY <1>1, <1>13
  <2>2. lead[b] = FALSE /\ Len(x) = m /\ \A j \in 1..m : x[j] = s[j]
    BY <1>13, <2>1
  <2>3. /\ lead[y(i)] = FALSE
        /\ \/ y(i) = b + 1 /\ b + 1 \in 1..N /\ pp[b + 1] = c
           \/ /\ y(i) = b + 2 /\ b + 1 \in 1..N /\ b + 2 \in 1..N
              /\ pp[b + 1] = <<>> /\ pp[b + 2] = c
    BY <1>8, <2>1, <2>2
  <2>4. b \in Nat /\ b \in 0..N
    BY <1>2, <1>5, <2>1
  <2>5. x \in Seq(Nat) /\ c \in Seq(Nat) /\ Len(c) = 1 /\ c[1] = s[i]
    BY <1>1, <1>11, <2>1, <2>4
  <2> HIDE DEF c
  <2>6. g[y(i)] = x \o c
    <3>1. CASE y(i) = b + 1 /\ b + 1 \in 1..N /\ pp[b + 1] = c
      <4>1. (b + 1) - 1 = b
        BY <2>4
      <4>2. g[b + 1] = g[(b + 1) - 1] \o pp[b + 1]
        BY <1>11, <3>1
      <4> QED
        BY <3>1, <4>1, <4>2
    <3>2. CASE /\ y(i) = b + 2 /\ b + 1 \in 1..N /\ b + 2 \in 1..N
               /\ pp[b + 1] = <<>> /\ pp[b + 2] = c
      <4>1. (b + 1) - 1 = b /\ (b + 2) - 1 = b + 1
        BY <2>4
      <4>2. g[b + 1] = g[(b + 1) - 1] \o pp[b + 1] /\ g[b + 2] = g[(b + 2) - 1] \o pp[b + 2]
        BY <1>11, <3>2
      <4>3. g[b + 1] = x \o <<>> /\ x \o <<>> = x
        BY <2>5, <3>2, <4>1, <4>2, ConcatEmptySeq
      <4> QED
        BY <3>2, <4>1, <4>2, <4>3
    <3> QED
      BY <2>3, <3>1, <3>2
  <2> DEFINE w == x \o c
  <2> HIDE DEF x
  <2>7. Len(w) = m + 1 /\ \A j \in 1..(m + 1) : w[j] = IF j <= m THEN x[j] ELSE c[j - m]
    <3>1. Len(w) = Len(x) + Len(c)
          /\ \A j \in 1..Len(x) + Len(c) : w[j] = IF j <= Len(x) THEN x[j] ELSE c[j - Len(x)]
      BY <2>5, ConcatProperties
    <3> HIDE DEF w
    <3> QED
      BY <2>2, <2>5, <3>1
  <2> HIDE DEF w
  <2>8. \A j \in 1..(m + 1) : w[j] = s[j]
    <3> SUFFICES ASSUME NEW j \in 1..(m + 1) PROVE w[j] = s[j]
      OBVIOUS
    <3>1. CASE j <= m
      <4>1. j \in 1..m
        BY <3>1
      <4> QED
        BY <2>2, <2>7, <3>1, <4>1
    <3>2. CASE ~(j <= m)
      <4>1. j = i /\ j - m = 1
        BY <3>2
      <4> QED
        BY <2>5, <2>7, <3>2, <4>1
    <3> QED
      BY <3>1, <3>2
  <2> QED
    BY <2>3, <2>6, <2>7, <2>8 DEF w
<1> HIDE DEF Ok
<1>14. \A m \in Nat : m \in T => m + 1 \in T
  BY <1>13
<1>15. Nat \subseteq T
  <2> HIDE DEF T
  <2> QED
    BY <1>12, <1>14, Induction
<1>16. Ok(n) /\ y(n) = N
  BY <1>1, <1>5, <1>15
<1>17. g[N] = s
  <2> DEFINE u == g[N]
  <2>1. u \in Seq(Nat) /\ Len(u) = n /\ \A j \in 1..n : u[j] = s[j]
    BY <1>2, <1>11, <1>16 DEF Ok
  <2> HIDE DEF u
  <2>2. u = s
    BY <2>1, SeqEqual
  <2> QED
    BY <2>2 DEF u
<1> QED
  BY <1>3, <1>11, <1>17 DEF E, pp

\* A string that needs escaping grows by it.
LEMMA EscapeLonger ==
    ASSUME NEW s \in Seq(Nat)
    PROVE  escape_json_string(s) = s \/ Len(escape_json_string(s)) > Len(s)
<1> DEFINE E == escape_json_string(s)
           ss == EscapePieces(s)
           n == Len(s)
<1>1. /\ E = FlattenSeq(ss) /\ ss \in Seq(Seq(Nat)) /\ Len(ss) = n /\ n \in Nat
      /\ \A i \in 1..n : s[i] \in Nat
      /\ \A i \in 1..n : \/ s[i] \in Special /\ ss[i] = <<Backslash, Letter(s[i])>>
                         \/ s[i] \notin Special /\ ss[i] = <<s[i]>>
  BY EscapePiecesType
<1> HIDE DEF ss
<1>2. E \in Seq(Nat) /\ Len(E) \in Nat
  BY EscapeType, LenProperties
<1> HIDE DEF E
<1>3. PICK f : Flattens(f, ss, Nat)
  BY <1>1, Flattening
<1>4. /\ E = f[n] /\ f[0] = <<>>
      /\ \A i \in 1..n : f[i] = f[i - 1] \o ss[i]
      /\ \A i \in 0..n : f[i] \in Seq(Nat) /\ Len(f[i]) \in Nat
  BY <1>1, <1>3, LenProperties DEF Flattens
<1> DEFINE Same(m) == \A j \in 1..m : f[m][j] = s[j]
           Ok(m) == Len(f[m]) > m \/ (Len(f[m]) = m /\ Same(m))
           T == {m \in Nat : m <= n => Ok(m)}
<1>5. 0 \in T
  <2>1. Len(f[0]) = 0
    BY <1>4
  <2> QED
    BY <2>1
<1>6. ASSUME NEW m \in Nat, m \in T, m + 1 <= n PROVE Ok(m + 1)
  <2> DEFINE i == m + 1
             x == f[m]
             c == ss[i]
             w == f[i]
  <2>1. i \in 1..n /\ i - 1 = m /\ m <= n /\ m \in 0..n
    BY <1>1, <1>6
  <2>2. w = x \o c /\ x \in Seq(Nat) /\ c \in Seq(Nat) /\ Len(x) \in Nat
    BY <1>1, <1>4, <2>1, ElementOfSeq
  <2>3. Len(x) > m \/ (Len(x) = m /\ \A j \in 1..m : x[j] = s[j])
    BY <1>6, <2>1
  <2> DEFINE v == x \o c
  <2> HIDE DEF x, w
  <2>4. Len(v) = Len(x) + Len(c)
        /\ \A j \in 1..(Len(x) + Len(c)) : v[j] = IF j <= Len(x) THEN x[j] ELSE c[j - Len(x)]
    BY <2>2, ConcatProperties
  <2> HIDE DEF v
  <2>5. CASE s[i] \in Special /\ c = <<Backslash, Letter(s[i])>>
    <3>1. Len(c) = 2
      BY <2>5
    <3> HIDE DEF c
    <3>2. Len(v) > m + 1
      BY <2>2, <2>3, <2>4, <3>1
    <3> QED
      BY <2>2, <3>2 DEF v, w
  <2>6. CASE s[i] \notin Special /\ c = <<s[i]>>
    <3>1. Len(c) = 1 /\ c[1] = s[i]
      BY <2>6
    <3> HIDE DEF c
    <3>2. CASE Len(x) > m
      <4>1. Len(v) > m + 1
        BY <2>2, <2>4, <3>1, <3>2
      <4> QED
        BY <2>2, <4>1 DEF v, w
    <3>3. CASE Len(x) = m /\ \A j \in 1..m : x[j] = s[j]
      <4>1. Len(v) = m + 1
        BY <2>4, <3>1, <3>3
      <4>2. \A j \in 1..(m + 1) : v[j] = s[j]
        <5> SUFFICES ASSUME NEW j \in 1..(m + 1) PROVE v[j] = s[j]
          OBVIOUS
        <5>1. CASE j <= m
          <6>1. j \in 1..m
            BY <5>1
          <6> QED
            BY <2>4, <3>1, <3>3, <5>1, <6>1
        <5>2. CASE ~(j <= m)
          <6>1. j = i /\ j - m = 1
            BY <5>2
          <6> QED
            BY <2>4, <3>1, <3>3, <5>2, <6>1
        <5> QED
          BY <5>1, <5>2
      <4> QED
        BY <2>2, <4>1, <4>2 DEF v, w
    <3> QED
      BY <2>3, <3>2, <3>3
  <2> QED
    BY <1>1, <2>1, <2>5, <2>6
<1> HIDE DEF Ok
<1>7. \A m \in Nat : m \in T => m + 1 \in T
  BY <1>6
<1>8. Nat \subseteq T
  <2> HIDE DEF T
  <2> QED
    BY <1>5, <1>7, Induction
<1>9. Len(E) > n \/ (Len(E) = n /\ \A j \in 1..n : E[j] = s[j])
  <2>1. Ok(n)
    BY <1>1, <1>8
  <2> QED
    BY <1>4, <2>1 DEF Ok
<1>10. Len(E) = n /\ (\A j \in 1..n : E[j] = s[j]) => E = s
  BY <1>2, SeqEqual
<1> QED
  BY <1>9, <1>10 DEF E

\* Different strings are escaped differently.
THEOREM EscapeInjective ==
    ASSUME NEW s \in Seq(Nat), NEW t \in Seq(Nat), escape_json_string(s) = escape_json_string(t)
    PROVE  s = t
<1>1. unescape_json_string(escape_json_string(s)) = s
  BY UnescapeOfEscaped
<1>2. unescape_json_string(escape_json_string(t)) = t
  BY UnescapeOfEscaped
<1> QED
  BY <1>1, <1>2

-----------------------------------------------------------------------------
(* Where the parts of a text with separators stand.                          *)

Places(at, t, p, ss, separator, end) ==
    /\ at \in [1..Len(ss) -> Nat \ {0}]
    /\ \A i \in 1..Len(ss) : Stands(t, at[i], ss[i])
    /\ \A i \in 1..(Len(ss) - 1) : /\ Stands(t, at[i] + Len(ss[i]), separator)
                                   /\ at[i + 1] = at[i] + Len(ss[i]) + Len(separator)
    /\ Len(ss) = 0 => end = p
    /\ Len(ss) # 0 => at[1] = p /\ end = at[Len(ss)] + Len(ss[Len(ss)])

\* Where joined texts stand, each of them stands, with separators in between.
LEMMA JoinedPlaces ==
    ASSUME NEW t \in Seq(Nat), NEW p, NEW ss \in Seq(Seq(Nat)), NEW separator \in Seq(Nat),
           Stands(t, p, Joined(ss, separator))
    PROVE  \E at : Places(at, t, p, ss, separator, p + Len(Joined(ss, separator)))
<1> DEFINE n == Len(ss)
           tt == [i \in 1..n |-> IF i = 1 THEN ss[i] ELSE separator \o ss[i]]
           J == Joined(ss, separator)
<1>1. /\ n \in Nat /\ DOMAIN ss = 1..n /\ Len(separator) \in Nat
      /\ \A i \in 1..n : /\ ss[i] \in Seq(Nat) /\ Len(ss[i]) \in Nat
                         /\ separator \o ss[i] \in Seq(Nat)
                         /\ Len(separator \o ss[i]) = Len(separator) + Len(ss[i])
  BY LenProperties, ElementOfSeq, ConcatProperties
<1>2. J = FlattenSeq(tt)
  BY <1>1 DEF Joined
<1>3. tt \in Seq(Seq(Nat)) /\ Len(tt) = n
  BY <1>1
<1>4. \A i \in 1..n : tt[i] = IF i = 1 THEN ss[i] ELSE separator \o ss[i]
  OBVIOUS
<1> HIDE DEF tt, J
<1>5. PICK f : Flattens(f, tt, Nat)
  BY <1>3, Flattening
<1>6. PiecesStand(t, p, tt, f)
  <2>1. Stands(t, p, FlattenSeq(tt))
    BY <1>2 DEF J
  <2> QED
    BY <1>3, <1>5, <2>1, StandsPieces
<1>7. /\ f[0] = <<>> /\ Len(f[0]) = 0 /\ J = f[n] /\ p \in Nat \ {0}
      /\ \A i \in 0..n : Len(f[i]) \in Nat
      /\ \A i \in 1..n : /\ Stands(t, p + Len(f[i - 1]), tt[i])
                         /\ Len(f[i]) = Len(f[i - 1]) + Len(tt[i])
  <2>1. f[0] = <<>> /\ J = f[n]
    BY <1>2, <1>3, <1>5 DEF Flattens
  <2>2. p \in Nat \ {0}
    BY DEF Stands
  <2>3. Len(f[0]) = 0
    BY <2>1
  <2> QED
    BY <1>3, <1>6, <2>1, <2>2, <2>3 DEF PiecesStand
<1> DEFINE at == [i \in 1..n |-> IF i = 1 THEN p ELSE p + Len(f[i - 1]) + Len(separator)]
<1>8. ASSUME NEW i \in 1..n
      PROVE  /\ at[i] \in Nat \ {0}
             /\ Stands(t, at[i], ss[i])
             /\ i # 1 => Stands(t, p + Len(f[i - 1]), separator)
             /\ at[i] + Len(ss[i]) = p + Len(f[i])
  <2>1. i - 1 \in 0..n /\ i \in 0..n
    BY <1>1
  <2> DEFINE a == Len(f[i - 1])
             b == Len(ss[i])
             c == Len(f[i])
             d == Len(separator)
             x == separator \o ss[i]
  <2>2. a \in Nat /\ b \in Nat /\ c \in Nat /\ d \in Nat
    BY <1>1, <1>7, <2>1
  <2>3. Stands(t, p + a, tt[i]) /\ c = a + Len(tt[i])
    BY <1>7
  <2>4. CASE i = 1
    <3>1. at[i] = p /\ a = 0 /\ tt[i] = ss[i]
      BY <1>4, <1>7, <2>4
    <3>2. c = b /\ p + a = p
      BY <1>7, <2>2, <2>3, <3>1
    <3> QED
      BY <1>7, <2>3, <2>4, <3>1, <3>2
  <2>5. CASE i # 1
    <3>1. at[i] = p + a + d /\ tt[i] = x /\ Len(x) = d + b
      BY <1>1, <1>4, <2>5
    <3>2. Stands(t, p + a, separator) /\ Stands(t, (p + a) + d, ss[i])
      <4>1. Stands(t, p + a, separator \o ss[i])
        BY <2>3, <3>1
      <4>2. ss[i] \in Seq(Nat)
        BY <1>1
      <4> DEFINE pa == p + a
                 si == ss[i]
      <4>3. si \in Seq(Nat) /\ Stands(t, pa, separator \o si)
        BY <4>1, <4>2
      <4> HIDE DEF pa, si
      <4>4. Stands(t, pa, separator) /\ Stands(t, pa + Len(separator), si)
        BY <4>3, StandsConcat
      <4> QED
        BY <4>4 DEF pa, si
    <3>3. c = a + (d + b)
      BY <2>3, <3>1
    <3> HIDE DEF a, b, c, d, at
    <3>4. at[i] \in Nat \ {0} /\ at[i] + b = p + c
      BY <1>7, <2>2, <3>1, <3>3
    <3> QED
      BY <2>5, <3>1, <3>2, <3>4 DEF a, b, c, d
  <2> QED
    BY <2>4, <2>5
<1>9. at \in [1..n -> Nat \ {0}]
  <2>1. at = [i \in 1..n |-> at[i]]
    OBVIOUS
  <2> HIDE DEF at
  <2> QED
    BY <1>8, <2>1
<1>10. ASSUME NEW i \in 1..(n - 1)
       PROVE  /\ Stands(t, at[i] + Len(ss[i]), separator)
              /\ at[i + 1] = at[i] + Len(ss[i]) + Len(separator)
  <2>1. i \in 1..n /\ i + 1 \in 1..n /\ i + 1 # 1 /\ (i + 1) - 1 = i
    BY <1>1
  <2>2. at[i + 1] = p + Len(f[i]) + Len(separator)
    BY <2>1
  <2> HIDE DEF at
  <2>3. Stands(t, p + Len(f[i]), separator) /\ at[i] + Len(ss[i]) = p + Len(f[i])
    BY <1>8, <2>1
  <2> QED
    BY <2>2, <2>3
<1>11. n = 0 => p + Len(J) = p
  BY <1>7
<1>12. n # 0 => at[1] = p /\ p + Len(J) = at[n] + Len(ss[n])
  <2> SUFFICES ASSUME n # 0 PROVE at[1] = p /\ p + Len(J) = at[n] + Len(ss[n])
    OBVIOUS
  <2>1. 1 \in 1..n /\ n \in 1..n
    BY <1>1
  <2>2. at[1] = p
    BY <2>1
  <2> HIDE DEF at
  <2> QED
    BY <1>7, <1>8, <2>1, <2>2
<1>13. \A i \in 1..n : Stands(t, at[i], ss[i])
  BY <1>8
<1> HIDE DEF at
<1>14. Places(at, t, p, ss, separator, p + Len(J))
  BY <1>9, <1>10, <1>11, <1>12, <1>13 DEF Places
<1> QED
  BY <1>14 DEF J

\* Where one or two characters stand.
LEMMA StandsChars ==
    ASSUME NEW t \in Seq(Nat), NEW p
    PROVE  /\ \A c \in Nat : Stands(t, p, <<c>>) =>
                 p \in Nat \ {0} /\ p <= Len(t) /\ t[p] = c
           /\ \A c, d \in Nat : Stands(t, p, <<c, d>>) =>
                 p \in Nat \ {0} /\ p + 1 <= Len(t) /\ t[p] = c /\ t[p + 1] = d
<1>0. Len(t) \in Nat
  BY LenProperties
<1>1. ASSUME NEW c \in Nat, Stands(t, p, <<c>>)
      PROVE  p \in Nat \ {0} /\ p <= Len(t) /\ t[p] = c
  <2> DEFINE x == <<c>>
  <2>1. Len(x) = 1 /\ x[1] = c /\ Stands(t, p, x)
    BY <1>1
  <2> HIDE DEF x
  <2>2. p \in Nat \ {0} /\ p + 1 <= Len(t) + 1 /\ t[p + 1 - 1] = x[1]
    BY <2>1 DEF Stands
  <2>3. p + 1 - 1 = p
    BY <2>2
  <2> QED
    BY <1>0, <2>1, <2>2, <2>3
<1>2. ASSUME NEW c \in Nat, NEW d \in Nat, Stands(t, p, <<c, d>>)
      PROVE  p \in Nat \ {0} /\ p + 1 <= Len(t) /\ t[p] = c /\ t[p + 1] = d
  <2> DEFINE x == <<c, d>>
  <2>1. Len(x) = 2 /\ x[1] = c /\ x[2] = d /\ Stands(t, p, x)
    BY <1>2
  <2> HIDE DEF x
  <2>2. p \in Nat \ {0} /\ p + 2 <= Len(t) + 1 /\ t[p + 1 - 1] = x[1] /\ t[p + 2 - 1] = x[2]
    BY <2>1 DEF Stands
  <2>3. p + 1 - 1 = p /\ p + 2 - 1 = p + 1
    BY <2>2
  <2> QED
    BY <1>0, <2>1, <2>2, <2>3
<1> QED
  BY <1>1, <1>2

\* What a string in quotes is read as.
LEMMA QuotedReads ==
    ASSUME content \in Seq(Nat), NEW s \in Seq(Nat), NEW p, Stands(content, p, Quoted(s))
    PROVE  /\ p \in Nat \ {0} /\ p < End /\ content[p] = Quote
           /\ ClosingQuote(p + 1) \in Nat /\ ClosingQuote(p + 1) < End /\ p + 1 <= ClosingQuote(p + 1)
           /\ SubSeq(content, p + 1, ClosingQuote(p + 1) - 1) = escape_json_string(s)
           /\ Len(Quoted(s)) \in Nat
           /\ p + Len(Quoted(s)) = ClosingQuote(p + 1) + 1
<1> DEFINE e == escape_json_string(s)
           q == <<Quote>>
           c == ClosingQuote(p + 1)
<1>1. e \in Seq(Nat) /\ q \in Seq(Nat) /\ Len(q) = 1 /\ Len(e) \in Nat /\ Quote \in Nat
  BY EscapeType, LenProperties DEF Quote
<1>2. Stands(content, p, (q \o e) \o q)
  BY DEF Quoted
<1>3. Len((q \o e) \o q) = 1 + Len(e) + 1 /\ Len(q \o e) = 1 + Len(e) /\ q \o e \in Seq(Nat)
  <2> HIDE DEF e, q
  <2> DEFINE r == q \o e
  <2>1. Len(r) = 1 + Len(e) /\ r \in Seq(Nat)
    BY <1>1, ConcatProperties, ZenonT(30)
  <2> HIDE DEF r
  <2>2. Len(r \o q) = Len(r) + Len(q)
    BY <1>1, <2>1, ConcatProperties
  <2> QED
    BY <1>1, <2>1, <2>2 DEF r
<1>4. Stands(content, p, q) /\ Stands(content, p + 1, e) /\ Stands(content, p + (1 + Len(e)), q)
  <2> HIDE DEF e, q
  <2> DEFINE r == q \o e
  <2>1. Stands(content, p, r \o q) /\ r \in Seq(Nat) /\ Len(r) = 1 + Len(e)
    BY <1>2, <1>3
  <2> HIDE DEF r
  <2>2. Stands(content, p, r) /\ Stands(content, p + Len(r), q)
    BY <1>1, <2>1, StandsConcat
  <2>3. Stands(content, p, q \o e)
    BY <2>2 DEF r
  <2>4. Stands(content, p, q) /\ Stands(content, p + Len(q), e)
    BY <1>1, <2>3, StandsConcat
  <2> QED
    BY <1>1, <2>1, <2>2, <2>4
<1>5. p \in Nat \ {0} /\ p <= Len(content) /\ content[p] = Quote
  BY <1>1, <1>4, StandsChars
<1>6. Stands(content, (p + 1) + Len(e), q)
  <2> DEFINE l == Len(e)
  <2>1. l \in Nat
    BY <1>1
  <2> HIDE DEF l
  <2>2. p + (1 + l) = (p + 1) + l
    BY <1>5, <2>1
  <2> QED
    BY <1>4, <2>2 DEF l
<1>7. /\ c = (p + 1) + Len(e) /\ c \in Nat /\ c < End
      /\ SubSeq(content, p + 1, c - 1) = e
  BY <1>4, <1>6, ClosingQuoteOfEscaped
<1>8. Len(Quoted(s)) = Len(e) + 2
  <2>1. Len(Quoted(s)) = 1 + Len(e) + 1
    BY <1>3 DEF Quoted
  <2> DEFINE l == Len(e)
  <2> HIDE DEF l
  <2>2. l \in Nat => 1 + l + 1 = l + 2
    OBVIOUS
  <2> QED
    BY <1>1, <2>1, <2>2 DEF l
<1> DEFINE l == Len(e)
<1>9. l \in Nat /\ p \in Nat /\ End = Len(content) + 1 /\ Len(content) \in Nat
  BY <1>1, <1>5, TextEnd DEF End
<1> HIDE DEF l, c
<1>10. c = (p + 1) + l /\ Len(Quoted(s)) = l + 2
  BY <1>7, <1>8 DEF l
<1>11. p < End /\ p + 1 <= c /\ l + 2 \in Nat /\ p + (l + 2) = c + 1
  BY <1>5, <1>9, <1>10
<1> QED
  BY <1>5, <1>7, <1>10, <1>11 DEF c

\* What a value is written as, by its type; it does not begin with a blank.
LEMMA TextOfHead ==
    ASSUME NEW v, IsValue(v)
    PROVE  /\ TextOf(v) \in Seq(Nat) /\ Len(TextOf(v)) \in Nat \ {0}
           /\ TextOf(v)[1] \notin Blanks
           /\ v[1] = "string" => v[2] \in Strings /\ v = <<"string", v[2]>> /\ TextOf(v) = Quoted(v[2])
           /\ v[1] = "bool" => /\ v[2] \in BOOLEAN /\ v = <<"bool", v[2]>>
                               /\ TextOf(v) = IF v[2] THEN WordTrue ELSE WordFalse
           /\ v[1] = "array" =>
                 /\ v[2] \in Seq(Strings) /\ v = <<"array", v[2]>> /\ Len(v[2]) <= MaxArray + 1
                 /\ TextOf(v) = <<OpenBracket>>
                                \o Joined([i \in DOMAIN v[2] |-> Quoted(v[2][i])], <<Comma, Space>>)
                                \o <<CloseBracket>>
           /\ v[1] \in {"string", "bool", "array"}
<1>1. TextOf(v) \in Seq(Nat)
  BY TextOfType
<1>2. CASE v \in {"string"} \X Strings
  <2>1. v[1] = "string" /\ v[2] \in Strings /\ v = <<"string", v[2]>>
    BY <1>2
  <2>2. TextOf(v) = Quoted(v[2])
    BY <2>1 DEF TextOf
  <2> DEFINE e == escape_json_string(v[2])
             q == <<Quote>>
  <2>3. e \in Seq(Nat) /\ q \in Seq(Nat) /\ Len(q) = 1 /\ q[1] = Quote /\ Len(e) \in Nat
    BY <2>1, EscapeType, LenProperties DEF Strings, Quote
  <2>4. Quoted(v[2]) = (q \o e) \o q
    BY DEF Quoted
  <2> HIDE DEF e, q
  <2> DEFINE r == q \o e
             w == r \o q
  <2>5. r \in Seq(Nat) /\ Len(r) = 1 + Len(e) /\ r[1] = Quote
    <3>1. /\ r \in Seq(Nat) /\ Len(r) = Len(q) + Len(e)
          /\ \A i \in 1..Len(q) + Len(e) : r[i] = IF i <= Len(q) THEN q[i] ELSE e[i - Len(q)]
      BY <2>3, ConcatProperties
    <3> HIDE DEF r
    <3>2. 1 \in 1..Len(q) + Len(e)
      BY <2>3
    <3> QED
      BY <2>3, <3>1, <3>2
  <2> HIDE DEF r
  <2>6. Len(w) = Len(r) + 1 /\ w[1] = Quote
    <3>1. /\ Len(w) = Len(r) + Len(q)
          /\ \A i \in 1..Len(r) + Len(q) : w[i] = IF i <= Len(r) THEN r[i] ELSE q[i - Len(r)]
      BY <2>3, <2>5, ConcatProperties
    <3> HIDE DEF w
    <3>2. 1 \in 1..Len(r) + Len(q) /\ 1 <= Len(r)
      BY <2>3, <2>5
    <3> QED
      BY <2>3, <2>5, <3>1, <3>2
  <2>7. Len(w) \in Nat \ {0} /\ w[1] \notin Blanks
    <3> HIDE DEF w
    <3> QED
      BY <2>3, <2>5, <2>6 DEF Blanks, Quote, Space
  <2>8. TextOf(v) = w
    BY <2>2, <2>4 DEF r
  <2> HIDE DEF w
  <2> QED
    BY <1>1, <2>1, <2>2, <2>7, <2>8
<1>3. CASE v \in {"bool"} \X BOOLEAN
  <2>1. v[1] = "bool" /\ v[2] \in BOOLEAN /\ v = <<"bool", v[2]>>
    BY <1>3
  <2>2. TextOf(v) = IF v[2] THEN WordTrue ELSE WordFalse
    BY <2>1 DEF TextOf
  <2>3. Len(WordTrue) = 1 /\ Len(WordFalse) = 1 /\ WordTrue[1] = 84 /\ WordFalse[1] = 70
    BY DEF WordTrue, WordFalse
  <2>4. 84 \notin Blanks /\ 70 \notin Blanks
    BY DEF Blanks, Space
  <2>5. TextOf(v) \in {WordTrue, WordFalse}
    BY <2>2
  <2> QED
    BY <1>1, <2>1, <2>2, <2>3, <2>4, <2>5
<1>4. CASE v \in {"array"} \X Seq(Strings) /\ Len(v[2]) <= MaxArray + 1
  <2>1. v[1] = "array" /\ v[2] \in Seq(Strings) /\ v = <<"array", v[2]>> /\ Len(v[2]) <= MaxArray + 1
    BY <1>4
  <2> DEFINE a == v[2]
             qq == [i \in DOMAIN a |-> Quoted(a[i])]
             J == Joined(qq, <<Comma, Space>>)
             b == <<OpenBracket>>
             c == <<CloseBracket>>
  <2>2. TextOf(v) = (b \o J) \o c
    BY <2>1 DEF TextOf
  <2> HIDE DEF a
  <2>3. Len(a) \in Nat /\ DOMAIN a = 1..Len(a) /\ \A i \in 1..Len(a) : a[i] \in Seq(Nat)
    BY <2>1, LenProperties, ElementOfSeq DEF Strings, a
  <2>4. qq \in Seq(Seq(Nat))
    <3>1. \A i \in 1..Len(a) : Quoted(a[i]) \in Seq(Nat)
      BY <2>3, QuotedType
    <3> QED
      BY <2>3, <3>1
  <2> HIDE DEF qq
  <2>5. <<Comma, Space>> \in Seq(Nat)
    BY DEF Comma, Space
  <2>6. J \in Seq(Nat) /\ Len(J) \in Nat
    BY <2>4, <2>5, JoinedType, LenProperties
  <2>7. b \in Seq(Nat) /\ Len(b) = 1 /\ b[1] = OpenBracket /\ c \in Seq(Nat) /\ Len(c) = 1
    BY DEF OpenBracket, CloseBracket
  <2> HIDE DEF J, b, c
  <2> DEFINE r == b \o J
             w == r \o c
  <2>8. r \in Seq(Nat) /\ Len(r) = 1 + Len(J) /\ r[1] = OpenBracket
    <3>1. /\ r \in Seq(Nat) /\ Len(r) = Len(b) + Len(J)
          /\ \A i \in 1..Len(b) + Len(J) : r[i] = IF i <= Len(b) THEN b[i] ELSE J[i - Len(b)]
      BY <2>6, <2>7, ConcatProperties
    <3> HIDE DEF r
    <3>2. 1 \in 1..Len(b) + Len(J)
      BY <2>6, <2>7
    <3> QED
      BY <2>7, <3>1, <3>2
  <2> HIDE DEF r
  <2>9. Len(w) = Len(r) + 1 /\ w[1] = OpenBracket
    <3>1. /\ Len(w) = Len(r) + Len(c)
          /\ \A i \in 1..Len(r) + Len(c) : w[i] = IF i <= Len(r) THEN r[i] ELSE c[i - Len(r)]
      BY <2>7, <2>8, ConcatProperties
    <3> HIDE DEF w
    <3>2. 1 \in 1..Len(r) + Len(c) /\ 1 <= Len(r)
      BY <2>6, <2>7, <2>8
    <3> QED
      BY <2>7, <2>8, <3>1, <3>2
  <2>10. Len(w) \in Nat \ {0} /\ w[1] \notin Blanks
    <3> HIDE DEF w
    <3> QED
      BY <2>6, <2>8, <2>9 DEF Blanks, OpenBracket, Space
  <2>11. TextOf(v) = w
    BY <2>2 DEF r
  <2> HIDE DEF w
  <2>12. TextOf(v) = <<OpenBracket>>
                     \o Joined([i \in DOMAIN v[2] |-> Quoted(v[2][i])], <<Comma, Space>>)
                     \o <<CloseBracket>>
    BY <2>2 DEF a, b, c, J, qq
  <2> QED
    BY <1>1, <2>1, <2>10, <2>11, <2>12
<1> QED
  BY <1>2, <1>3, <1>4 DEF IsValue

\* What stands where a field was written.
FieldReads(p, k, v, close, end) ==
    /\ p \in Nat \ {0} /\ close \in Nat /\ end \in Nat /\ p + 3 <= close /\ close + 3 < end /\ end <= End
    /\ content[p] = Space /\ content[p + 1] = Space /\ content[p + 2] = Quote
    /\ close = ClosingQuote(p + 3)
    /\ SubSeq(content, p + 3, close - 1) = escape_json_string(k)
    /\ content[close + 1] = Colon /\ content[close + 2] = Space
    /\ content[close + 3] \notin Blanks
    /\ Stands(content, close + 3, TextOf(v))
    /\ end = close + 3 + Len(TextOf(v))

\* Where a field was written, the parser finds its name, its colon and its value.
LEMMA FieldStands ==
    ASSUME content \in Seq(Nat), NEW p, NEW k \in Seq(Nat), NEW v, IsValue(v),
           Stands(content, p, FieldText(k, v))
    PROVE  FieldReads(p, k, v, ClosingQuote(p + 3), p + Len(FieldText(k, v)))
<1> DEFINE a == <<Space, Space>>
           q == Quoted(k)
           b == <<Colon, Space>>
           x == TextOf(v)
           c == ClosingQuote(p + 3)
<1>1. /\ a \in Seq(Nat) /\ b \in Seq(Nat) /\ q \in Seq(Nat) /\ x \in Seq(Nat)
      /\ Len(a) = 2 /\ Len(b) = 2 /\ Space \in Nat /\ Colon \in Nat
  <2>1. q \in Seq(Nat) /\ x \in Seq(Nat)
    BY QuotedType, TextOfHead
  <2>2. a \in Seq(Nat) /\ b \in Seq(Nat) /\ Space \in Nat /\ Colon \in Nat
    BY DEF Space, Colon
  <2>3. Len(a) = 2 /\ Len(b) = 2
    OBVIOUS
  <2> HIDE DEF a, b, q, x
  <2> QED
    BY <2>1, <2>2, <2>3
<1>2. Len(x) \in Nat \ {0} /\ Len(q) \in Nat /\ x[1] \notin Blanks
  BY <1>1, TextOfHead, LenProperties
<1>3. Stands(content, p, ((a \o q) \o b) \o x) /\ FieldText(k, v) = ((a \o q) \o b) \o x
  BY DEF FieldText
<1> HIDE DEF a, q, b, x
<1> DEFINE aq == a \o q
<1>4. aq \in Seq(Nat) /\ Len(aq) = 2 + Len(q)
  <2>1. aq \in Seq(Nat) /\ Len(aq) = Len(a) + Len(q)
    BY <1>1, ConcatProperties
  <2> HIDE DEF aq
  <2> QED
    BY <1>1, <2>1
<1> DEFINE aqb == aq \o b
<1>5. aqb \in Seq(Nat) /\ Len(aqb) = (2 + Len(q)) + 2
  <2> HIDE DEF aq
  <2>1. aqb \in Seq(Nat) /\ Len(aqb) = Len(aq) + Len(b)
    BY <1>1, <1>4, ConcatProperties
  <2> HIDE DEF aqb
  <2> QED
    BY <1>1, <1>4, <2>1
<1>6. Len(aqb \o x) = (2 + Len(q)) + 2 + Len(x)
  <2> HIDE DEF aqb
  <2>1. Len(aqb \o x) = Len(aqb) + Len(x)
    BY <1>1, <1>5, ConcatProperties
  <2> QED
    BY <1>5, <2>1
<1>7. Stands(content, p, aqb) /\ Stands(content, p + Len(aqb), x)
  <2>1. Stands(content, p, aqb \o x)
    BY <1>3
  <2> HIDE DEF aqb
  <2> QED
    BY <1>1, <1>5, <2>1, StandsConcat
<1>8. Stands(content, p, aq) /\ Stands(content, p + Len(aq), b)
  <2> HIDE DEF aq
  <2> QED
    BY <1>1, <1>4, <1>7, StandsConcat
<1>9. Stands(content, p, a) /\ Stands(content, p + Len(a), q)
  BY <1>1, <1>8, StandsConcat
<1>10. p \in Nat \ {0} /\ content[p] = Space /\ content[p + 1] = Space
  BY <1>1, <1>9, StandsChars DEF a
<1>11. Stands(content, p + 2, Quoted(k))
  BY <1>1, <1>9 DEF q
<1>12. /\ content[p + 2] = Quote
       /\ ClosingQuote((p + 2) + 1) \in Nat /\ (p + 2) + 1 <= ClosingQuote((p + 2) + 1)
       /\ SubSeq(content, (p + 2) + 1, ClosingQuote((p + 2) + 1) - 1) = escape_json_string(k)
       /\ (p + 2) + Len(q) = ClosingQuote((p + 2) + 1) + 1
  BY <1>11, QuotedReads DEF q
<1>13. (p + 2) + 1 = p + 3
  BY <1>10
<1> DEFINE m == Len(q)
           l == Len(x)
<1>14. /\ c \in Nat /\ p + 3 <= c /\ SubSeq(content, p + 3, c - 1) = escape_json_string(k)
       /\ (p + 2) + m = c + 1
  BY <1>12, <1>13
<1> HIDE DEF m, l, c
<1>15. m \in Nat /\ l \in Nat \ {0} /\ p \in Nat \ {0}
  BY <1>2, <1>10 DEF m, l
<1>16. p + (2 + m) = c + 1 /\ p + ((2 + m) + 2) = c + 3 /\ p + ((2 + m) + 2 + l) = c + 3 + l
  BY <1>14, <1>15
<1>17. Stands(content, c + 1, b) /\ Stands(content, c + 3, x)
  BY <1>4, <1>5, <1>7, <1>8, <1>16 DEF m
<1>18. content[c + 1] = Colon /\ content[(c + 1) + 1] = Space /\ (c + 1) + 1 = c + 2
  <2>1. Stands(content, c + 1, <<Colon, Space>>)
    BY <1>17 DEF b
  <2>2. content[c + 1] = Colon /\ content[(c + 1) + 1] = Space
    BY <1>1, <2>1, StandsChars
  <2> QED
    BY <1>14, <2>2
<1>19. content[c + 3] \notin Blanks /\ c + 3 + l <= End
  <2>1. Len(content) \in Nat /\ End = Len(content) + 1
    BY TextEnd DEF End
  <2>2. (c + 3) + l <= Len(content) + 1 /\ content[(c + 3) + 1 - 1] = x[1]
    <3>1. 1 \in 1..Len(x)
      BY <1>2
    <3> QED
      BY <1>17, <3>1 DEF Stands, l
  <2>3. (c + 3) + 1 - 1 = c + 3
    BY <1>14
  <2> QED
    BY <1>2, <2>1, <2>2, <2>3
<1>20. p + Len(FieldText(k, v)) = c + 3 + l
  BY <1>3, <1>6, <1>16 DEF m, l
<1>21. c + 3 + l \in Nat /\ c + 3 < c + 3 + l
  BY <1>14, <1>15
<1> QED
  BY <1>10, <1>12, <1>14, <1>17, <1>18, <1>19, <1>20, <1>21 DEF FieldReads, c, l, x

-----------------------------------------------------------------------------
(* The signed text.                                                          *)

Object(o) == With(o, hmac_signature, <<"string", <<>>>>)
Number(o) == Cardinality(DOMAIN Object(o))
Names(o) == Sorted(DOMAIN Object(o))
Parts(o) == [i \in DOMAIN Names(o) |-> FieldText(Names(o)[i], Object(o)[Names(o)[i]])]
Layout(at, t, o) ==
    /\ Places(at, t, 2, Parts(o), <<Comma, Newline>>, Len(t))
    /\ 2 <= Len(t) /\ t[1] = Newline /\ t[Len(t)] = Newline

\* The object with its signature: its names in their order, and its text.
LEMMA SignedObject ==
    ASSUME NEW o, IsObject(o)
    PROVE  /\ DOMAIN Object(o) = DOMAIN o \cup {hmac_signature}
           /\ Number(o) \in Nat \ {0} /\ Number(o) <= Cardinality(DOMAIN o) + 1
           /\ Names(o) \in [1..Number(o) -> DOMAIN Object(o)]
           /\ \A i, j \in 1..Number(o) : Names(o)[i] = Names(o)[j] => i = j
           /\ \A k \in DOMAIN Object(o) : \E i \in 1..Number(o) : Names(o)[i] = k
           /\ \A k \in DOMAIN Object(o) : k \in Strings /\ k \in Seq(Nat) /\ IsValue(Object(o)[k])
           /\ Object(o)[hmac_signature] = <<"string", <<>>>>
           /\ \A k \in DOMAIN o : k # hmac_signature => Object(o)[k] = o[k]
           /\ Parts(o) \in Seq(Seq(Nat)) /\ Len(Parts(o)) = Number(o)
           /\ \A i \in 1..Number(o) : Parts(o)[i] = FieldText(Names(o)[i], Object(o)[Names(o)[i]])
           /\ Completed(o) = <<Newline>> \o Joined(Parts(o), <<Comma, Newline>>) \o <<Newline>>
<1> DEFINE w == With(o, hmac_signature, <<"string", <<>>>>)
           K == Sorted(DOMAIN w)
           n == Cardinality(DOMAIN w)
           ff == [i \in DOMAIN K |-> FieldText(K[i], w[K[i]])]
<1>1. hmac_signature \in Strings /\ IsValue(<<"string", <<>>>>)
  <2>1. hmac_signature \in Seq(Nat) /\ Len(hmac_signature) = 1 /\ 1 <= MaxString /\ 0 <= MaxString
    BY LimitsAssumption DEF hmac_signature
  <2> DEFINE e == <<>>
  <2>2. e \in Seq(Nat) /\ Len(e) = 0
    OBVIOUS
  <2> HIDE DEF e
  <2>3. hmac_signature \in Strings /\ e \in Strings
    BY <2>1, <2>2 DEF Strings
  <2>4. <<"string", e>> \in {"string"} \X Strings
    BY <2>3
  <2> QED
    BY <2>3, <2>4 DEF IsValue, e
<1>2. /\ DOMAIN w = DOMAIN o \cup {hmac_signature}
      /\ IsFiniteSet(DOMAIN w) /\ DOMAIN w \subseteq Strings
      /\ n \in Nat /\ n <= Cardinality(DOMAIN o) + 1
      /\ \A x \in DOMAIN w : IsValue(w[x])
  BY <1>1, WithType DEF IsObject
<1>3. /\ w[hmac_signature] = <<"string", <<>>>>
      /\ \A k \in DOMAIN o : k # hmac_signature => w[k] = o[k]
  BY DEF With
<1>4. stringify(w) = <<Newline>> \o Joined(ff, <<Comma, Newline>>) \o <<Newline>>
  BY DEF stringify, FieldText
<1> HIDE DEF w
<1>5. \A k \in DOMAIN w : k \in Strings /\ k \in Seq(Nat)
  BY <1>2 DEF Strings
<1>6. /\ K \in [1..n -> DOMAIN w]
      /\ \A i, j \in 1..n : K[i] = K[j] => i = j
      /\ \A k \in DOMAIN w : \E i \in 1..n : K[i] = k
  BY <1>2, <1>5, SortedNames
<1>7. n # 0
  <2>1. hmac_signature \in DOMAIN w
    BY <1>2
  <2> HIDE DEF n, K
  <2>2. PICK i \in 1..n : K[i] = hmac_signature
    BY <1>6, <2>1
  <2> QED
    BY <1>2, <2>2
<1>8. \A k \in DOMAIN w : FieldText(k, w[k]) \in Seq(Nat)
  <2> SUFFICES ASSUME NEW k \in DOMAIN w PROVE FieldText(k, w[k]) \in Seq(Nat)
    OBVIOUS
  <2> DEFINE a == <<Space, Space>>
             b == <<Colon, Space>>
             q == Quoted(k)
             x == TextOf(w[k])
  <2>1. a \in Seq(Nat) /\ b \in Seq(Nat) /\ q \in Seq(Nat) /\ x \in Seq(Nat)
    BY <1>2, <1>5, QuotedType, TextOfType DEF Space, Colon
  <2> HIDE DEF a, b, q, x
  <2>2. a \o q \o b \o x \in Seq(Nat)
    BY <2>1, ConcatProperties
  <2> QED
    BY <2>2 DEF FieldText, a, b, q, x
<1> HIDE DEF n, K
<1>9. ff \in Seq(Seq(Nat)) /\ Len(ff) = n /\ \A i \in 1..n : ff[i] = FieldText(K[i], w[K[i]])
  <2>1. DOMAIN K = 1..n /\ \A i \in 1..n : K[i] \in DOMAIN w
    BY <1>6
  <2>2. \A i \in 1..n : FieldText(K[i], w[K[i]]) \in Seq(Nat)
    BY <1>8, <2>1
  <2> QED
    BY <1>2, <2>1, <2>2
<1> HIDE DEF ff
<1>10. Object(o) = w /\ Names(o) = K /\ Number(o) = n /\ Parts(o) = ff
  BY DEF Object, Names, Number, Parts, w, K, n, ff
<1>11. Completed(o) = <<Newline>> \o Joined(ff, <<Comma, Newline>>) \o <<Newline>>
  BY <1>4 DEF Completed, w
<1> QED
  BY <1>2, <1>3, <1>5, <1>6, <1>7, <1>9, <1>10, <1>11

\* Every field of a signed text has its place.
LEMMA LayoutExists ==
    ASSUME NEW o, IsObject(o)
    PROVE  \E at : Layout(at, Completed(o), o)
<1> DEFINE t == Completed(o)
           b == <<Newline>>
           s == <<Comma, Newline>>
           J == Joined(Parts(o), s)
<1>1. b \in Seq(Nat) /\ Len(b) = 1 /\ b[1] = Newline /\ s \in Seq(Nat)
      /\ Comma \in Nat /\ Newline \in Nat
  BY DEF Newline, Comma
<1>2. t = (b \o J) \o b /\ Parts(o) \in Seq(Seq(Nat))
  BY SignedObject
<1>3. J \in Seq(Nat) /\ Len(J) \in Nat
  <2> HIDE DEF s
  <2> QED
    BY <1>1, <1>2, JoinedType, LenProperties
<1> HIDE DEF t, b, J
<1> DEFINE r == b \o J
<1>4. r \in Seq(Nat) /\ Len(r) = 1 + Len(J)
  BY <1>1, <1>3, ConcatProperties, ZenonT(30)
<1>5. t = r \o b
  BY <1>2
<1> HIDE DEF r
<1>6. t \in Seq(Nat) /\ Len(t) = (1 + Len(J)) + 1
  <2>1. r \o b \in Seq(Nat) /\ Len(r \o b) = Len(r) + Len(b)
    BY <1>1, <1>4, ConcatProperties
  <2> QED
    BY <1>1, <1>4, <1>5, <2>1
<1>7. Stands(t, 1, t)
  <2>1. Len(t) \in Nat
    BY <1>6, LenProperties
  <2>2. 1 + Len(t) <= Len(t) + 1 /\ \A q \in 1..Len(t) : 1 + q - 1 = q
    BY <2>1
  <2> QED
    BY <2>2 DEF Stands
<1>8. Stands(t, 1, r) /\ Stands(t, 1 + Len(r), b)
  <2> DEFINE p == 1
  <2>1. Stands(t, p, r \o b)
    BY <1>5, <1>7
  <2> HIDE DEF p
  <2>2. Stands(t, p, r) /\ Stands(t, p + Len(r), b)
    BY <1>1, <1>4, <1>6, <2>1, StandsConcat
  <2> QED
    BY <2>2 DEF p
<1>9. Stands(t, 1, b) /\ Stands(t, 1 + Len(b), J)
  <2> DEFINE p == 1
  <2>1. Stands(t, p, b \o J)
    BY <1>8 DEF r
  <2> HIDE DEF p
  <2>2. Stands(t, p, b) /\ Stands(t, p + Len(b), J)
    BY <1>1, <1>3, <1>6, <2>1, StandsConcat
  <2> QED
    BY <2>2 DEF p
<1>10. t[1] = Newline /\ t[1 + Len(r)] = Newline
  <2>1. Stands(t, 1, <<Newline>>) /\ Stands(t, 1 + Len(r), <<Newline>>)
    BY <1>8, <1>9 DEF b
  <2>2. ASSUME NEW p, Stands(t, p, <<Newline>>) PROVE t[p] = Newline
    <3>1. \A c \in Nat : Stands(t, p, <<c>>) => t[p] = c
      BY <1>6, StandsChars
    <3> QED
      BY <1>1, <2>2, <3>1
  <2> QED
    BY <2>1, <2>2
<1>11. 1 + Len(r) = Len(t) /\ 2 <= Len(t) /\ 2 + Len(J) = Len(t)
  <2> DEFINE l == Len(J)
  <2>1. l \in Nat /\ Len(t) = (1 + l) + 1 /\ Len(r) = 1 + l
    BY <1>3, <1>4, <1>6
  <2> HIDE DEF l
  <2>2. 1 + (1 + l) = (1 + l) + 1 /\ 2 <= (1 + l) + 1 /\ 2 + l = (1 + l) + 1
    BY <2>1
  <2> QED
    BY <2>1, <2>2 DEF l
<1>12. \E at : Places(at, t, 2, Parts(o), s, Len(t))
  <2> DEFINE p == 2
             ss == Parts(o)
  <2>1. Stands(t, p, J)
    BY <1>1, <1>9
  <2>2. p + Len(J) = Len(t)
    BY <1>11
  <2>3. Stands(t, p, Joined(ss, s)) /\ p + Len(Joined(ss, s)) = Len(t)
    BY <2>1, <2>2 DEF J
  <2>4. ss \in Seq(Seq(Nat))
    BY <1>2
  <2> HIDE DEF p, ss, s
  <2>5. \E at : Places(at, t, p, ss, s, p + Len(Joined(ss, s)))
    BY <1>1, <1>6, <2>3, <2>4, JoinedPlaces
  <2>6. \E at : Places(at, t, p, ss, s, Len(t))
    BY <2>3, <2>5
  <2> QED
    BY <2>6 DEF p, ss
<1>13. \E at : Layout(at, t, o)
  BY <1>10, <1>11, <1>12 DEF Layout
<1> QED
  BY <1>13 DEF t

\* The place from which field i + 1 is read, or the end behind the last one.
Start(at, i, o) == IF i = Number(o) THEN End ELSE at[i + 1] - 1

\* What the parser finds around field i + 1: white space, the field, and what ends it.
LEMMA AtField ==
    ASSUME content \in Seq(Nat), NEW o, IsObject(o), NEW at, Layout(at, content, o),
           NEW i \in 0..(Number(o) - 1),
           NEW k, k = Names(o)[i + 1], NEW v, v = Object(o)[k],
           NEW p, p = at[i + 1], NEW end, end = p + Len(FieldText(k, v))
    PROVE  /\ FieldReads(p, k, v, ClosingQuote(p + 3), end)
           /\ k \in DOMAIN Object(o) /\ k \in Strings /\ k \in Seq(Nat) /\ IsValue(v)
           /\ Start(at, i, o) = p - 1 /\ p - 1 \in 1..End /\ p + 2 < End
           /\ skip_whitespace(p - 1) = p + 2
           /\ end \in 1..End /\ end < End /\ AfterComma(end) = Start(at, i + 1, o)
           /\ IF i + 1 < Number(o) THEN content[end] = Comma
              ELSE content[end] = Newline /\ end + 1 = End
<1> DEFINE n == Number(o)
           ss == Parts(o)
           s == <<Comma, Newline>>
<1>1. /\ n \in Nat \ {0} /\ Names(o) \in [1..n -> DOMAIN Object(o)]
      /\ \A x \in DOMAIN Object(o) : x \in Strings /\ x \in Seq(Nat) /\ IsValue(Object(o)[x])
      /\ ss \in Seq(Seq(Nat)) /\ Len(ss) = n
      /\ \A j \in 1..n : ss[j] = FieldText(Names(o)[j], Object(o)[Names(o)[j]])
  BY SignedObject
<1>2. i \in Nat /\ i + 1 \in 1..n /\ i # n
  BY <1>1
<1>3. k \in DOMAIN Object(o) /\ k \in Strings /\ k \in Seq(Nat) /\ IsValue(v)
  BY <1>1, <1>2
<1>4. /\ at \in [1..n -> Nat \ {0}]
      /\ \A j \in 1..n : Stands(content, at[j], ss[j])
      /\ \A j \in 1..(n - 1) : /\ Stands(content, at[j] + Len(ss[j]), s)
                               /\ at[j + 1] = at[j] + Len(ss[j]) + Len(s)
      /\ at[1] = 2 /\ Len(content) = at[n] + Len(ss[n])
      /\ 2 <= Len(content) /\ content[1] = Newline /\ content[Len(content)] = Newline
  <2>1. Places(at, content, 2, ss, s, Len(content)) /\ Len(ss) = n
        /\ 2 <= Len(content) /\ content[1] = Newline /\ content[Len(content)] = Newline
    BY <1>1 DEF Layout
  <2> HIDE DEF ss, s, n
  <2> QED
    BY <1>1, <2>1 DEF Places
<1>5. ss[i + 1] = FieldText(k, v) /\ Len(s) = 2 /\ Comma \in Nat /\ Newline \in Nat
  BY <1>1, <1>2 DEF Comma, Newline
<1>6. Stands(content, p, FieldText(k, v))
  BY <1>2, <1>4, <1>5
<1>7. FieldReads(p, k, v, ClosingQuote(p + 3), end)
  BY <1>3, <1>6, FieldStands
<1>8. End \in Nat /\ Len(content) \in Nat /\ End = Len(content) + 1
  BY TextEnd DEF End
<1>9. /\ p \in Nat \ {0} /\ end \in Nat /\ p + 2 < end /\ p + 2 < End /\ end <= End
      /\ content[p] = Space /\ content[p + 1] = Space /\ content[p + 2] = Quote
  <2> DEFINE c == ClosingQuote(p + 3)
  <2>1. /\ p \in Nat \ {0} /\ c \in Nat /\ end \in Nat /\ p + 3 <= c /\ c + 3 < end /\ end <= End
        /\ content[p] = Space /\ content[p + 1] = Space /\ content[p + 2] = Quote
    BY <1>7 DEF FieldReads
  <2> HIDE DEF c
  <2>2. \A a, b, d, e \in Nat : a + 3 <= b /\ b + 3 < d /\ d <= e => a + 2 < d /\ a + 2 < e
    OBVIOUS
  <2>3. p \in Nat /\ End \in Nat
    BY <1>8, <2>1
  <2>4. p + 2 < end /\ p + 2 < End
    BY <2>1, <2>2, <2>3
  <2> QED
    BY <2>1, <2>4
<1> HIDE DEF s, n, ss
\* In front of every field there is a line break.
<1>10. p - 1 \in 1..End /\ content[p - 1] = Newline
  <2>1. CASE i = 0
    <3>1. p = 2
      BY <1>4, <2>1
    <3> QED
      BY <1>4, <1>8, <3>1
  <2>2. CASE i # 0
    <3>1. i \in 1..(n - 1) /\ i \in 1..n
      BY <1>1, <1>2, <2>2
    <3>2. Stands(content, at[i] + Len(ss[i]), s) /\ p = at[i] + Len(ss[i]) + Len(s)
      BY <1>4, <3>1
    <3> DEFINE l == at[i] + Len(ss[i])
    <3>3. Stands(content, l, <<Comma, Newline>>)
      BY <3>2 DEF s
    <3> HIDE DEF l
    <3>4. l \in Nat \ {0} /\ content[l + 1] = Newline
      BY <1>5, <3>3, StandsChars
    <3>5. p = l + 2
      BY <1>5, <3>2 DEF l
    <3>6. p - 1 = l + 1
      BY <3>4, <3>5
    <3>7. p - 1 \in Nat \ {0} /\ p - 1 <= End
      <4>1. \A a, b, e \in Nat : b # 0 /\ a - 1 = b + 1 /\ a + 2 < e => a - 1 \in Nat \ {0} /\ a - 1 <= e
        OBVIOUS
      <4> QED
        BY <1>8, <1>9, <3>4, <3>6, <4>1
    <3> QED
      BY <1>8, <3>4, <3>6, <3>7
  <2> QED
    BY <2>1, <2>2
<1>11. skip_whitespace(p - 1) = p + 2
  <2>1. Newline \in Blanks /\ Space \in Blanks /\ Quote \notin Blanks
    BY DEF Newline, Space, Quote, Blanks
  <2>2. p - 1 < End /\ p \in 1..End /\ p < End /\ p + 1 \in 1..End /\ p + 1 < End /\ p + 2 \in 1..End
        /\ (p - 1) + 1 = p /\ (p + 1) + 1 = p + 2
    <3>1. p \in Nat /\ p # 0 /\ p + 2 < End /\ End \in Nat
      BY <1>8, <1>9
    <3>2. \A a, e \in Nat : a # 0 /\ a + 2 < e =>
            /\ a - 1 < e /\ a \in 1..e /\ a < e /\ a + 1 \in 1..e /\ a + 1 < e /\ a + 2 \in 1..e
            /\ (a - 1) + 1 = a /\ (a + 1) + 1 = a + 2
      OBVIOUS
    <3> QED
      BY <3>1, <3>2
  <2>3. skip_whitespace(p - 1) = skip_whitespace(p)
    BY <1>10, <2>1, <2>2, SkipWhitespace
  <2>4. skip_whitespace(p) = skip_whitespace(p + 1)
    BY <1>9, <2>1, <2>2, SkipWhitespace
  <2>5. skip_whitespace(p + 1) = skip_whitespace(p + 2)
    BY <1>9, <2>1, <2>2, SkipWhitespace
  <2>6. skip_whitespace(p + 2) = p + 2
    BY <1>9, <2>1, <2>2, SkipWhitespace
  <2> QED
    BY <2>3, <2>4, <2>5, <2>6
<1>12. Start(at, i, o) = p - 1
  BY <1>2 DEF Start, n
<1>13. Comma \notin Blanks /\ Newline \in Blanks
  BY DEF Comma, Newline, Space, Blanks
\* Behind every field there is a comma, behind the last one a line break.
<1>14. CASE i + 1 < n
  <2>1. i + 1 \in 1..(n - 1) /\ (i + 1) + 1 = i + 2
    BY <1>1, <1>2, <1>14
  <2>2. Stands(content, at[i + 1] + Len(ss[i + 1]), s) /\ at[(i + 1) + 1] = at[i + 1] + Len(ss[i + 1]) + Len(s)
    BY <1>4, <2>1
  <2>3. Stands(content, end, <<Comma, Newline>>) /\ at[(i + 1) + 1] = end + 2
    BY <1>5, <2>2 DEF s
  <2>4. end \in Nat \ {0} /\ end + 1 <= Len(content) /\ content[end] = Comma
    BY <1>5, <2>3, StandsChars
  <2>5. end \in 1..End /\ end < End
    BY <1>8, <2>4
  <2>6. skip_whitespace(end) = end
    BY <1>13, <2>4, <2>5, SkipWhitespace
  <2>7. AfterComma(end) = end + 1
    BY <2>4, <2>5, <2>6 DEF AfterComma, At
  <2>8. Start(at, i + 1, o) = end + 1
    <3>1. i + 1 # n /\ (end + 2) - 1 = end + 1
      BY <1>14, <1>1, <1>2, <2>4
    <3> QED
      BY <2>3, <3>1 DEF Start, n
  <2> QED
    BY <1>3, <1>7, <1>9, <1>10, <1>11, <1>12, <1>14, <2>4, <2>5, <2>7, <2>8 DEF n
<1>15. CASE ~(i + 1 < n)
  <2>1. i + 1 = n
    BY <1>1, <1>2, <1>15
  <2>2. end = Len(content) /\ content[end] = Newline
    BY <1>4, <1>5, <2>1
  <2>3. end \in 1..End /\ end < End /\ end + 1 = End /\ End \in 1..End
    BY <1>4, <1>8, <2>2
  <2>4. skip_whitespace(end) = End
    BY <1>13, <2>2, <2>3, SkipWhitespace
  <2>5. AfterComma(end) = End
    BY <1>8, <2>4 DEF AfterComma, At
  <2>6. Start(at, i + 1, o) = End
    BY <2>1 DEF Start, n
  <2> QED
    BY <1>3, <1>7, <1>9, <1>10, <1>11, <1>12, <1>15, <2>2, <2>3, <2>5, <2>6 DEF n
<1> QED
  BY <1>14, <1>15

\* The empty string and the name hmac_signature need no escaping.
LEMMA EscapeShort ==
    /\ escape_json_string(<<>>) = <<>>
    /\ escape_json_string(hmac_signature) = hmac_signature
<1>1. escape_json_string(<<>>) = <<>>
  <2> DEFINE s == <<>>
  <2>1. s \in Seq(Nat) /\ Len(s) = 0
    OBVIOUS
  <2> HIDE DEF s
  <2>2. EscapePieces(s) \in Seq(Seq(Nat)) /\ Len(EscapePieces(s)) = 0
        /\ escape_json_string(s) = FlattenSeq(EscapePieces(s))
    BY <2>1, EscapePiecesType, ZenonT(30)
  <2>3. PICK f : Flattens(f, EscapePieces(s), Nat)
    BY <2>2, Flattening
  <2>4. escape_json_string(s) = <<>>
    BY <2>2, <2>3 DEF Flattens
  <2> QED
    BY <2>4 DEF s
<1>2. escape_json_string(hmac_signature) = hmac_signature
  <2> DEFINE s == hmac_signature
  <2>1. s \in Seq(Nat) /\ Len(s) = 1 /\ s[1] = 104 /\ s = <<104>>
    BY DEF hmac_signature
  <2>2. 104 \notin Special
    BY DEF Special, Escapes, Quote, Backslash, Newline
  <2> HIDE DEF s
  <2>3. EscapePieces(s) \in Seq(Seq(Nat)) /\ Len(EscapePieces(s)) = 1 /\ EscapePieces(s)[1] = <<104>>
        /\ escape_json_string(s) = FlattenSeq(EscapePieces(s))
    <3>1. 1 \in 1..Len(s) /\ s[1] \notin Special
      BY <2>1, <2>2
    <3>2. /\ escape_json_string(s) = FlattenSeq(EscapePieces(s))
          /\ EscapePieces(s) \in Seq(Seq(Nat)) /\ Len(EscapePieces(s)) = Len(s)
      BY <2>1, EscapePiecesType, ZenonT(30)
    <3>3. EscapePieces(s)[1] = <<s[1]>>
      <4>1. \A i \in 1..Len(s) : s[i] \in Special \/ EscapePieces(s)[i] = <<s[i]>>
        BY <2>1, EscapePiecesType, SMTT(30)
      <4> QED
        BY <3>1, <4>1
    <3> QED
      BY <2>1, <3>2, <3>3
  <2>4. PICK f : Flattens(f, EscapePieces(s), Nat)
    BY <2>3, Flattening
  <2>5. f[0] = <<>> /\ f[1] = f[1 - 1] \o <<104>> /\ 1 - 1 = 0 /\ escape_json_string(s) = f[1]
    <3>1. 1 \in 1..Len(EscapePieces(s)) /\ 1 - 1 = 0
      BY <2>3
    <3> QED
      BY <2>3, <2>4, <3>1 DEF Flattens
  <2>6. <<>> \o <<104>> = <<104>>
    <3>1. <<104>> \in Seq(Nat)
      OBVIOUS
    <3> QED
      BY <3>1, ConcatEmptySeq
  <2> QED
    BY <2>1, <2>5, <2>6 DEF s
<1> QED
  BY <1>1, <1>2

\* The limits that the text of an object needs.
LEMMA SignedFits ==
    ASSUME NEW o, IsObject(o), FitsLimits(o)
    PROVE  /\ Number(o) <= MaxKeys + 1
           /\ \A k \in DOMAIN Object(o) :
                 /\ Object(o)[k][1] = "string" => Fits(Object(o)[k][2])
                 /\ Object(o)[k][1] = "array" =>
                       \A i \in DOMAIN Object(o)[k][2] : Fits(Object(o)[k][2][i])
           /\ \A k \in DOMAIN Object(o) : PlainNames(o) => escape_json_string(k) = k
           /\ Opens(Completed(o), SignatureSize) = "object"
<1>1. /\ DOMAIN Object(o) = DOMAIN o \cup {hmac_signature}
      /\ Object(o)[hmac_signature] = <<"string", <<>>>>
      /\ \A k \in DOMAIN o : k # hmac_signature => Object(o)[k] = o[k]
      /\ Number(o) \in Nat \ {0} /\ Number(o) <= Cardinality(DOMAIN o) + 1
  BY SignedObject
<1>2. Fits(<<>>)
  <2>1. Len(escape_json_string(<<>>)) = 0 /\ 0 <= MaxString
    BY EscapeShort, LimitsAssumption
  <2> QED
    BY <2>1 DEF Fits
<1>3. ASSUME NEW k \in DOMAIN Object(o)
      PROVE  /\ Object(o)[k][1] = "string" => Fits(Object(o)[k][2])
             /\ Object(o)[k][1] = "array" =>
                   \A i \in DOMAIN Object(o)[k][2] : Fits(Object(o)[k][2][i])
  <2>1. CASE k = hmac_signature
    <3>1. Object(o)[k][1] = "string" /\ Object(o)[k][2] = <<>>
      BY <1>1, <2>1
    <3> QED
      BY <1>2, <3>1
  <2>2. CASE k # hmac_signature
    <3>1. k \in DOMAIN o /\ Object(o)[k] = o[k]
      BY <1>1, <2>2
    <3> QED
      BY <3>1 DEF FitsLimits
  <2> QED
    BY <2>1, <2>2
<1>4. Number(o) <= MaxKeys + 1
  <2>1. Cardinality(DOMAIN o) \in Nat /\ MaxKeys \in Nat /\ Cardinality(DOMAIN o) <= MaxKeys
    BY FS_CardinalityType, LimitsAssumption DEF IsObject, FitsLimits
  <2> QED
    BY <1>1, <2>1
<1>5. \A k \in DOMAIN Object(o) : PlainNames(o) => escape_json_string(k) = k
  BY <1>1, EscapeShort DEF PlainNames
<1>6. Opens(Completed(o), SignatureSize) = "object"
  <2> DEFINE l == Len(Completed(o))
  <2>1. l \in Nat /\ {MaxSize, SignatureSize} \subseteq Nat /\ l + 2 + SignatureSize <= MaxSize
    BY CompletedType, LenProperties, LimitsAssumption DEF FitsLimits
  <2> HIDE DEF l
  <2>2. ~(l + 2 + SignatureSize > MaxSize)
    BY <2>1
  <2> QED
    BY <2>2 DEF Opens, l
<1> QED
  BY <1>3, <1>4, <1>5, <1>6

-----------------------------------------------------------------------------
(* The elements of an array.                                                 *)

Quotes(ss) == [q \in DOMAIN ss |-> Quoted(ss[q])]
ArrayText(ss) == <<OpenBracket>> \o Joined(Quotes(ss), <<Comma, Space>>) \o <<CloseBracket>>
\* The elements stand at the places of el, and at last the bracket that closes.
ElementsStand(el, p, ss, last) ==
    /\ Places(el, content, p, Quotes(ss), <<Comma, Space>>, last)
    /\ p \in Nat \ {0} /\ last \in Nat /\ p <= last /\ last < End
    /\ content[last] = CloseBracket

\* The elements of an array, in quotes.
LEMMA QuotesType ==
    ASSUME NEW ss \in Seq(Strings)
    PROVE  /\ Quotes(ss) \in Seq(Seq(Nat)) /\ Len(Quotes(ss)) = Len(ss) /\ Len(ss) \in Nat
           /\ DOMAIN ss = 1..Len(ss)
           /\ \A i \in 1..Len(ss) : /\ ss[i] \in Strings /\ ss[i] \in Seq(Nat)
                                    /\ Quotes(ss)[i] = Quoted(ss[i])
<1>1. Len(ss) \in Nat /\ DOMAIN ss = 1..Len(ss) /\ \A i \in 1..Len(ss) : ss[i] \in Strings
  BY LenProperties, ElementOfSeq
<1>2. \A i \in 1..Len(ss) : ss[i] \in Seq(Nat) /\ Quoted(ss[i]) \in Seq(Nat)
  BY <1>1, QuotedType DEF Strings
<1>3. Quotes(ss) = [i \in 1..Len(ss) |-> Quoted(ss[i])]
  BY <1>1 DEF Quotes
<1> QED
  BY <1>1, <1>2, <1>3

\* Where an array was written, each of its elements has its place.
LEMMA ArrayStands ==
    ASSUME content \in Seq(Nat), NEW ss \in Seq(Strings), NEW p, Stands(content, p, ArrayText(ss))
    PROVE  /\ content[p] = OpenBracket /\ Len(ArrayText(ss)) \in Nat
           /\ \E el : ElementsStand(el, p + 1, ss, p + Len(ArrayText(ss)) - 1)
<1> DEFINE a == <<OpenBracket>>
           z == <<CloseBracket>>
           s == <<Comma, Space>>
           J == Joined(Quotes(ss), s)
<1>1. a \in Seq(Nat) /\ Len(a) = 1 /\ z \in Seq(Nat) /\ Len(z) = 1 /\ s \in Seq(Nat)
      /\ OpenBracket \in Nat /\ CloseBracket \in Nat
  BY DEF OpenBracket, CloseBracket, Comma, Space
<1>2. J \in Seq(Nat) /\ Len(J) \in Nat
  <2> HIDE DEF s
  <2> QED
    BY <1>1, QuotesType, JoinedType, LenProperties
<1>3. ArrayText(ss) = (a \o J) \o z
  BY DEF ArrayText
<1> HIDE DEF a, z, J
<1> DEFINE r == a \o J
<1>4. r \in Seq(Nat) /\ Len(r) = 1 + Len(J)
  <2>1. r \in Seq(Nat) /\ Len(r) = Len(a) + Len(J)
    BY <1>1, <1>2, ConcatProperties
  <2> HIDE DEF r
  <2> QED
    BY <1>1, <2>1
<1>5. ArrayText(ss) = r \o z
  BY <1>3
<1> HIDE DEF r
<1>6. Len(ArrayText(ss)) = (1 + Len(J)) + 1
  <2>1. Len(r \o z) = Len(r) + Len(z)
    BY <1>1, <1>4, ConcatProperties
  <2> QED
    BY <1>1, <1>4, <1>5, <2>1
<1>7. Stands(content, p, r) /\ Stands(content, p + Len(r), z)
  BY <1>1, <1>4, <1>5, StandsConcat
<1>8. Stands(content, p, a) /\ Stands(content, p + Len(a), J)
  BY <1>1, <1>2, <1>7, StandsConcat DEF r
<1>9. p \in Nat \ {0} /\ content[p] = OpenBracket
  <2>1. Stands(content, p, <<OpenBracket>>)
    BY <1>8 DEF a
  <2> QED
    BY <1>1, <2>1, StandsChars
<1> DEFINE l == Len(J)
           last == p + Len(ArrayText(ss)) - 1
<1>10. l \in Nat /\ last = (p + 1) + l /\ p + Len(r) = last /\ p + 1 <= last /\ last \in Nat
  <2>1. l \in Nat
    BY <1>2
  <2>2. Len(ArrayText(ss)) = (1 + l) + 1 /\ Len(r) = 1 + l
    BY <1>4, <1>6
  <2> HIDE DEF l
  <2> QED
    BY <1>9, <2>1, <2>2
<1>11. content[last] = CloseBracket /\ last <= Len(content)
  <2>1. Stands(content, p + Len(r), <<CloseBracket>>)
    BY <1>7 DEF z
  <2>2. content[p + Len(r)] = CloseBracket /\ p + Len(r) <= Len(content)
    BY <1>1, <2>1, StandsChars
  <2> QED
    BY <1>10, <2>2
<1>12. last < End
  BY <1>10, <1>11, TextEnd DEF End
<1>13. \E el : Places(el, content, p + 1, Quotes(ss), s, last)
  <2> DEFINE b == p + 1
             qq == Quotes(ss)
  <2>1. Stands(content, b, J) /\ b + Len(J) = last
    BY <1>1, <1>8, <1>10
  <2>2. qq \in Seq(Seq(Nat)) /\ J = Joined(qq, s)
    BY QuotesType DEF J
  <2> HIDE DEF b, qq, s, last, l
  <2>3. Stands(content, b, Joined(qq, s))
    BY <2>1, <2>2
  <2>4. \E el : Places(el, content, b, qq, s, b + Len(Joined(qq, s)))
    BY <1>1, <2>2, <2>3, JoinedPlaces
  <2>5. \E el : Places(el, content, b, qq, s, last)
    BY <2>1, <2>2, <2>4
  <2> QED
    BY <2>5 DEF b, qq
<1>14. PICK el : Places(el, content, p + 1, Quotes(ss), <<Comma, Space>>, last)
  BY <1>13
<1>15. p + 1 \in Nat \ {0}
  BY <1>9
<1> HIDE DEF last
<1>16. ElementsStand(el, p + 1, ss, last)
  BY <1>10, <1>11, <1>12, <1>14, <1>15 DEF ElementsStand
<1>17. Len(ArrayText(ss)) \in Nat
  BY <1>2, <1>6
<1> QED
  BY <1>9, <1>16, <1>17 DEF last

\* The reader is at element j + 1, or at the blank before it, or behind them all.
ElementPlace(el, ss, j, last, i) ==
    IF j = Len(ss) THEN i = last
    ELSE i = el[j + 1] \/ (i = el[j + 1] - 1 /\ content[i] = Space)

\* What the parser finds around element j + 1.
LEMMA AtElement ==
    ASSUME content \in Seq(Nat), NEW ss \in Seq(Strings), NEW el, NEW first, NEW last,
           ElementsStand(el, first, ss, last),
           NEW j \in 0..Len(ss), NEW i \in 1..End, ElementPlace(el, ss, j, last, i)
    PROVE  /\ i < End
           /\ j = Len(ss) => content[i] = CloseBracket
           /\ j # Len(ss) =>
                LET start == skip_whitespace(i)
                    close == ClosingQuote(start + 1)
                IN  /\ content[i] # CloseBracket
                    /\ At(start, Quote) /\ close # End
                    /\ SubSeq(content, start + 1, close - 1) = escape_json_string(ss[j + 1])
                    /\ ElementPlace(el, ss, j + 1, last, AfterComma(close + 1))
<1> DEFINE n == Len(ss)
           s == <<Comma, Space>>
           qq == Quotes(ss)
<1>1. /\ qq \in Seq(Seq(Nat)) /\ Len(qq) = n /\ n \in Nat
      /\ \A x \in 1..n : ss[x] \in Strings /\ ss[x] \in Seq(Nat) /\ qq[x] = Quoted(ss[x])
  BY QuotesType
<1>2. /\ Places(el, content, first, qq, s, last)
      /\ last \in Nat /\ last < End /\ content[last] = CloseBracket
  BY DEF ElementsStand
<1>3. End \in Nat /\ Len(content) \in Nat /\ End = Len(content) + 1
  BY TextEnd DEF End
<1>4. CASE j = n
  <2>1. i = last
    BY <1>4 DEF ElementPlace
  <2> QED
    BY <1>2, <1>4, <2>1
<1>5. CASE j # n
  <2> DEFINE p == el[j + 1]
  <2>1. j + 1 \in 1..n /\ n # 0
    BY <1>1, <1>5
  <2>2. Stands(content, p, Quoted(ss[j + 1])) /\ ss[j + 1] \in Seq(Nat)
    BY <1>1, <1>2, <2>1 DEF Places
  <2>3. i = p \/ (i = p - 1 /\ content[i] = Space)
    BY <1>5 DEF ElementPlace
  <2> DEFINE c == ClosingQuote(p + 1)
             l == Len(Quoted(ss[j + 1]))
  <2>4. /\ p \in Nat \ {0} /\ p < End /\ content[p] = Quote
        /\ c \in Nat /\ c < End /\ p + 1 <= c
        /\ SubSeq(content, p + 1, c - 1) = escape_json_string(ss[j + 1])
        /\ l \in Nat /\ p + l = c + 1
    BY <2>2, QuotedReads
  <2>5. j + 1 < n =>
           /\ Stands(content, p + l, <<Comma, Space>>)
           /\ el[(j + 1) + 1] = (p + l) + 2
    <3>1. Len(s) = 2
      OBVIOUS
    <3>2. j + 1 < n => j + 1 \in 1..(n - 1)
      BY <1>1, <2>1
    <3> HIDE DEF n, qq, c
    <3> QED
      BY <1>1, <1>2, <2>1, <3>1, <3>2 DEF Places
  <2>6. j + 1 = n => last = p + l
    BY <1>1, <1>2, <2>1 DEF Places
  <2> HIDE DEF p, c, l, qq
  <2>7. Quote \notin Blanks /\ Space \in Blanks /\ Comma \notin Blanks /\ CloseBracket \notin Blanks
        /\ Quote # CloseBracket /\ Space # CloseBracket /\ CloseBracket # Comma
        /\ Comma \in Nat /\ Space \in Nat
    BY DEF Quote, Space, Comma, CloseBracket, Blanks
  <2>8. p \in 1..End /\ skip_whitespace(p) = p
    <3>1. p \in 1..End
      BY <1>3, <2>4
    <3> QED
      BY <2>4, <2>7, <3>1, SkipWhitespace
  <2>9. i < End /\ content[i] # CloseBracket /\ skip_whitespace(i) = p
    <3>1. CASE i = p
      BY <2>4, <2>7, <2>8, <3>1
    <3>2. CASE i = p - 1 /\ content[i] = Space
      <4>1. i + 1 = p /\ i < End
        BY <1>3, <2>4, <3>2
      <4>2. skip_whitespace(i) = skip_whitespace(i + 1)
        BY <2>7, <3>2, <4>1, SkipWhitespace
      <4> QED
        BY <2>7, <2>8, <3>2, <4>1, <4>2
    <3> QED
      BY <2>3, <3>1, <3>2
  <2>10. c + 1 \in 1..End
    BY <1>3, <2>4
  <2>11. CASE j + 1 < n
    <3>1. Stands(content, c + 1, <<Comma, Space>>) /\ el[(j + 1) + 1] = (c + 1) + 2
      BY <2>4, <2>5, <2>11
    <3>2. content[c + 1] = Comma /\ content[(c + 1) + 1] = Space /\ (c + 1) + 1 <= Len(content)
      BY <2>7, <3>1, StandsChars
    <3>3. c + 1 < End /\ ((c + 1) + 2) - 1 = (c + 1) + 1
      BY <1>3, <2>4, <3>2
    <3>4. skip_whitespace(c + 1) = c + 1
      BY <2>7, <2>10, <3>2, <3>3, SkipWhitespace
    <3>5. AfterComma(c + 1) = (c + 1) + 1
      BY <3>2, <3>3, <3>4 DEF AfterComma, At
    <3>6. ElementPlace(el, ss, j + 1, last, AfterComma(c + 1))
      <4>1. j + 1 # Len(ss)
        BY <1>1, <2>1, <2>11
      <4>2. AfterComma(c + 1) = el[(j + 1) + 1] - 1 /\ content[AfterComma(c + 1)] = Space
        BY <3>1, <3>2, <3>3, <3>5
      <4> QED
        BY <4>1, <4>2 DEF ElementPlace
    <3> QED
      BY <1>5, <2>4, <2>9, <3>6, SMTT(30) DEF At, c
  <2>12. CASE ~(j + 1 < n)
    <3>1. j + 1 = n
      BY <1>1, <2>1, <2>12
    <3>2. last = c + 1
      BY <2>4, <2>6, <3>1
    <3>3. skip_whitespace(c + 1) = c + 1
      BY <1>2, <2>7, <2>10, <3>2, SkipWhitespace
    <3>4. AfterComma(c + 1) = c + 1
      BY <1>2, <2>7, <3>2, <3>3 DEF AfterComma, At
    <3>5. ElementPlace(el, ss, j + 1, last, AfterComma(c + 1))
      BY <3>1, <3>2, <3>4 DEF ElementPlace
    <3> QED
      BY <1>5, <2>4, <2>9, <3>5, SMTT(30) DEF At, c
  <2> QED
    BY <2>11, <2>12
<1> QED
  BY <1>4, <1>5

-----------------------------------------------------------------------------
(* A word without quotes, which ends at a comma or with the line break that   *)
(* ends the text.                                                            *)

\* Trimming keeps a character that is no space.
LEMMA TrimWord ==
    ASSUME NEW x \in Nat \ Trimmed
    PROVE  trim(<<x>>) = <<x>> /\ trim(<<x, Newline>>) = <<x>>
<1>1. ASSUME NEW s \in Seq(Nat), Len(s) \in 1..2, s[1] = x, Len(s) = 2 => s[2] \in Trimmed
      PROVE  trim(s) = <<x>>
  <2> DEFINE kept == {i \in DOMAIN s : s[i] \notin Trimmed}
  <2>1. DOMAIN s = 1..Len(s)
    BY LenProperties
  <2>2. \A i \in 1..Len(s) : i = 1 \/ (i = 2 /\ Len(s) = 2)
    <3> DEFINE l == Len(s)
    <3>1. l = 1 \/ l = 2
      BY <1>1
    <3> HIDE DEF l
    <3>2. \A i \in 1..l : i = 1 \/ (i = 2 /\ l = 2)
      BY <3>1
    <3> QED
      BY <3>2 DEF l
  <2>3. 1 \in 1..Len(s)
    BY <1>1
  <2>4. kept = {1}
    BY <1>1, <2>1, <2>2, <2>3
  <2>5. Min(kept) = 1 /\ Max(kept) = 1
    <3> DEFINE T == {1}
    <3>1. T \subseteq Nat /\ T # {} /\ T \subseteq 0..1 /\ 1 \in Nat /\ \A y \in T : y = 1
      OBVIOUS
    <3> HIDE DEF T
    <3>2. Min(T) \in T /\ Max(T) \in T
      BY <3>1, MinOf, MaxOf
    <3> QED
      BY <2>4, <3>1, <3>2 DEF T
  <2>6. trim(s) = SubSeq(s, 1, 1)
    <3>1. kept # {}
      BY <2>4
    <3> QED
      BY <2>5, <3>1 DEF trim
  <2>7. SubSeq(s, 1, 1) = <<x>>
    <3> DEFINE r == SubSeq(s, 1, 1)
    <3>1. r \in Seq(Nat) /\ Len(r) = 1 /\ r[1] = s[1]
      <4> DEFINE a == 1
                 b == 1
      <4>1. a \in 1..Len(s) /\ b \in 1..Len(s) /\ b - a + 1 = 1 /\ a <= b /\ a + 1 - 1 = 1 /\ 1 \in 1..(b - a + 1)
        BY <2>3
      <4> HIDE DEF a, b
      <4>2. /\ SubSeq(s, a, b) \in Seq(Nat) /\ Len(SubSeq(s, a, b)) = b - a + 1
            /\ \A i \in 1..(b - a + 1) : SubSeq(s, a, b)[i] = s[a + i - 1]
        BY <1>1, <2>1, <4>1, SubSeqProperties
      <4>3. SubSeq(s, a, b)[1] = s[a + 1 - 1]
        BY <4>1, <4>2
      <4> QED
        BY <4>1, <4>2, <4>3 DEF a, b
    <3> HIDE DEF r
    <3>2. r = <<x>>
      <4> DEFINE y == <<x>>
      <4>1. y \in Seq(Nat) /\ Len(y) = 1 /\ y[1] = x
        OBVIOUS
      <4> HIDE DEF y
      <4>2. \A i \in 1..Len(r) : r[i] = y[i]
        BY <1>1, <3>1, <4>1
      <4>3. r = y
        BY <3>1, <4>1, <4>2, SeqEqual
      <4> QED
        BY <4>3 DEF y
    <3> QED
      BY <3>2 DEF r
  <2> QED
    BY <2>6, <2>7
<1>2. trim(<<x>>) = <<x>>
  <2> DEFINE s == <<x>>
  <2>1. s \in Seq(Nat) /\ Len(s) = 1 /\ s[1] = x
    OBVIOUS
  <2> HIDE DEF s
  <2>2. trim(s) = <<x>>
    BY <1>1, <2>1
  <2> QED
    BY <2>2 DEF s
<1>3. trim(<<x, Newline>>) = <<x>>
  <2> DEFINE s == <<x, Newline>>
  <2>1. Newline \in Nat /\ Newline \in Trimmed
    BY DEF Newline, Trimmed
  <2>2. s \in Seq(Nat) /\ Len(s) = 2 /\ s[1] = x /\ s[2] = Newline
    BY <2>1
  <2> HIDE DEF s
  <2>3. trim(s) = <<x>>
    BY <1>1, <2>1, <2>2
  <2> QED
    BY <2>3 DEF s
<1> QED
  BY <1>2, <1>3

WordEnd(w) == NextOf(w, {Comma, CloseBrace})
Word(w) == trim(SubSeq(content, w, WordEnd(w) - 1))

\* A word that was written is read up to what ends it, and trimmed.
LEMMA WordReads ==
    ASSUME content \in Seq(Nat), NEW x \in {84, 70}, NEW w, Stands(content, w, <<x>>),
           w + 1 < End, content[w + 1] = Comma \/ (content[w + 1] = Newline /\ (w + 1) + 1 = End)
    PROVE  WordEnd(w) \in 1..End /\ Word(w) = <<x>> /\ AfterComma(WordEnd(w)) = AfterComma(w + 1)
<1> DEFINE chars == {Comma, CloseBrace}
<1>1. x \in Nat /\ x \notin chars /\ x \notin Trimmed /\ Comma \in chars /\ Newline \notin chars
      /\ Newline \in Nat /\ Newline \in Blanks
  BY DEF Comma, CloseBrace, Trimmed, Newline, Space, Blanks
<1>2. End \in Nat /\ Len(content) \in Nat /\ End = Len(content) + 1
  BY TextEnd DEF End
<1>3. w \in Nat \ {0} /\ w <= Len(content) /\ content[w] = x
  BY <1>1, StandsChars
<1> HIDE DEF chars
<1>4. w \in 1..End /\ w < End /\ w + 1 \in 1..End /\ (w + 1) - 1 = w /\ End \in 1..End
  BY <1>2, <1>3
<1>5. NextOf(w, chars) = NextOf(w + 1, chars)
  BY <1>1, <1>3, <1>4, NextOfStops
<1>6. CASE content[w + 1] = Comma
  <2>1. NextOf(w, chars) = w + 1
    BY <1>1, <1>4, <1>5, <1>6, NextOfStops
  <2> DEFINE y == <<x>>
  <2>2. y \in Seq(Nat) /\ Len(y) = 1 /\ Stands(content, w, y)
    BY <1>1
  <2> HIDE DEF y
  <2>3. SubSeq(content, w, (w + 1) - 1) = y
    <3>1. SubSeq(content, w, w + Len(y) - 1) = y
      <4>1. y \in Seq(Nat) /\ Stands(content, w, y)
        BY <2>2
      <4> QED
        BY <4>1, StandsSubSeq
    <3>2. w + Len(y) - 1 = (w + 1) - 1
      BY <1>3, <2>2
    <3> QED
      BY <3>1, <3>2
  <2>4. trim(SubSeq(content, w, (w + 1) - 1)) = <<x>>
    <3>1. trim(y) = <<x>>
      BY <1>1, TrimWord DEF y
    <3> QED
      BY <2>3, <3>1
  <2> QED
    BY <1>4, <2>1, <2>4 DEF chars, WordEnd, Word
<1>7. CASE content[w + 1] = Newline /\ (w + 1) + 1 = End
  <2>1. NextOf(w + 1, chars) = NextOf(End, chars)
    BY <1>1, <1>4, <1>7, NextOfStops
  <2>0. ~(End < End)
    BY <1>2
  <2>2. NextOf(End, chars) = End
    <3> DEFINE e == End
    <3>1. e \in 1..End /\ ~(e < End)
      BY <1>4, <2>0
    <3> HIDE DEF e
    <3>2. NextOf(e, chars) = IF e < End /\ content[e] \notin chars THEN NextOf(e + 1, chars) ELSE e
      BY <3>1, NextOfStops
    <3> QED
      BY <3>1, <3>2 DEF e
  <2>11. skip_whitespace(End) = End
    <3> DEFINE e == End
    <3>1. e \in 1..End /\ ~(e < End)
      BY <1>4, <2>0
    <3> HIDE DEF e
    <3>2. skip_whitespace(e) = IF e < End /\ content[e] \in Blanks THEN skip_whitespace(e + 1) ELSE e
      BY <3>1, SkipWhitespace
    <3> QED
      BY <3>1, <3>2 DEF e
  <2>3. NextOf(w, chars) = End
    BY <1>5, <2>1, <2>2
  <2> DEFINE y == <<x, Newline>>
  <2>4. y \in Seq(Nat) /\ Len(y) = 2 /\ y[1] = x /\ y[2] = Newline
    BY <1>1
  <2> HIDE DEF y
  <2>5. Stands(content, w, y)
    <3>1. w + 2 <= Len(content) + 1 /\ w + 1 - 1 = w /\ w + 2 - 1 = w + 1
      BY <1>2, <1>3, <1>7
    <3>2. \A q \in 1..2 : q = 1 \/ q = 2
      OBVIOUS
    <3> QED
      BY <1>3, <1>7, <2>4, <3>1, <3>2 DEF Stands
  <2>6. SubSeq(content, w, w + 2 - 1) = y
    <3>1. SubSeq(content, w, w + Len(y) - 1) = y
      <4>1. y \in Seq(Nat) /\ Stands(content, w, y)
        BY <2>4, <2>5
      <4> QED
        BY <4>1, StandsSubSeq
    <3> QED
      BY <2>4, <3>1
  <2>7. End - 1 = w + 2 - 1
    BY <1>2, <1>3, <1>7
  <2>8. trim(SubSeq(content, w, End - 1)) = <<x>>
    BY <1>1, <2>6, <2>7, TrimWord DEF y
  <2>9. AfterComma(End) = End
    BY <2>0, <2>11 DEF AfterComma, At
  <2>10. AfterComma(w + 1) = End
    <3>1. skip_whitespace(w + 1) = skip_whitespace((w + 1) + 1)
      BY <1>1, <1>4, <1>7, SkipWhitespace
    <3> QED
      BY <1>7, <2>0, <2>11, <3>1 DEF AfterComma, At
  <2> QED
    BY <1>4, <2>3, <2>8, <2>9, <2>10 DEF chars, WordEnd, Word
<1> QED
  BY <1>6, <1>7

-----------------------------------------------------------------------------
(* The signed text is read as it was written.                                *)

NextName(o, c) == Names(o)[c + 1]
NextValue(o, c) == Object(o)[NextName(o, c)]
NextEnd(at, o, c) == at[c + 1] + Len(FieldText(NextName(o, c), NextValue(o, c)))

\* The fields that were read are the first c that were written, under their names as
\* they stand in the text.
ReadSoFar(r, o, c) ==
    /\ DOMAIN r = {escape_json_string(Names(o)[j]) : j \in 1..c}
    /\ \A j \in 1..c : r[escape_json_string(Names(o)[j])] = Object(o)[Names(o)[j]]

ReadingArray(at, el, first) ==
    LET v == NextValue(signed, object_key_count)
        last == NextEnd(at, signed, object_key_count) - 1
    IN  /\ v[1] = "array"
        /\ key = escape_json_string(NextName(signed, object_key_count))
        /\ Len(array_values) <= Len(v[2])
        /\ \A j \in 1..Len(array_values) : array_values[j] = v[2][j]
        /\ ElementsStand(el, first, v[2], last)
        /\ ElementPlace(el, v[2], Len(array_values), last, pos)

Reading(at) ==
    /\ Layout(at, content, signed)
    /\ object_key_count \in 0..Number(signed)
    /\ ReadSoFar(result, signed, object_key_count)
    /\ pc = "object" => pos = Start(at, object_key_count, signed)
    /\ pc = "array" => /\ object_key_count # Number(signed)
                       /\ \E el, first : ReadingArray(at, el, first)
    /\ pc = "done" => object_key_count = Number(signed)
    /\ pc = "thrown" => ~PlainNames(signed)

\* A field more is read: no name was read before.
LEMMA ReadSoFarAdds ==
    ASSUME NEW o, IsObject(o), NEW c \in 0..(Number(o) - 1), NEW r, ReadSoFar(r, o, c)
    PROVE  ReadSoFar(With(r, escape_json_string(NextName(o, c)), NextValue(o, c)), o, c + 1)
<1> DEFINE e(j) == escape_json_string(Names(o)[j])
           w == With(r, escape_json_string(NextName(o, c)), NextValue(o, c))
           n == Number(o)
<1>1. /\ n \in Nat \ {0} /\ Names(o) \in [1..n -> DOMAIN Object(o)]
      /\ \A i, j \in 1..n : Names(o)[i] = Names(o)[j] => i = j
      /\ \A k \in DOMAIN Object(o) : k \in Seq(Nat)
  BY SignedObject
<1> HIDE DEF n
<1>2. c \in Nat /\ c + 1 \in 1..n /\ 1..(c + 1) = 1..c \cup {c + 1} /\ \A j \in 1..c : j \in 1..n /\ j # c + 1
  <2>1. c \in 0..(n - 1)
    BY DEF n
  <2> QED
    BY <1>1, <2>1
<1>3. \A j \in 1..c : e(j) # e(c + 1)
  <2> SUFFICES ASSUME NEW j \in 1..c, e(j) = e(c + 1) PROVE FALSE
    OBVIOUS
  <2>1. Names(o)[j] \in Seq(Nat) /\ Names(o)[c + 1] \in Seq(Nat)
    BY <1>1, <1>2
  <2>2. Names(o)[j] = Names(o)[c + 1]
    BY <2>1, EscapeInjective
  <2> QED
    BY <1>1, <1>2, <2>2
<1>4. /\ DOMAIN w = DOMAIN r \cup {e(c + 1)}
      /\ w[e(c + 1)] = NextValue(o, c)
      /\ \A x \in DOMAIN r : x # e(c + 1) => w[x] = r[x]
  BY DEF With, NextName
<1> HIDE DEF w
<1>5. DOMAIN r = {e(j) : j \in 1..c} /\ \A j \in 1..c : r[e(j)] = Object(o)[Names(o)[j]]
  BY DEF ReadSoFar
<1>6. NextValue(o, c) = Object(o)[Names(o)[c + 1]]
  BY DEF NextValue, NextName
<1> HIDE DEF e
<1>7. DOMAIN w = {e(j) : j \in 1..(c + 1)}
  BY <1>2, <1>4, <1>5
<1>8. ASSUME NEW j \in 1..(c + 1) PROVE w[e(j)] = Object(o)[Names(o)[j]]
  <2>1. CASE j = c + 1
    BY <1>4, <1>6, <2>1
  <2>2. CASE j \in 1..c
    <3>1. e(j) \in DOMAIN r /\ e(j) # e(c + 1)
      BY <1>3, <1>5, <2>2
    <3> QED
      BY <1>4, <1>5, <2>2, <3>1
  <2> QED
    BY <1>2, <2>1, <2>2
<1> QED
  BY <1>7, <1>8 DEF ReadSoFar, e, w

\* When the value of the next field is added, the reader is in front of the field behind it.
LEMMA ReadingAdds ==
    ASSUME IsObject(signed), NEW at, Reading(at), object_key_count # Number(signed),
           NEW next, AfterComma(next) = Start(at, object_key_count + 1, signed),
           Adds(escape_json_string(NextName(signed, object_key_count)),
                NextValue(signed, object_key_count), next)
    PROVE  Reading(at)'
<1>1. /\ result' = With(result, escape_json_string(NextName(signed, object_key_count)),
                        NextValue(signed, object_key_count))
      /\ pos' = Start(at, object_key_count + 1, signed)
      /\ object_key_count' = object_key_count + 1
      /\ pc' = "object" /\ content' = content /\ signed' = signed
  BY DEF Adds
<1>2. Number(signed) \in Nat /\ object_key_count \in 0..Number(signed)
  BY SignedObject DEF Reading
<1>3. object_key_count \in 0..(Number(signed) - 1) /\ object_key_count + 1 \in 0..Number(signed)
  <2> DEFINE n == Number(signed)
             c == object_key_count
  <2>1. n \in Nat /\ c \in 0..n /\ c # n
    BY <1>2
  <2> HIDE DEF n, c
  <2>2. c \in 0..(n - 1) /\ c + 1 \in 0..n
    BY <2>1
  <2> QED
    BY <2>2 DEF n, c
<1>4. ReadSoFar(result', signed, object_key_count + 1)
  BY <1>1, <1>3, ReadSoFarAdds DEF Reading
<1>5. Layout(at, content, signed)'
  BY <1>1 DEF Reading
<1>6. Start(at, object_key_count + 1, signed) = Start(at, object_key_count, signed)'
  BY <1>1 DEF Start, End
<1>7. ReadSoFar(result, signed, object_key_count)'
  BY <1>1, <1>4
<1>8. (object_key_count \in 0..Number(signed))'
  BY <1>1, <1>3
<1>9. (pos = Start(at, object_key_count, signed))'
  BY <1>1, <1>6
<1>10. pc' # "array" /\ pc' # "done" /\ pc' # "thrown"
  BY <1>1
<1> QED
  BY <1>5, <1>7, <1>8, <1>9, <1>10 DEF Reading

\* A string that was written is read as it was.
LEMMA StringReads ==
    ASSUME content \in Seq(Nat), NEW s \in Seq(Nat), Fits(s), NEW w, Stands(content, w, Quoted(s)),
           NEW name
    PROVE  /\ content[w] = Quote
           /\ StringValue(name, w) => Adds(name, <<"string", s>>, w + Len(Quoted(s)))
<1> DEFINE end == ClosingQuote(w + 1)
           raw == SubSeq(content, w + 1, end - 1)
           l == Len(Quoted(s))
<1>1. /\ content[w] = Quote /\ end \in Nat /\ end < End
      /\ raw = escape_json_string(s) /\ w + l = end + 1
  BY QuotedReads
<1>2. unescape_json_string(raw) = s
  BY <1>1, UnescapeOfEscaped
<1>3. end # End /\ ~(Len(raw) > MaxString)
  <2>1. end # End
    BY <1>1, TextEnd
  <2>2. Len(escape_json_string(s)) \in Nat /\ Len(escape_json_string(s)) <= MaxString
    BY EscapeType, LenProperties DEF Fits
  <2>3. ~(Len(escape_json_string(s)) > MaxString)
    BY <2>2, LimitsAssumption
  <2> QED
    BY <1>1, <2>1, <2>3
<1>4. StringValue(name, w) => Adds(name, <<"string", unescape_json_string(raw)>>, end + 1)
  BY <1>3 DEF StringValue
<1> HIDE DEF end, raw, l
<1>5. StringValue(name, w) => Adds(name, <<"string", s>>, w + l)
  BY <1>1, <1>2, <1>4
<1> QED
  BY <1>1, <1>5 DEF l

\* So is a truth value.
LEMMA WordValue ==
    ASSUME content \in Seq(Nat), NEW b \in BOOLEAN, NEW w, NEW name,
           Stands(content, w, IF b THEN WordTrue ELSE WordFalse),
           w + 1 < End, content[w + 1] = Comma \/ (content[w + 1] = Newline /\ (w + 1) + 1 = End)
    PROVE  /\ content[w] \notin {Quote, OpenBracket}
           /\ BareValue(name, w) =>
                 \E next : Adds(name, <<"bool", b>>, next) /\ AfterComma(next) = AfterComma(w + 1)
<1> DEFINE x == IF b THEN 84 ELSE 70
           last == WordEnd(w)
           word == Word(w)
<1>1. x \in {84, 70} /\ Stands(content, w, <<x>>) /\ x \in Nat
  BY DEF WordTrue, WordFalse
<1>2. content[w] = x /\ x \notin {Quote, OpenBracket}
  <2>1. content[w] = x
    <3> HIDE DEF x
    <3> QED
      BY <1>1, StandsChars
  <2> QED
    BY <2>1 DEF Quote, OpenBracket
<1>3. last \in 1..End /\ word = <<x>> /\ AfterComma(last) = AfterComma(w + 1)
  <2> HIDE DEF x
  <2> QED
    BY <1>1, WordReads
<1> HIDE DEF last
<1>4. word \in {WordTrue, WordFalse} /\ (word = WordTrue) = b /\ Len(word) = 1
  <2>1. WordTrue # WordFalse
    BY DEF WordTrue, WordFalse
  <2>2. word = IF b THEN WordTrue ELSE WordFalse
    BY <1>3 DEF WordTrue, WordFalse
  <2>3. Len(word) = 1
    <3> HIDE DEF word
    <3> QED
      BY <1>3
  <2> HIDE DEF word
  <2> QED
    BY <2>1, <2>2, <2>3
<1> HIDE DEF word
<1>5. ~(Len(word) > MaxString)
  BY <1>4, LimitsAssumption
<1>6. BareValue(name, w) => Adds(name, <<"bool", word = WordTrue>>, last)
  BY <1>4, <1>5 DEF BareValue, word, last, Word, WordEnd
<1>7. BareValue(name, w) => Adds(name, <<"bool", b>>, last)
  BY <1>4, <1>6
<1> QED
  BY <1>2, <1>3, <1>7

\* What the next field is: its place, its value, and where the reader finds them.
LEMMA NextField ==
    ASSUME content \in Seq(Nat), IsObject(signed), FitsLimits(signed),
           NEW at, Layout(at, content, signed),
           NEW c \in 0..Number(signed), c # Number(signed)
    PROVE  \E p :
             LET name == NextName(signed, c)
                 v == NextValue(signed, c)
                 close == ClosingQuote(p + 3)
                 end == NextEnd(at, signed, c)
             IN  /\ Start(at, c, signed) = p - 1 /\ p - 1 \in 1..End /\ p - 1 < End
                 /\ skip_whitespace(p - 1) = p + 2 /\ At(p + 2, Quote) /\ (p + 2) + 1 = p + 3
                 /\ SubSeq(content, p + 3, close - 1) = escape_json_string(name)
                 /\ close # End /\ At(skip_whitespace(close + 1), Colon)
                 /\ skip_whitespace(skip_whitespace(close + 1) + 1) = close + 3
                 /\ close + 3 # End
                 /\ Stands(content, close + 3, TextOf(v)) /\ end = close + 3 + Len(TextOf(v))
                 /\ close + 3 \in 1..End /\ end \in Nat
                 /\ name \in Strings /\ IsValue(v)
                 /\ PlainNames(signed) => escape_json_string(name) = name
                 /\ v[1] = "string" => Fits(v[2])
                 /\ v[1] = "array" => \A i \in DOMAIN v[2] : Fits(v[2][i])
                 /\ end < End /\ AfterComma(end) = Start(at, c + 1, signed)
                 /\ content[end] = Comma \/ (content[end] = Newline /\ end + 1 = End)
<1> DEFINE o == signed
           name == NextName(o, c)
           v == NextValue(o, c)
           p == at[c + 1]
           end == p + Len(FieldText(name, v))
           close == ClosingQuote(p + 3)
<1>1. Number(o) \in Nat \ {0} /\ c \in 0..(Number(o) - 1)
  <2>1. Number(o) \in Nat \ {0}
    BY SignedObject
  <2> DEFINE n == Number(o)
  <2>2. n \in Nat \ {0} /\ c \in 0..n /\ c # n
    BY <2>1
  <2> HIDE DEF n
  <2> QED
    BY <2>2 DEF n
<1>2. name = Names(o)[c + 1] /\ v = Object(o)[name] /\ end = NextEnd(at, o, c)
  BY DEF NextName, NextValue, NextEnd
<1>3. IsObject(o) /\ Layout(at, content, o)
  OBVIOUS
<1> HIDE DEF name, v, end
<1>4. /\ FieldReads(p, name, v, close, end)
      /\ name \in DOMAIN Object(o) /\ name \in Strings /\ IsValue(v)
      /\ Start(at, c, o) = p - 1 /\ p - 1 \in 1..End /\ p + 2 < End
      /\ skip_whitespace(p - 1) = p + 2
      /\ end < End /\ AfterComma(end) = Start(at, c + 1, o)
      /\ content[end] = Comma \/ (content[end] = Newline /\ end + 1 = End)
  <2> DEFINE l == Len(FieldText(name, v))
  <2>1. end = p + Len(FieldText(name, v))
    BY DEF end
  <2> HIDE DEF p, o
  <2>2. p = at[c + 1]
    BY DEF p
  <2> QED
    BY <1>1, <1>2, <1>3, <2>1, <2>2, AtField
<1>5. /\ PlainNames(o) => escape_json_string(name) = name
      /\ v[1] = "string" => Fits(v[2])
      /\ v[1] = "array" => \A i \in DOMAIN v[2] : Fits(v[2][i])
  BY <1>2, <1>4, SignedFits
<1>6. /\ p \in Nat \ {0} /\ close \in Nat /\ end \in Nat /\ p + 3 <= close /\ close + 3 < end /\ end <= End
      /\ content[p + 2] = Quote
      /\ SubSeq(content, p + 3, close - 1) = escape_json_string(name)
      /\ content[close + 1] = Colon /\ content[close + 2] = Space
      /\ content[close + 3] \notin Blanks
      /\ Stands(content, close + 3, TextOf(v))
      /\ end = close + 3 + Len(TextOf(v))
  BY <1>4 DEF FieldReads
<1>7. End \in Nat
  BY TextEnd
<1> HIDE DEF p, close, o
<1>8. /\ p - 1 < End /\ (p + 2) + 1 = p + 3 /\ close # End /\ close + 3 # End
      /\ close + 1 \in 1..End /\ close + 1 < End /\ close + 2 \in 1..End /\ close + 2 < End
      /\ close + 3 \in 1..End /\ close + 3 < End
      /\ (close + 1) + 1 = close + 2 /\ (close + 2) + 1 = close + 3
  <2>1. \A a, b, d, e \in Nat : a # 0 /\ a + 3 <= b /\ b + 3 < d /\ d <= e =>
          /\ a - 1 < e /\ (a + 2) + 1 = a + 3 /\ b # e /\ b + 3 # e
          /\ b + 1 \in 1..e /\ b + 1 < e /\ b + 2 \in 1..e /\ b + 2 < e
          /\ b + 3 \in 1..e /\ b + 3 < e
          /\ (b + 1) + 1 = b + 2 /\ (b + 2) + 1 = b + 3
    OBVIOUS
  <2>2. p \in Nat /\ p # 0
    BY <1>6
  <2> QED
    BY <1>6, <1>7, <2>1, <2>2
<1>9. skip_whitespace(close + 1) = close + 1
  <2>1. Colon \notin Blanks
    BY DEF Colon, Blanks, Space
  <2> QED
    BY <1>6, <1>8, <2>1, SkipWhitespace
<1>10. skip_whitespace((close + 1) + 1) = close + 3
  <2>1. Space \in Blanks
    BY DEF Blanks
  <2>2. skip_whitespace(close + 2) = skip_whitespace((close + 2) + 1)
    BY <1>6, <1>8, <2>1, SkipWhitespace
  <2>3. skip_whitespace(close + 3) = close + 3
    BY <1>6, <1>8, SkipWhitespace
  <2> QED
    BY <1>8, <2>2, <2>3
<1>11. At(p + 2, Quote) /\ At(close + 1, Colon)
  BY <1>4, <1>6, <1>8 DEF At
<1> QED
  <2>1. SubSeq(content, p + 3, ClosingQuote(p + 3) - 1) = escape_json_string(name)
    BY <1>6 DEF close
  <2> WITNESS p
  <2> QED
    BY <1>2, <1>4, <1>5, <1>6, <1>8, <1>9, <1>10, <1>11, <2>1 DEF close, name, v, o

\* In the loop over the fields the reader is in front of the next one, or at the end.
LEMMA AtNextField ==
    ASSUME content \in Seq(Nat), IsObject(signed), NEW at, Reading(at), pc = "object"
    PROVE  /\ object_key_count \in 0..Number(signed)
           /\ pos < End => object_key_count # Number(signed)
           /\ pos = Start(at, object_key_count, signed)
<1>1. object_key_count \in 0..Number(signed) /\ pos = Start(at, object_key_count, signed)
  BY DEF Reading
<1>2. object_key_count = Number(signed) => pos = End
  BY <1>1 DEF Start
<1> QED
  BY <1>1, <1>2, TextEnd

IsNext(at, name, v, e, end) ==
    /\ name = NextName(signed, object_key_count)
    /\ v = NextValue(signed, object_key_count)
    /\ e = escape_json_string(name)
    /\ end = NextEnd(at, signed, object_key_count)

\* So is a value of any type, or an array is begun.
LEMMA ReadingValue ==
    ASSUME content \in Seq(Nat), IsObject(signed), NEW at, Reading(at), object_key_count # Number(signed),
           NEW name, NEW v, NEW e, NEW end, IsNext(at, name, v, e, end),
           NEW w \in 1..End, Stands(content, w, TextOf(v)), end = w + Len(TextOf(v)),
           IsValue(v), v[1] = "string" => Fits(v[2]),
           end < End, AfterComma(end) = Start(at, object_key_count + 1, signed),
           content[end] = Comma \/ (content[end] = Newline /\ end + 1 = End),
           \/ content[w] = Quote       /\ StringValue(e, w)
           \/ content[w] = OpenBracket /\ ArrayValue(e, w)
           \/ content[w] \notin {Quote, OpenBracket} /\ BareValue(e, w)
    PROVE  Reading(at)'
<1>1. ASSUME NEW next, Adds(e, v, next), AfterComma(next) = AfterComma(end) PROVE Reading(at)'
  <2>1. AfterComma(next) = Start(at, object_key_count + 1, signed)
    BY <1>1
  <2>2. Adds(escape_json_string(NextName(signed, object_key_count)),
             NextValue(signed, object_key_count), next)
    BY <1>1 DEF IsNext
  <2> QED
    BY <2>1, <2>2, ReadingAdds
<1>2. CASE v[1] = "string"
  <2> DEFINE s == v[2]
  <2>1. s \in Strings /\ v = <<"string", s>> /\ TextOf(v) = Quoted(s) /\ Fits(s)
    BY <1>2, TextOfHead
  <2>2. s \in Seq(Nat) /\ Stands(content, w, Quoted(s)) /\ end = w + Len(Quoted(s))
    BY <2>1 DEF Strings
  <2> HIDE DEF s
  <2>3. content[w] = Quote /\ (StringValue(e, w) => Adds(e, <<"string", s>>, w + Len(Quoted(s))))
    BY <2>1, <2>2, StringReads
  <2>4. Quote # OpenBracket
    BY DEF Quote, OpenBracket
  <2>5. Adds(e, v, end)
    BY <2>1, <2>2, <2>3, <2>4
  <2> QED
    BY <1>1, <2>5
<1>3. CASE v[1] = "bool"
  <2> DEFINE b == v[2]
  <2>1. b \in BOOLEAN /\ v = <<"bool", b>> /\ TextOf(v) = IF b THEN WordTrue ELSE WordFalse
    BY <1>3, TextOfHead
  <2>2. Len(TextOf(v)) = 1
    BY <2>1 DEF WordTrue, WordFalse
  <2>3. end = w + 1 /\ Stands(content, w, IF b THEN WordTrue ELSE WordFalse)
    BY <2>1, <2>2
  <2> HIDE DEF b
  <2>4. w + 1 < End /\ (content[w + 1] = Comma \/ (content[w + 1] = Newline /\ (w + 1) + 1 = End))
    BY <2>3
  <2>5. content[w] \notin {Quote, OpenBracket}
    BY <2>1, <2>3, <2>4, WordValue
  <2>6. BareValue(e, w) =>
           \E next : Adds(e, <<"bool", b>>, next) /\ AfterComma(next) = AfterComma(w + 1)
    BY <2>1, <2>3, <2>4, WordValue
  <2>7. BareValue(e, w)
    BY <2>5
  <2>8. PICK next : Adds(e, v, next) /\ AfterComma(next) = AfterComma(end)
    BY <2>1, <2>3, <2>6, <2>7
  <2> QED
    BY <1>1, <2>8
<1>4. CASE v[1] = "array"
  <2> DEFINE ss == v[2]
  <2>1. ss \in Seq(Strings) /\ TextOf(v) = ArrayText(ss)
    BY <1>4, TextOfHead DEF ArrayText, Quotes
  <2> HIDE DEF ss
  <2>2. Stands(content, w, ArrayText(ss)) /\ end = w + Len(ArrayText(ss))
    BY <2>1
  <2>3. content[w] = OpenBracket /\ \E el : ElementsStand(el, w + 1, ss, end - 1)
    BY <2>1, <2>2, ArrayStands
  <2>4. PICK el, first, last : first = w + 1 /\ last = end - 1 /\ ElementsStand(el, first, ss, last)
    BY <2>3
  <2>5. Quote # OpenBracket
    BY DEF Quote, OpenBracket
  <2>6. ArrayValue(e, w)
    BY <2>3, <2>5
  <2>7. key' = e /\ array_values' = <<>> /\ pos' = first /\ pc' = "array"
        /\ UNCHANGED <<content, object_key_count, result, signed>>
    BY <2>4, <2>6 DEF ArrayValue
  <2>8. ElementPlace(el, ss, 0, last, first)
    <3> DEFINE n == Len(ss)
               qq == Quotes(ss)
    <3>1. n \in Nat /\ Len(qq) = n
      BY <2>1, QuotesType
    <3>2. Places(el, content, first, qq, <<Comma, Space>>, last)
      BY <2>4 DEF ElementsStand
    <3> HIDE DEF n, qq
    <3>3. n = 0 => first = last
      BY <3>1, <3>2 DEF Places
    <3>4. n # 0 => el[1] = first
      BY <3>1, <3>2 DEF Places
    <3>5. 0 + 1 = 1
      OBVIOUS
    <3> QED
      BY <3>1, <3>3, <3>4, <3>5 DEF ElementPlace, n
  <2>9. ReadingArray(at, el, first)'
    <3>1. ElementsStand(el, first, ss, last)'
      BY <2>4, <2>7 DEF ElementsStand, End
    <3>2. ElementPlace(el, ss, 0, last, first)'
      BY <2>7, <2>8 DEF ElementPlace
    <3>3. /\ NextValue(signed, object_key_count)' = v
          /\ NextName(signed, object_key_count)' = name
          /\ NextEnd(at, signed, object_key_count)' - 1 = last
          /\ e = escape_json_string(name)
      BY <2>4, <2>7 DEF IsNext
    <3>4. Len(array_values') = 0 /\ 1..Len(array_values') = {} /\ 0 <= Len(ss)
      BY <2>1, <2>7, LenProperties
    <3>5. ElementPlace(el, ss, Len(array_values), last, pos)'
      BY <2>7, <2>8, <3>4 DEF ElementPlace
    <3>6. \A j \in 1..Len(array_values') : array_values'[j] = v[2][j]
      BY <3>4
    <3>7. ss = v[2] /\ Len(array_values') <= Len(v[2])
      BY <3>4 DEF ss
    <3> QED
      BY <1>4, <2>7, <3>1, <3>3, <3>5, <3>6, <3>7 DEF ReadingArray
  <2>10. /\ Layout(at, content, signed)' /\ (object_key_count \in 0..Number(signed))'
         /\ ReadSoFar(result, signed, object_key_count)' /\ (object_key_count # Number(signed))'
    BY <2>7 DEF Reading
  <2>11. pc' # "object" /\ pc' # "done" /\ pc' # "thrown"
    BY <2>7
  <2> QED
    BY <2>9, <2>10, <2>11 DEF Reading
<1>5. v[1] \in {"string", "bool", "array"}
  BY TextOfHead
<1> QED
  BY <1>2, <1>3, <1>4, <1>5

\* A step that reads a field reads the next one as it was written.
LEMMA ReadingField ==
    ASSUME content \in Seq(Nat), IsObject(signed), FitsLimits(signed), NEW at, Reading(at), Field
    PROVE  Reading(at)'
<1> DEFINE c == object_key_count
<1>1. pc = "object" /\ pos < End /\ c # Number(signed) /\ c \in 0..Number(signed)
      /\ pos = Start(at, c, signed) /\ Layout(at, content, signed)
  BY AtNextField DEF Field, InObject, Reading
<1>2. PICK name, v, e, end : IsNext(at, name, v, e, end)
  BY DEF IsNext
<1>3. PICK p :
             /\ Start(at, c, signed) = p - 1 /\ p - 1 \in 1..End /\ p - 1 < End
             /\ skip_whitespace(p - 1) = p + 2 /\ At(p + 2, Quote) /\ (p + 2) + 1 = p + 3
             /\ SubSeq(content, p + 3, ClosingQuote(p + 3) - 1) = e
             /\ ClosingQuote(p + 3) # End /\ At(skip_whitespace(ClosingQuote(p + 3) + 1), Colon)
             /\ skip_whitespace(skip_whitespace(ClosingQuote(p + 3) + 1) + 1) = ClosingQuote(p + 3) + 3
             /\ ClosingQuote(p + 3) + 3 # End
             /\ Stands(content, ClosingQuote(p + 3) + 3, TextOf(v))
             /\ end = ClosingQuote(p + 3) + 3 + Len(TextOf(v))
             /\ ClosingQuote(p + 3) + 3 \in 1..End /\ end \in Nat
             /\ name \in Strings /\ IsValue(v)
             /\ PlainNames(signed) => e = name
             /\ v[1] = "string" => Fits(v[2])
             /\ end < End /\ AfterComma(end) = Start(at, c + 1, signed)
             /\ content[end] = Comma \/ (content[end] = Newline /\ end + 1 = End)
  <2>1. /\ name = NextName(signed, c) /\ v = NextValue(signed, c)
        /\ e = escape_json_string(name) /\ end = NextEnd(at, signed, c)
    BY <1>2 DEF IsNext
  <2> HIDE DEF c
  <2> QED
    BY <1>1, <2>1, NextField
<1>4. PICK close, w : close = ClosingQuote(p + 3) /\ w = close + 3
  OBVIOUS
<1>5. IF Len(e) > MaxString THEN Throws
      ELSE \/ content[w] = Quote       /\ StringValue(e, w)
           \/ content[w] = OpenBracket /\ ArrayValue(e, w)
           \/ content[w] \notin {Quote, OpenBracket} /\ BareValue(e, w)
  <2>1. skip_whitespace(pos) = p + 2 /\ skip_whitespace(pos) + 1 = p + 3
    BY <1>1, <1>3
  <2>2. close # End /\ SubSeq(content, p + 3, close - 1) = e /\ At(skip_whitespace(close + 1), Colon)
        /\ skip_whitespace(skip_whitespace(close + 1) + 1) = w /\ w # End
    BY <1>3, <1>4
  <2> QED
    BY <1>4, <2>1, <2>2 DEF Field
\* Only a name that grew by its escapes is refused.
<1>6. CASE Len(e) > MaxString
  <2>1. ~PlainNames(signed)
    <3> SUFFICES ASSUME PlainNames(signed) PROVE FALSE
      OBVIOUS
    <3>1. e = name /\ name \in Strings
      BY <1>3
    <3>2. Len(name) \in Nat /\ Len(name) <= MaxString
      BY <3>1, LenProperties DEF Strings
    <3> QED
      BY <1>6, <3>1, <3>2, LimitsAssumption
  <2>2. pc' = "thrown" /\ UNCHANGED <<content, object_key_count, result, signed>>
    BY <1>5, <1>6 DEF Throws
  <2>3. /\ Layout(at, content, signed)' /\ (object_key_count \in 0..Number(signed))'
        /\ ReadSoFar(result, signed, object_key_count)' /\ (~PlainNames(signed))'
    BY <2>1, <2>2 DEF Reading
  <2> QED
    BY <2>2, <2>3 DEF Reading
<1>7. CASE ~(Len(e) > MaxString)
  <2>1. \/ content[w] = Quote       /\ StringValue(e, w)
        \/ content[w] = OpenBracket /\ ArrayValue(e, w)
        \/ content[w] \notin {Quote, OpenBracket} /\ BareValue(e, w)
    BY <1>5, <1>7
  <2>2. /\ w \in 1..End /\ Stands(content, w, TextOf(v)) /\ end = w + Len(TextOf(v))
        /\ IsValue(v) /\ (v[1] = "string" => Fits(v[2]))
        /\ end < End /\ AfterComma(end) = Start(at, object_key_count + 1, signed)
        /\ (content[end] = Comma \/ (content[end] = Newline /\ end + 1 = End))
        /\ object_key_count # Number(signed)
    BY <1>1, <1>3, <1>4
  <2> QED
    BY <1>2, <2>1, <2>2, ReadingValue
<1> QED
  BY <1>6, <1>7

\* In the loop over the elements the reader is in front of the next one, or at the
\* bracket that closes the array.
LEMMA AtNextElement ==
    ASSUME TypeOK, IsObject(signed), FitsLimits(signed), NEW at, Reading(at), pc = "array"
    PROVE  \E el, first, ss, name, v, e, end, last :
              /\ IsNext(at, name, v, e, end) /\ v = <<"array", ss>> /\ v[1] = "array" /\ v[2] = ss
              /\ ReadingArray(at, el, first) /\ key = e
              /\ ss \in Seq(Strings) /\ Len(array_values) \in 0..Len(ss)
              /\ \A j \in 1..Len(array_values) : array_values[j] = ss[j]
              /\ \A j \in DOMAIN ss : Fits(ss[j])
              /\ ElementsStand(el, first, ss, last)
              /\ ElementPlace(el, ss, Len(array_values), last, pos)
              /\ last = end - 1 /\ end \in Nat /\ end < End
              /\ AfterComma(end) = Start(at, object_key_count + 1, signed)
              /\ object_key_count # Number(signed)
<1>1. /\ Layout(at, content, signed) /\ object_key_count \in 0..Number(signed)
      /\ object_key_count # Number(signed)
  BY DEF Reading
<1>2. PICK el, first : ReadingArray(at, el, first)
  BY DEF Reading
<1>3. PICK name, v, e, end : IsNext(at, name, v, e, end)
  BY DEF IsNext
<1>4. /\ IsValue(v)
      /\ v[1] = "array" => \A i \in DOMAIN v[2] : Fits(v[2][i])
      /\ end \in Nat /\ end < End
      /\ AfterComma(end) = Start(at, object_key_count + 1, signed)
  <2> DEFINE c == object_key_count
  <2>1. v = NextValue(signed, c) /\ end = NextEnd(at, signed, c)
    BY <1>3 DEF IsNext
  <2>2. c \in 0..Number(signed) /\ c # Number(signed) /\ content \in Seq(Nat)
    BY <1>1 DEF TypeOK
  <2> HIDE DEF c
  <2> QED
    BY <1>1, <2>1, <2>2, NextField DEF c
<1>5. /\ v[1] = "array" /\ key = e /\ Len(array_values) <= Len(v[2])
      /\ \A j \in 1..Len(array_values) : array_values[j] = v[2][j]
      /\ ElementsStand(el, first, v[2], end - 1)
      /\ ElementPlace(el, v[2], Len(array_values), end - 1, pos)
  BY <1>2, <1>3 DEF ReadingArray, IsNext
<1>6. PICK ss, last : ss = v[2] /\ last = end - 1
  OBVIOUS
<1>7. ss \in Seq(Strings) /\ v = <<"array", ss>>
  BY <1>4, <1>5, <1>6, TextOfHead
<1>8. Len(array_values) \in 0..Len(ss)
  <2>1. Len(array_values) \in Nat /\ Len(ss) \in Nat
    BY <1>7, LenProperties DEF TypeOK
  <2> QED
    BY <1>5, <1>6, <2>1
<1>9. \A j \in DOMAIN ss : Fits(ss[j])
  BY <1>4, <1>5, <1>6
<1>10. /\ \A j \in 1..Len(array_values) : array_values[j] = ss[j]
       /\ ElementsStand(el, first, ss, last)
       /\ ElementPlace(el, ss, Len(array_values), last, pos)
  BY <1>5, <1>6
<1> QED
  BY <1>1, <1>2, <1>3, <1>4, <1>5, <1>6, <1>7, <1>8, <1>9, <1>10

\* A step that reads an element reads the next one as it was written.
LEMMA ReadingElement ==
    ASSUME TypeOK, IsObject(signed), FitsLimits(signed), NEW at, Reading(at), Element
    PROVE  Reading(at)'
<1>1. pc = "array" /\ content[pos] # CloseBracket
  BY DEF Element, InArray
<1>2. PICK el, first, ss, name, v, e, end, last :
              /\ IsNext(at, name, v, e, end) /\ v = <<"array", ss>> /\ v[1] = "array" /\ v[2] = ss
              /\ ReadingArray(at, el, first) /\ key = e
              /\ ss \in Seq(Strings) /\ Len(array_values) \in 0..Len(ss)
              /\ \A j \in 1..Len(array_values) : array_values[j] = ss[j]
              /\ \A j \in DOMAIN ss : Fits(ss[j])
              /\ ElementsStand(el, first, ss, last)
              /\ ElementPlace(el, ss, Len(array_values), last, pos)
              /\ last = end - 1 /\ end \in Nat /\ end < End
              /\ AfterComma(end) = Start(at, object_key_count + 1, signed)
              /\ object_key_count # Number(signed)
  BY <1>1, AtNextElement
<1>3. PICK j : j = Len(array_values)
  OBVIOUS
<1>4. content \in Seq(Nat) /\ pos \in 1..End /\ array_values \in Seq(Strings) /\ j \in 0..Len(ss)
      /\ ElementPlace(el, ss, j, last, pos) /\ ElementsStand(el, first, ss, last) /\ ss \in Seq(Strings)
  BY <1>2, <1>3 DEF TypeOK
<1>5. j # Len(ss)
  BY <1>1, <1>4, AtElement
<1>6. PICK start, close : start = skip_whitespace(pos) /\ close = ClosingQuote(start + 1)
  OBVIOUS
<1>7. /\ At(start, Quote) /\ close # End
      /\ SubSeq(content, start + 1, close - 1) = escape_json_string(ss[j + 1])
      /\ ElementPlace(el, ss, j + 1, last, AfterComma(close + 1))
  BY <1>4, <1>5, <1>6, AtElement
<1>8. Len(ss) \in Nat /\ DOMAIN ss = 1..Len(ss) /\ j + 1 \in DOMAIN ss /\ j \in Nat /\ j + 1 <= Len(ss)
  <2>1. Len(ss) \in Nat /\ DOMAIN ss = 1..Len(ss)
    BY <1>4, LenProperties
  <2> DEFINE n == Len(ss)
  <2>2. n \in Nat /\ j \in 0..n /\ j # n
    BY <1>4, <1>5, <2>1
  <2> HIDE DEF n
  <2>3. j + 1 \in 1..n /\ j \in Nat /\ j + 1 <= n
    BY <2>2
  <2> QED
    BY <2>1, <2>3 DEF n
<1>9. ss[j + 1] \in Strings /\ ss[j + 1] \in Seq(Nat)
  BY <1>4, <1>8, ElementOfSeq DEF Strings
<1>10. ~(Len(escape_json_string(ss[j + 1])) > MaxString)
  <2>1. Len(escape_json_string(ss[j + 1])) \in Nat
    BY <1>9, EscapeType, LenProperties
  <2>2. Len(escape_json_string(ss[j + 1])) <= MaxString
    BY <1>2, <1>8 DEF Fits
  <2> QED
    BY <2>1, <2>2, LimitsAssumption
<1>11. /\ array_values' = Append(array_values, ss[j + 1])
       /\ pos' = AfterComma(close + 1)
       /\ UNCHANGED <<content, object_key_count, result, key, pc, signed>>
  <2>1. unescape_json_string(SubSeq(content, start + 1, close - 1)) = ss[j + 1]
    BY <1>7, <1>9, UnescapeOfEscaped
  <2> QED
    BY <1>6, <1>7, <1>10, <2>1 DEF Element
<1>12. Len(array_values') = j + 1 /\ \A i \in 1..(j + 1) : array_values'[i] = ss[i]
  <2> DEFINE a == Append(array_values, ss[j + 1])
  <2>1. /\ Len(a) = j + 1 /\ a[j + 1] = ss[j + 1] /\ \A i \in 1..j : a[i] = array_values[i]
    BY <1>3, <1>4, <1>8, <1>9, AppendProperties
  <2> HIDE DEF a
  <2>2. \A i \in 1..(j + 1) : i = j + 1 \/ i \in 1..j
    BY <1>8
  <2>3. \A i \in 1..(j + 1) : a[i] = ss[i]
    BY <1>2, <1>3, <2>1, <2>2
  <2> QED
    BY <1>11, <2>1, <2>3 DEF a
<1>13. PICK q, i : q = j + 1 /\ i = AfterComma(close + 1)
  OBVIOUS
<1>14. ReadingArray(at, el, first)'
  <2>1. ElementsStand(el, first, ss, last)'
    BY <1>2, <1>11 DEF ElementsStand, End
  <2>2. /\ NextValue(signed, object_key_count)' = v
        /\ NextName(signed, object_key_count)' = name
        /\ NextEnd(at, signed, object_key_count)' - 1 = last
        /\ e = escape_json_string(name)
    BY <1>2, <1>11 DEF IsNext
  <2>3. ElementPlace(el, ss, q, last, i)'
    BY <1>7, <1>11, <1>13 DEF ElementPlace
  <2>4. ElementPlace(el, ss, Len(array_values), last, pos)'
    BY <1>11, <1>12, <1>13, <2>3 DEF ElementPlace
  <2>5. key' = e
    BY <1>2, <1>11
  <2> QED
    BY <1>2, <1>8, <1>12, <2>1, <2>2, <2>4, <2>5 DEF ReadingArray
<1>15. /\ Layout(at, content, signed)' /\ (object_key_count \in 0..Number(signed))'
       /\ ReadSoFar(result, signed, object_key_count)' /\ (object_key_count # Number(signed))'
  BY <1>2, <1>11 DEF Reading
<1>16. pc' = "array"
  BY <1>1, <1>11
<1> QED
  BY <1>14, <1>15, <1>16 DEF Reading

\* The array that ends is the one that was written.
LEMMA ReadingEndOfArray ==
    ASSUME TypeOK, IsObject(signed), FitsLimits(signed), NEW at, Reading(at), EndOfArray
    PROVE  Reading(at)'
<1>1. pc = "array" /\ (pos < End => content[pos] = CloseBracket)
  BY DEF EndOfArray
<1>2. PICK el, first, ss, name, v, e, end, last :
              /\ IsNext(at, name, v, e, end) /\ v = <<"array", ss>>
              /\ key = e
              /\ ss \in Seq(Strings) /\ Len(array_values) \in 0..Len(ss)
              /\ \A j \in 1..Len(array_values) : array_values[j] = ss[j]
              /\ ElementsStand(el, first, ss, last)
              /\ ElementPlace(el, ss, Len(array_values), last, pos)
              /\ last = end - 1 /\ end \in Nat /\ end < End
              /\ AfterComma(end) = Start(at, object_key_count + 1, signed)
              /\ object_key_count # Number(signed)
  BY <1>1, AtNextElement
<1>3. PICK j : j = Len(array_values)
  OBVIOUS
<1>4. content \in Seq(Nat) /\ pos \in 1..End /\ array_values \in Seq(Strings) /\ j \in 0..Len(ss)
      /\ ElementPlace(el, ss, j, last, pos) /\ ElementsStand(el, first, ss, last) /\ ss \in Seq(Strings)
  BY <1>2, <1>3 DEF TypeOK
<1>5. pos < End
  BY <1>4, AtElement
<1>6. j = Len(ss)
  BY <1>1, <1>4, <1>5, AtElement
<1>7. array_values = ss
  BY <1>2, <1>3, <1>4, <1>6, SeqEqual
<1>8. pos = end - 1
  BY <1>2, <1>4, <1>6 DEF ElementPlace
<1>9. Min({pos + 1, End}) = end
  <2>1. pos + 1 = end /\ end < End /\ end \in Nat /\ End \in Nat
    BY <1>2, <1>4, <1>8, TextEnd
  <2> DEFINE T == {pos + 1, End}
             m == Min(T)
  <2>2. T \subseteq Nat /\ T # {} /\ \A y \in T : y = end \/ y = End
    BY <2>1
  <2>3. end \in T
    BY <2>1
  <2> HIDE DEF T
  <2>4. m \in T /\ m <= end
    BY <2>2, <2>3, MinOf
  <2> HIDE DEF m
  <2>5. m = end
    BY <2>1, <2>2, <2>4
  <2> QED
    BY <2>5 DEF m, T
<1>10. Adds(e, v, end)
  BY <1>2, <1>7, <1>9 DEF EndOfArray
<1>11. Adds(escape_json_string(NextName(signed, object_key_count)),
            NextValue(signed, object_key_count), end)
  BY <1>2, <1>10 DEF IsNext
<1> QED
  BY <1>2, <1>11, ReadingAdds

\* An object is a function, so that its names and their values are all there is to it.
IsFunction(o) == o = [x \in DOMAIN o |-> o[x]]

\* An object that gets a field is a function.
LEMMA WithFunction ==
    ASSUME NEW o, NEW k, NEW v
    PROVE  IsFunction(With(o, k, v))
<1> DEFINE w == With(o, k, v)
<1>1. w = [x \in DOMAIN o \cup {k} |-> IF x = k THEN v ELSE o[x]]
  BY DEF With
<1>2. DOMAIN w = DOMAIN o \cup {k} /\ \A x \in DOMAIN o \cup {k} : w[x] = IF x = k THEN v ELSE o[x]
  BY <1>1
<1>3. w = [x \in DOMAIN w |-> w[x]]
  BY <1>1, <1>2
<1> QED
  BY <1>3 DEF IsFunction

\* So is the empty object.
LEMMA EmptyFunction == IsFunction(EmptyObject)
<1> DEFINE e == <<>>
<1>1. e \in Seq({})
  OBVIOUS
<1>2. e \in [1..Len(e) -> {}]
  BY <1>1, LenProperties
<1> HIDE DEF e
<1>3. e = [x \in DOMAIN e |-> e[x]]
  BY <1>2
<1> QED
  BY <1>3 DEF IsFunction, EmptyObject, e

\* What a step of parse does to the objects.
LEMMA ParseResult ==
    ASSUME Parse
    PROVE  signed' = signed /\ content' = content
           /\ (result' = result \/ \E k, v : result' = With(result, k, v))
<1>1. ASSUME Throws PROVE signed' = signed /\ content' = content /\ result' = result
  BY <1>1 DEF Throws
<1>2. ASSUME NEW k, NEW v, NEW next, Adds(k, v, next)
      PROVE  signed' = signed /\ content' = content /\ \E x, y : result' = With(result, x, y)
  BY <1>2 DEF Adds
<1>3. ASSUME NEW name, NEW w, StringValue(name, w)
      PROVE  Throws \/ \E k, v, next : Adds(k, v, next)
  BY <1>3, Zenon DEF StringValue
<1>4. ASSUME NEW name, NEW w, BareValue(name, w)
      PROVE  Throws \/ \E k, v, next : Adds(k, v, next)
  BY <1>4, Zenon DEF BareValue
<1>5. ASSUME NEW name, NEW w, ArrayValue(name, w)
      PROVE  signed' = signed /\ content' = content /\ result' = result
  BY <1>5 DEF ArrayValue
<1>6. CASE Field
  <2>1. \/ Throws
        \/ \E name, w : StringValue(name, w) \/ ArrayValue(name, w) \/ BareValue(name, w)
    BY <1>6, Zenon DEF Field
  <2> QED
    BY <1>1, <1>2, <1>3, <1>4, <1>5, <2>1
<1>7. CASE EndOfArray
  <2>1. \E k, v, next : Adds(k, v, next)
    BY <1>7 DEF EndOfArray
  <2> QED
    BY <1>2, <2>1
<1>8. CASE TooManyKeys \/ TooManyElements
  BY <1>1, <1>8 DEF TooManyKeys, TooManyElements
<1>9. CASE EndOfObject \/ SkipGarbage \/ NoElement
  BY <1>9 DEF EndOfObject, SkipGarbage, NoElement
<1>10. CASE Element
  <2>1. Throws \/ UNCHANGED <<content, object_key_count, result, key, pc, signed>>
    BY <1>10, Zenon DEF Element
  <2> QED
    BY <1>1, <2>1
<1> QED
  BY <1>6, <1>7, <1>8, <1>9, <1>10 DEF Parse

\* The signed text is read field by field: the inductive invariant.
IInv ==
    /\ TypeOK
    /\ IsFunction(result)
    /\ signed # Unsigned => IsFunction(signed)
    /\ signed # Unsigned /\ FitsLimits(signed) => \E at : Reading(at)

\* A text that was just signed is read from its beginning.
LEMMA ReadingSign ==
    ASSUME TypeOK, Sign, FitsLimits(result)
    PROVE  \E at : Reading(at)'
<1>1. /\ signed' = result /\ content' = Completed(result) /\ pos' = 1
      /\ object_key_count' = 0 /\ result' = EmptyObject
      /\ pc' = Opens(Completed(result), SignatureSize) /\ IsObject(result)
  BY DEF Sign, TypeOK
<1>2. PICK at : Layout(at, Completed(result), result)
  BY <1>1, LayoutExists
<1>3. Opens(Completed(result), SignatureSize) = "object"
  BY <1>1, SignedFits
<1>4. Number(result) \in Nat \ {0} /\ Len(Parts(result)) = Number(result)
  BY <1>1, SignedObject
<1>5. Start(at, 0, signed)' = 1
  <2>1. at[1] = 2
    <3> DEFINE ss == Parts(result)
    <3>1. Places(at, Completed(result), 2, ss, <<Comma, Newline>>, Len(Completed(result)))
          /\ Len(ss) # 0
      BY <1>2, <1>4 DEF Layout
    <3> HIDE DEF ss
    <3> QED
      BY <3>1 DEF Places
  <2>2. 0 # Number(result) /\ at[0 + 1] - 1 = 1
    BY <1>4, <2>1
  <2>3. Number(signed)' = Number(result)
    BY <1>1
  <2> QED
    BY <2>2, <2>3 DEF Start
<1>6. ReadSoFar(EmptyObject, result, 0)
  BY DEF ReadSoFar, EmptyObject
<1>7. /\ Layout(at, content, signed)' /\ (object_key_count \in 0..Number(signed))'
      /\ ReadSoFar(result, signed, object_key_count)'
  <2>1. 0 \in 0..Number(result)
    BY <1>4
  <2> QED
    BY <1>1, <1>2, <1>6, <2>1
<1>8. pc' = "object" /\ (pos = Start(at, object_key_count, signed))'
  <2>1. PICK c : c = 0
    OBVIOUS
  <2>2. Start(at, c, signed)' = Start(at, object_key_count, signed)'
    BY <1>1, <2>1 DEF Start
  <2> QED
    BY <1>1, <1>3, <1>5, <2>1, <2>2
<1>9. Reading(at)'
  BY <1>7, <1>8 DEF Reading
<1> QED
  BY <1>9

\* Every step of the second parse reads what was written.
LEMMA ReadingNext ==
    ASSUME TypeOK, signed # Unsigned, FitsLimits(signed), NEW at, Reading(at), [Next]_vars
    PROVE  Reading(at)'
<1>1. content \in Seq(Nat) /\ IsObject(signed) /\ pos \in 1..End /\ End \in Nat \ {0}
      /\ object_key_count \in Nat
  BY TextEnd DEF TypeOK
<1>2. Number(signed) \in Nat /\ Number(signed) <= MaxKeys + 1 /\ MaxKeys \in Nat /\ MaxArray \in Nat
  BY <1>1, SignedObject, SignedFits, LimitsAssumption
\* Before the end another field is left, so that there are not too many, and a quote
\* is next.
<1>3. ASSUME pc = "object", pos < End
      PROVE  ~(object_key_count > MaxKeys) /\ At(skip_whitespace(pos), Quote)
  <2>1. object_key_count \in 0..Number(signed) /\ object_key_count # Number(signed)
        /\ pos = Start(at, object_key_count, signed) /\ Layout(at, content, signed)
    BY <1>1, <1>3, AtNextField DEF Reading
  <2>2. ~(object_key_count > MaxKeys)
    <3> DEFINE c == object_key_count
               n == Number(signed)
    <3>1. c \in 0..n /\ c # n /\ n \in Nat /\ n <= MaxKeys + 1 /\ MaxKeys \in Nat
      BY <1>2, <2>1
    <3> HIDE DEF c, n
    <3>2. ~(c > MaxKeys)
      BY <3>1
    <3> QED
      BY <3>2 DEF c
  <2>3. At(skip_whitespace(pos), Quote)
    <3> DEFINE c == object_key_count
    <3>1. c \in 0..Number(signed) /\ c # Number(signed) /\ pos = Start(at, c, signed)
      BY <2>1
    <3> HIDE DEF c
    <3>2. PICK p : /\ Start(at, c, signed) = p - 1
                   /\ skip_whitespace(p - 1) = p + 2 /\ At(p + 2, Quote)
      BY <1>1, <2>1, <3>1, NextField
    <3> QED
      BY <3>1, <3>2
  <2> QED
    BY <2>2, <2>3
\* Before the closing bracket another element is left.
<1>4. ASSUME InArray
      PROVE  ~(Len(array_values) > MaxArray) /\ At(skip_whitespace(pos), Quote)
  <2>1. pc = "array" /\ content[pos] # CloseBracket
    BY <1>4 DEF InArray
  <2>2. PICK el, first, ss, name, v, e, end, last :
              /\ IsNext(at, name, v, e, end) /\ v = <<"array", ss>> /\ v[1] = "array" /\ v[2] = ss
              /\ ReadingArray(at, el, first) /\ key = e
              /\ ss \in Seq(Strings) /\ Len(array_values) \in 0..Len(ss)
              /\ \A j \in 1..Len(array_values) : array_values[j] = ss[j]
              /\ \A j \in DOMAIN ss : Fits(ss[j])
              /\ ElementsStand(el, first, ss, last)
              /\ ElementPlace(el, ss, Len(array_values), last, pos)
              /\ last = end - 1 /\ end \in Nat /\ end < End
              /\ AfterComma(end) = Start(at, object_key_count + 1, signed)
              /\ object_key_count # Number(signed)
    BY <1>1, <2>1, AtNextElement
  <2>3. PICK j : j = Len(array_values)
    OBVIOUS
  <2>4. j \in 0..Len(ss) /\ ElementPlace(el, ss, j, last, pos) /\ Len(ss) \in Nat
    BY <2>2, <2>3, LenProperties
  <2>5. j # Len(ss) /\ At(skip_whitespace(pos), Quote)
    <3>1. j # Len(ss)
      BY <1>1, <2>1, <2>2, <2>4, AtElement
    <3> QED
      BY <1>1, <2>2, <2>4, <3>1, AtElement
  <2>6. Len(ss) <= MaxArray + 1
    <3>1. IsValue(v)
      <4> DEFINE c == object_key_count
      <4>1. v = NextValue(signed, c) /\ c \in 0..Number(signed) /\ c # Number(signed)
            /\ Layout(at, content, signed)
        BY <2>2 DEF IsNext, Reading
      <4> HIDE DEF c
      <4> QED
        BY <1>1, <4>1, NextField
    <3> QED
      BY <2>2, <3>1, TextOfHead
  <2>7. ~(Len(array_values) > MaxArray)
    <3> DEFINE n == Len(ss)
    <3>1. j \in 0..n /\ j # n /\ n \in Nat /\ n <= MaxArray + 1 /\ MaxArray \in Nat
      BY <1>2, <2>4, <2>5, <2>6
    <3> HIDE DEF n
    <3>2. ~(j > MaxArray)
      BY <3>1
    <3> QED
      BY <2>3, <3>2
  <2> QED
    BY <2>5, <2>7
<1>5. CASE EndOfObject
  <2>1. pc = "object" /\ pc' = "done"
        /\ UNCHANGED <<content, pos, object_key_count, result, key, array_values, signed>>
    BY <1>5 DEF EndOfObject
  <2>2. pos = End
    <3> SUFFICES ASSUME pos # End PROVE FALSE
      OBVIOUS
    <3>1. pos < End /\ skip_whitespace(pos) = End
      BY <1>5 DEF EndOfObject, InObject
    <3>2. skip_whitespace(pos) < End
      BY <1>3, <2>1, <3>1 DEF At
    <3> QED
      BY <1>1, <3>1, <3>2
  <2>3. object_key_count = Number(signed)
    <3> SUFFICES ASSUME object_key_count # Number(signed) PROVE FALSE
      OBVIOUS
    <3> DEFINE c == object_key_count
    <3>1. c \in 0..Number(signed) /\ c # Number(signed) /\ pos = Start(at, c, signed)
          /\ Layout(at, content, signed)
      BY <1>1, <2>1, AtNextField DEF Reading
    <3> HIDE DEF c
    <3>2. PICK p : Start(at, c, signed) = p - 1 /\ p - 1 < End
      BY <1>1, <3>1, NextField
    <3>3. End < End
      BY <2>2, <3>1, <3>2
    <3> QED
      BY <1>1, <3>3
  <2>4. /\ Layout(at, content, signed)' /\ (object_key_count \in 0..Number(signed))'
        /\ ReadSoFar(result, signed, object_key_count)' /\ (object_key_count = Number(signed))'
    BY <2>1, <2>3 DEF Reading
  <2> QED
    BY <2>1, <2>4 DEF Reading
<1>6. CASE TooManyKeys
  BY <1>3, <1>6 DEF TooManyKeys
<1>7. CASE SkipGarbage
  <2>1. pc = "object" /\ pos < End /\ content[skip_whitespace(pos)] # Quote
    BY <1>7 DEF SkipGarbage, InObject
  <2> QED
    BY <1>3, <2>1 DEF At
<1>8. CASE Field
  BY <1>1, <1>8, ReadingField
<1>9. CASE TooManyElements
  BY <1>4, <1>9 DEF TooManyElements
<1>10. CASE Element
  BY <1>1, <1>10, ReadingElement
<1>11. CASE NoElement
  BY <1>4, <1>11 DEF NoElement
<1>12. CASE EndOfArray
  BY <1>1, <1>12, ReadingEndOfArray
<1>13. CASE Sign
  BY <1>13 DEF Sign
<1>14. CASE UNCHANGED vars
  BY <1>14 DEF vars, Reading, ReadingArray, ElementsStand, ElementPlace, Start, End
<1> QED
  BY <1>5, <1>6, <1>7, <1>8, <1>9, <1>10, <1>11, <1>12, <1>13, <1>14 DEF Next, Parse

\* The invariant holds at the beginning,
LEMMA InvInit == Init => IInv
<1> SUFFICES ASSUME Init PROVE IInv
  OBVIOUS
<1>1. TypeOK
  BY TypingInit
<1>2. IsFunction(result)
  BY EmptyFunction DEF Init
<1>3. signed = Unsigned
  BY DEF Init
<1> QED
  BY <1>1, <1>2, <1>3 DEF IInv

\* and every step keeps it.
LEMMA InvNext == IInv /\ [Next]_vars => IInv'
<1> SUFFICES ASSUME IInv, [Next]_vars PROVE IInv'
  OBVIOUS
<1>1. TypeOK /\ IsFunction(result) /\ TypeOK'
  BY TypingNext DEF IInv
<1>2. CASE Parse \/ UNCHANGED vars
  <2>1. signed' = signed /\ (result' = result \/ \E k, v : result' = With(result, k, v))
    <3>1. CASE Parse
      BY <3>1, ParseResult
    <3>2. CASE UNCHANGED vars
      BY <3>2 DEF vars
    <3> QED
      BY <1>2, <3>1, <3>2
  <2>2. IsFunction(result')
    BY <1>1, <2>1, WithFunction
  <2>3. signed' # Unsigned => IsFunction(signed')
    BY <2>1 DEF IInv
  <2>4. ASSUME signed' # Unsigned, FitsLimits(signed') PROVE (\E at : Reading(at))'
    <3>1. signed # Unsigned /\ FitsLimits(signed)
      BY <2>1, <2>4
    <3>2. PICK at : Reading(at)
      BY <3>1 DEF IInv
    <3>3. Reading(at)'
      BY <1>1, <3>1, <3>2, ReadingNext
    <3> QED
      BY <3>3
  <2>5. IsFunction(result)' /\ (signed # Unsigned => IsFunction(signed))'
    BY <2>2, <2>3 DEF Unsigned
  <2>6. (signed # Unsigned /\ FitsLimits(signed) => \E at : Reading(at))'
    BY <2>4 DEF Unsigned
  <2> QED
    BY <1>1, <2>5, <2>6 DEF IInv
<1>3. CASE Sign
  <2>1. signed' = result /\ result' = EmptyObject
    BY <1>3 DEF Sign
  <2>2. IsFunction(result)' /\ (signed # Unsigned => IsFunction(signed))'
    BY <1>1, <2>1, EmptyFunction DEF Unsigned
  <2>3. ASSUME FitsLimits(signed') PROVE (\E at : Reading(at))'
    <3>1. \E at : Reading(at)'
      BY <1>1, <1>3, <2>1, <2>3, ReadingSign
    <3> QED
      BY <3>1
  <2>4. (signed # Unsigned /\ FitsLimits(signed) => \E at : Reading(at))'
    BY <2>3 DEF Unsigned
  <2> QED
    BY <1>1, <2>2, <2>4 DEF IInv
<1> QED
  BY <1>2, <1>3 DEF Next

\* Of an object that was read to its end the signature leaves what was signed, if
\* every name is read as it was: and only then, since a name that grew has no end.
LEMMA PlainOrLost ==
    ASSUME NEW o, IsObject(o), IsFunction(o), NEW r, IsFunction(r), ReadSoFar(r, o, Number(o))
    PROVE  Without(r, hmac_signature) = o <=> PlainNames(o) /\ hmac_signature \notin DOMAIN o
<1> DEFINE n == Number(o)
           e(k) == escape_json_string(k)
           w == Without(r, hmac_signature)
<1>1. /\ DOMAIN Object(o) = DOMAIN o \cup {hmac_signature}
      /\ n \in Nat \ {0} /\ Names(o) \in [1..n -> DOMAIN Object(o)]
      /\ \A k \in DOMAIN Object(o) : \E i \in 1..n : Names(o)[i] = k
      /\ \A k \in DOMAIN Object(o) : k \in Strings /\ k \in Seq(Nat)
      /\ \A k \in DOMAIN o : k # hmac_signature => Object(o)[k] = o[k]
  BY SignedObject
<1>2. e(hmac_signature) = hmac_signature
  BY EscapeShort
<1>3. /\ DOMAIN r = {e(Names(o)[j]) : j \in 1..n}
      /\ \A j \in 1..n : r[e(Names(o)[j])] = Object(o)[Names(o)[j]]
  BY DEF ReadSoFar
<1> HIDE DEF e, n
<1>4. /\ DOMAIN r = {e(k) : k \in DOMAIN Object(o)}
      /\ \A k \in DOMAIN Object(o) : r[e(k)] = Object(o)[k]
  <2>1. ASSUME NEW k \in DOMAIN Object(o) PROVE e(k) \in DOMAIN r /\ r[e(k)] = Object(o)[k]
    <3>1. PICK i \in 1..n : Names(o)[i] = k
      BY <1>1
    <3> QED
      BY <1>3, <3>1
  <2>2. ASSUME NEW x \in DOMAIN r PROVE \E k \in DOMAIN Object(o) : x = e(k)
    <3>1. PICK j \in 1..n : x = e(Names(o)[j])
      BY <1>3
    <3>2. Names(o)[j] \in DOMAIN Object(o)
      BY <1>1
    <3> QED
      BY <3>1, <3>2
  <2>3. DOMAIN r = {e(k) : k \in DOMAIN Object(o)}
    BY <2>1, <2>2
  <2> QED
    BY <2>1, <2>3
<1>5. /\ DOMAIN w = DOMAIN r \ {hmac_signature} /\ w = [x \in DOMAIN r \ {hmac_signature} |-> r[x]]
  BY DEF Without
<1>6. \A k, l \in DOMAIN Object(o) : e(k) = e(l) => k = l
  BY <1>1, EscapeInjective DEF e
<1>7. ASSUME PlainNames(o), hmac_signature \notin DOMAIN o PROVE w = o
  <2>1. \A k \in DOMAIN Object(o) : e(k) = k
    BY <1>1, <1>2, <1>7 DEF PlainNames, e
  <2>2. DOMAIN r = DOMAIN o \cup {hmac_signature}
    <3>1. DOMAIN r = DOMAIN Object(o)
      BY <1>4, <2>1
    <3> QED
      BY <1>1, <3>1
  <2>3. DOMAIN r \ {hmac_signature} = DOMAIN o
    BY <1>7, <2>2
  <2>4. \A k \in DOMAIN o : r[k] = o[k]
    BY <1>1, <1>4, <1>7, <2>1
  <2>5. o = [x \in DOMAIN o |-> o[x]]
    BY DEF IsFunction
  <2> QED
    BY <1>5, <2>3, <2>4, <2>5
<1>8. ASSUME w = o PROVE PlainNames(o) /\ hmac_signature \notin DOMAIN o
  <2>1. DOMAIN o = DOMAIN r \ {hmac_signature}
    BY <1>5, <1>8
  <2>2. hmac_signature \notin DOMAIN o
    BY <2>1
  \* Escaping maps the names into themselves, without a repetition.
  <2>3. ASSUME NEW k \in DOMAIN o PROVE e(k) \in DOMAIN o
    <3>1. k \in DOMAIN Object(o) /\ k # hmac_signature /\ hmac_signature \in DOMAIN Object(o)
      BY <1>1, <2>2
    <3>2. e(k) # hmac_signature
      BY <1>2, <1>6, <3>1
    <3> QED
      BY <1>4, <2>1, <3>1, <3>2
  <2> DEFINE T == {k \in DOMAIN o : e(k) # k}
             L == {Len(k) : k \in T}
  <2>4. T = {}
    <3> SUFFICES ASSUME T # {} PROVE FALSE
      OBVIOUS
    <3>1. \A k \in T : Len(k) \in Nat /\ Len(k) <= MaxString /\ k \in Seq(Nat) /\ k \in DOMAIN o
      BY <1>1, LenProperties DEF Strings
    <3>2. \A k \in T : e(k) \in T /\ Len(e(k)) > Len(k)
      <4> SUFFICES ASSUME NEW k \in T PROVE e(k) \in T /\ Len(e(k)) > Len(k)
        OBVIOUS
      <4>1. k \in DOMAIN o /\ e(k) # k /\ k \in Seq(Nat) /\ k \in DOMAIN Object(o)
        BY <1>1
      <4>2. e(k) \in DOMAIN o /\ e(k) \in DOMAIN Object(o)
        BY <1>1, <2>3, <4>1
      <4>3. e(e(k)) # e(k)
        BY <1>6, <4>1, <4>2
      <4>4. Len(e(k)) > Len(k)
        BY <4>1, EscapeLonger DEF e
      <4> QED
        BY <4>2, <4>3, <4>4
    <3>3. L \subseteq 0..MaxString /\ L # {} /\ MaxString \in Nat
      <4>1. \A k \in T : Len(k) \in 0..MaxString
        <5> SUFFICES ASSUME NEW k \in T PROVE Len(k) \in 0..MaxString
          OBVIOUS
        <5> HIDE DEF T
        <5>1. Len(k) \in Nat /\ Len(k) <= MaxString
          BY <3>1
        <5> QED
          BY <5>1, LimitsAssumption
      <4> HIDE DEF T
      <4> QED
        BY <4>1, LimitsAssumption
    <3>4. PICK m \in L : \A y \in L : y <= m
      <4> HIDE DEF L, T
      <4>1. Max(L) \in L /\ \A y \in L : y <= Max(L)
        BY <3>3, MaxOf
      <4> QED
        BY <4>1
    <3>5. PICK k \in T : m = Len(k)
      OBVIOUS
    <3> HIDE DEF T
    <3>6. e(k) \in T /\ Len(e(k)) \in L
      BY <3>2
    <3>7. Len(e(k)) <= Len(k) /\ Len(e(k)) > Len(k) /\ Len(k) \in Nat /\ Len(e(k)) \in Nat
      BY <3>1, <3>2, <3>4, <3>5, <3>6
    <3> DEFINE a == Len(k)
               b == Len(e(k))
    <3>8. b <= a /\ b > a /\ a \in Nat /\ b \in Nat
      BY <3>7
    <3> HIDE DEF a, b
    <3> QED
      BY <3>8
  <2>5. \A k \in DOMAIN o : e(k) = k
    BY <2>4
  <2> QED
    BY <2>2, <2>5 DEF PlainNames, e
<1> QED
  BY <1>7, <1>8 DEF w

\* The invariant of the second parse: whatever the text and the limits, while a signed
\* text is read, the reader stands where the writer put the next field or element, and
\* holds what was written before it.
THEOREM Invariance == Spec => []IInv
BY InvInit, InvNext, PTL DEF Spec

\* What is signed is what is verified, for every text and every limit: a license
\* that fits them is read back as it was written, if its names need no escaping and it
\* was not signed before, and is refused as soon as it is signed otherwise.
THEOREM RoundTrip == Spec => []SignedTextVerifies
<1>1. IInv => SignedTextVerifies
  <2> SUFFICES ASSUME IInv, signed # Unsigned, FitsLimits(signed)
               PROVE  /\ PlainNames(signed) => pc # "thrown"
                      /\ pc = "done" => (Without(result, hmac_signature) = signed
                              <=> PlainNames(signed) /\ hmac_signature \notin DOMAIN signed)
    BY DEF SignedTextVerifies
  <2>1. PICK at : Reading(at)
    BY DEF IInv
  <2>2. PlainNames(signed) => pc # "thrown"
    BY <2>1 DEF Reading
  <2>3. ASSUME pc = "done"
        PROVE  Without(result, hmac_signature) = signed
                  <=> PlainNames(signed) /\ hmac_signature \notin DOMAIN signed
    <3>1. ReadSoFar(result, signed, Number(signed))
      BY <2>1, <2>3 DEF Reading
    <3>2. IsObject(signed) /\ IsFunction(signed) /\ IsFunction(result)
      BY DEF IInv, TypeOK
    <3> QED
      BY <3>1, <3>2, PlainOrLost
  <2> QED
    BY <2>2, <2>3
<1> QED
  BY <1>1, Invariance, PTL
=============================================================================
