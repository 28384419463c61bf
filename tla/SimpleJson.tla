----------------------------- MODULE SimpleJson -----------------------------
(***************************************************************************)
(* SimpleJson (src/src/json/simple_json.cpp): the loop of parse over the     *)
(* text between the outer braces, and stringify, whose result is what is     *)
(* signed.  A behaviour is the life of a license: its text is parsed, the    *)
(* object is written out again with its signature, and that text is parsed   *)
(* to be verified (HMACValidator::sign_json and verify_json,                 *)
(* LicenseManager::generate_license and load_and_validate).                  *)
(*                                                                          *)
(* Characters are their codes.  The words true and false, and the name       *)
(* hmac_signature, are one character each.  A text has its braces around it: *)
(* without them it is refused at once.                                       *)
(***************************************************************************)
EXTENDS Integers, Sequences, FiniteSets, SequencesExt

CONSTANTS
    Contents,   \* texts between the braces
    MaxSize,    \* SafeJsonParser::MAX_JSON_SIZE
    SignatureSize,  \* the characters of the signature's value, which is empty here
    MaxKeys,    \* SafeJsonParser::MAX_OBJECT_KEYS
    MaxArray,   \* SafeJsonParser::MAX_ARRAY_SIZE
    MaxString   \* SafeJsonParser::MAX_STRING_LENGTH

ASSUME ContentsAssumption == Contents \subseteq Seq(Nat)
ASSUME LimitsAssumption ==
    {MaxSize, SignatureSize, MaxKeys, MaxArray} \subseteq Nat /\ MaxString \in Nat \ {0}

Newline == 10
Space == 32
Quote == 34
Comma == 44
Colon == 58
OpenBracket == 91
Backslash == 92
CloseBracket == 93
CloseBrace == 125
Blanks == 9..13 \cup {Space}          \* isspace
Trimmed == {9, Newline, 13, Space}    \* trim
WordTrue == <<84>>
WordFalse == <<70>>
hmac_signature == <<104>>

\* The escapes: a character, and the letter after the backslash.
Escapes == {<<Quote, Quote>>, <<Backslash, Backslash>>, <<8, 98>>, <<12, 102>>,
            <<Newline, 110>>, <<13, 114>>, <<9, 116>>}
Letter(c) == (CHOOSE e \in Escapes : e[1] = c)[2]
Meant(l) == (CHOOSE e \in Escapes : e[2] = l)[1]
Special == {e[1] : e \in Escapes}
Letters == {e[2] : e \in Escapes}

VARIABLES
    content, pos,       \* the text and the place in it, from 1
    object_key_count,
    result,             \* the object read so far
    key, array_values,  \* the array being read
    pc,                 \* "object", "array", or how the call ended
    signed              \* the object that was signed, in the second parse

vars == <<content, pos, object_key_count, result, key, array_values, pc, signed>>

Unsigned == [none |-> TRUE]
EmptyObject == <<>>

\* The first test of parse, with the braces and what the text has beyond its characters here.
Opens(text, more) == IF Len(text) + 2 + more > MaxSize THEN "thrown" ELSE "object"

Init ==
    /\ content \in Contents
    /\ pos = 1
    /\ object_key_count = 0
    /\ result = EmptyObject
    /\ key = <<>>
    /\ array_values = <<>>
    /\ pc = Opens(content, 0)
    /\ signed = Unsigned

-----------------------------------------------------------------------------
(* Strings.                                                                 *)

\* A backslash and the character after it become one character, unless that
\* character is no escape: then both stay.
unescape_json_string(s) ==
    LET lead[i \in 0..Len(s)] ==
            /\ i \in 1..(Len(s) - 1)
            /\ s[i] = Backslash /\ s[i + 1] \in Letters
            /\ ~lead[i - 1]
        piece(i) == CASE lead[i]                     -> <<>>
                      [] ~lead[i] /\ lead[i - 1]     -> <<Meant(s[i])>>
                      [] ~lead[i] /\ ~lead[i - 1]    -> <<s[i]>>
    IN  FlattenSeq([i \in 1..Len(s) |-> piece(i)])

\* Defective variant: the backslash itself is not escaped.
escape_json_string_NoBackslash(s) ==
    FlattenSeq([i \in 1..Len(s) |->
        IF s[i] \in Special \ {Backslash} THEN <<Backslash, Letter(s[i])>> ELSE <<s[i]>>])

escape_json_string(s) ==
    FlattenSeq([i \in 1..Len(s) |->
        IF s[i] \in Special THEN <<Backslash, Letter(s[i])>> ELSE <<s[i]>>])

Quoted(s) == <<Quote>> \o escape_json_string(s) \o <<Quote>>

Joined(ss, separator) ==
    FlattenSeq([i \in DOMAIN ss |-> IF i = 1 THEN ss[i] ELSE separator \o ss[i]])

-----------------------------------------------------------------------------
(* stringify.                                                               *)

TextOf(v) ==
    CASE v[1] = "string" -> Quoted(v[2])
      [] v[1] = "array"  -> <<OpenBracket>>
                            \o Joined([i \in DOMAIN v[2] |-> Quoted(v[2][i])], <<Comma, Space>>)
                            \o <<CloseBracket>>
      [] v[1] = "bool"   -> IF v[2] THEN WordTrue ELSE WordFalse

\* The order of std::string.
Precedes(s, t) ==
    \/ s # t /\ IsPrefix(s, t)
    \/ \E i \in 1..Len(s) : /\ i <= Len(t)
                           /\ SubSeq(s, 1, i - 1) = SubSeq(t, 1, i - 1)
                           /\ s[i] < t[i]

Sorted(S) ==
    LET rank(s) == Cardinality({t \in S : Precedes(t, s)}) + 1
    IN  [i \in 1..Cardinality(S) |-> CHOOSE s \in S : rank(s) = i]

stringify(o) ==
    LET keys == Sorted(DOMAIN o)
        field(k) == <<Space, Space>> \o Quoted(k) \o <<Colon, Space>> \o TextOf(o[k])
    IN  <<Newline>>
        \o Joined([i \in DOMAIN keys |-> field(keys[i])], <<Comma, Newline>>)
        \o <<Newline>>

-----------------------------------------------------------------------------
(* Places in the text; End is behind it.                                    *)

End == Len(content) + 1
At(i, c) == i < End /\ content[i] = c

skip_whitespace(i) ==
    LET skip[j \in 1..End] == IF j < End /\ content[j] \in Blanks THEN skip[j + 1] ELSE j
    IN  skip[i]
NextOf(i, chars) ==
    LET skip[j \in 1..End] == IF j < End /\ content[j] \notin chars THEN skip[j + 1] ELSE j
    IN  skip[i]

\* The closing quote of the string that begins at i, or End: the character after a
\* backslash does not close it.
ClosingQuote(i) ==
    LET skip[j \in 1..End] ==
            IF j = End \/ content[j] = Quote THEN j
            ELSE skip[IF content[j] = Backslash /\ j + 1 < End THEN j + 2 ELSE j + 1]
    IN  skip[i]

AfterComma(i) ==
    LET p == skip_whitespace(i) IN IF At(p, Comma) THEN p + 1 ELSE p

trim(s) ==
    LET kept == {i \in DOMAIN s : s[i] \notin Trimmed}
    IN  IF kept = {} THEN <<>> ELSE SubSeq(s, Min(kept), Max(kept))

-----------------------------------------------------------------------------
(* parse: one iteration of the loop over the fields.                        *)

With(o, k, v) == [x \in DOMAIN o \cup {k} |-> IF x = k THEN v ELSE o[x]]
Without(o, k) == [x \in DOMAIN o \ {k} |-> o[x]]

Throws ==
    /\ pc' = "thrown"
    /\ UNCHANGED <<content, pos, object_key_count, result, key, array_values, signed>>

\* result[key] = v, then to the next field.
Adds(k, v, next) ==
    /\ result' = With(result, k, v)
    /\ pos' = AfterComma(next)
    /\ object_key_count' = object_key_count + 1
    /\ pc' = "object"
    /\ UNCHANGED <<content, key, array_values, signed>>

InObject == pc = "object" /\ pos < End /\ object_key_count <= MaxKeys

EndOfObject ==
    /\ pc = "object"
    /\ pos = End \/ (InObject /\ skip_whitespace(pos) = End)
    /\ pc' = "done"
    /\ UNCHANGED <<content, pos, object_key_count, result, key, array_values, signed>>

TooManyKeys == pc = "object" /\ pos < End /\ object_key_count > MaxKeys /\ Throws

\* Defective variant: the comma itself is not stepped over.
SkipGarbage_AtComma ==
    /\ InObject
    /\ LET start == skip_whitespace(pos)
       IN  /\ start < End /\ content[start] # Quote
           /\ pos' = NextOf(start, {Comma})
    /\ UNCHANGED <<content, object_key_count, result, key, array_values, pc, signed>>

\* Defective variant: steps past the end of the text.
SkipGarbage_PastEnd ==
    /\ InObject
    /\ LET start == skip_whitespace(pos)
       IN  /\ start < End /\ content[start] # Quote
           /\ pos' = NextOf(start, {Comma}) + 1
    /\ UNCHANGED <<content, object_key_count, result, key, array_values, pc, signed>>

SkipGarbage ==
    /\ InObject
    /\ LET start == skip_whitespace(pos)
       IN  /\ start < End /\ content[start] # Quote
           /\ pos' = Min({NextOf(start, {Comma}) + 1, End})
    /\ UNCHANGED <<content, object_key_count, result, key, array_values, pc, signed>>

StringValue(name, start) ==
    LET end == ClosingQuote(start + 1)
        raw == SubSeq(content, start + 1, end - 1)
    IN  IF end = End \/ Len(raw) > MaxString THEN Throws
        ELSE Adds(name, <<"string", unescape_json_string(raw)>>, end + 1)

ArrayValue(name, start) ==
    /\ key' = name
    /\ array_values' = <<>>
    /\ pos' = start + 1
    /\ pc' = "array"
    /\ UNCHANGED <<content, object_key_count, result, signed>>

BareValue(name, start) ==
    LET end == NextOf(start, {Comma, CloseBrace})
        word == trim(SubSeq(content, start, end - 1))
    IN  IF Len(word) > MaxString THEN Throws
        ELSE Adds(name, IF word \in {WordTrue, WordFalse}
                        THEN <<"bool", word = WordTrue>> ELSE <<"string", word>>, end)

Field ==
    /\ InObject
    /\ LET start == skip_whitespace(pos)
           close == ClosingQuote(start + 1)
           name == SubSeq(content, start + 1, close - 1)
           colon == skip_whitespace(close + 1)
           value == skip_whitespace(colon + 1)
       IN  /\ At(start, Quote)
           /\ IF close = End \/ Len(name) > MaxString THEN Throws
              ELSE IF ~At(colon, Colon) \/ value = End THEN Throws
              ELSE \/ content[value] = Quote       /\ StringValue(name, value)
                   \/ content[value] = OpenBracket /\ ArrayValue(name, value)
                   \/ content[value] \notin {Quote, OpenBracket} /\ BareValue(name, value)

-----------------------------------------------------------------------------
(* One iteration of the loop over the elements of an array.                 *)

InArray == pc = "array" /\ pos < End /\ content[pos] # CloseBracket

TooManyElements == InArray /\ Len(array_values) > MaxArray /\ Throws

Element ==
    /\ InArray
    /\ Len(array_values) <= MaxArray
    /\ LET start == skip_whitespace(pos)
           end == ClosingQuote(start + 1)
           raw == SubSeq(content, start + 1, end - 1)
       IN  /\ At(start, Quote)
           /\ IF end = End \/ Len(raw) > MaxString THEN Throws
              ELSE /\ array_values' = Append(array_values, unescape_json_string(raw))
                   /\ pos' = AfterComma(end + 1)
                   /\ UNCHANGED <<content, object_key_count, result, key, pc, signed>>

\* Nothing but white space and a comma is stepped over, so this may be a step that
\* changes nothing, for ever.
NoElement ==
    /\ InArray
    /\ Len(array_values) <= MaxArray
    /\ ~At(skip_whitespace(pos), Quote)
    /\ pos' = AfterComma(pos)
    /\ UNCHANGED <<content, object_key_count, result, key, array_values, pc, signed>>

\* The end of the text ends the array too.
EndOfArray ==
    /\ pc = "array"
    /\ pos < End => content[pos] = CloseBracket
    /\ Adds(key, <<"array", array_values>>, Min({pos + 1, End}))

-----------------------------------------------------------------------------
(* The object is signed, written with its signature, and read again.        *)

Completed(o) == stringify(With(o, hmac_signature, <<"string", <<>>>>))

Sign ==
    /\ pc = "done"
    /\ signed = Unsigned
    /\ signed' = result
    /\ content' = Completed(result)
    /\ pos' = 1
    /\ object_key_count' = 0
    /\ result' = EmptyObject
    /\ key' = <<>>
    /\ array_values' = <<>>
    /\ pc' = Opens(content', SignatureSize)

Parse ==
    \/ EndOfObject \/ TooManyKeys \/ SkipGarbage \/ Field
    \/ TooManyElements \/ Element \/ NoElement \/ EndOfArray

Next == Parse \/ Sign
Spec == Init /\ [][Next]_vars

\* parse runs alone and to its end.
FairSpec == Spec /\ WF_vars(Next)
-----------------------------------------------------------------------------
Stopped == pc \in {"done", "thrown"}
\* What is read keeps within the limits.  An object and an array can have one element
\* more: the limit is tested before an element is added, and with > (cpp:31, 106).
Strings == {s \in Seq(Nat) : Len(s) <= MaxString}
IsValue(v) ==
    \/ v \in {"string"} \X Strings
    \/ v \in {"bool"} \X BOOLEAN
    \/ v \in {"array"} \X Seq(Strings) /\ Len(v[2]) <= MaxArray + 1
IsObject(o) ==
    /\ IsFiniteSet(DOMAIN o) /\ Cardinality(DOMAIN o) <= MaxKeys + 1
    /\ DOMAIN o \subseteq Strings
    /\ \A k \in DOMAIN o : IsValue(o[k])

TypeOK ==
    /\ content \in Seq(Nat)
    /\ pos \in 1..End
    /\ object_key_count \in 0..(MaxKeys + 1)
    /\ IsObject(result) /\ Cardinality(DOMAIN result) <= object_key_count
    /\ key \in Strings
    /\ array_values \in Seq(Strings) /\ Len(array_values) <= MaxArray + 1
    /\ pc \in {"object", "array", "done", "thrown"}
    /\ pc = "array" => object_key_count <= MaxKeys
    /\ signed = Unsigned \/ IsObject(signed)

\* A license that fits the limits verifies exactly if its field names need no
\* escaping and it was not signed before: its signed text can be parsed, and what is
\* left without the signature is what was signed, whatever quotes, backslashes and
\* control characters the values hold and however odd the text was that the object
\* came from.  Names are escaped when written and not unescaped when read (cpp:62,
\* 193), and sign_json signs an old signature too (hmac_validator.cpp:83), which
\* verify_json takes away: such a license is refused as soon as it is signed.
Fits(s) == Len(escape_json_string(s)) <= MaxString
FitsLimits(o) ==
    /\ Len(Completed(o)) + 2 + SignatureSize <= MaxSize
    /\ Cardinality(DOMAIN o) <= MaxKeys
    /\ \A k \in DOMAIN o : CASE o[k][1] = "string" -> Fits(o[k][2])
                             [] o[k][1] = "array"  -> \A i \in DOMAIN o[k][2] : Fits(o[k][2][i])
                             [] o[k][1] = "bool"   -> TRUE
PlainNames(o) == \A k \in DOMAIN o : escape_json_string(k) = k

SignedTextVerifies ==
    signed # Unsigned /\ FitsLimits(signed) =>
        /\ PlainNames(signed) => pc # "thrown"
        /\ pc = "done" => (Without(result, hmac_signature) = signed
                              <=> PlainNames(signed) /\ hmac_signature \notin DOMAIN signed)

\* parse stops, unless it comes upon an element of an array that is not a string.
BareElement ==
    InArray /\ skip_whitespace(pos) < End
    /\ content[skip_whitespace(pos)] \notin {Quote, Comma, CloseBracket}
StopsOrStuck == <>(Stopped \/ BareElement) /\ [](signed # Unsigned => <>Stopped)

\* "Safe JSON parser with strict validation" (simple_json.hpp:46): whatever the text,
\* the parser stops.
Stops == <>Stopped
=============================================================================
