---------------------------- MODULE MCSimpleJson ----------------------------
\* Small instances of SimpleJson: texts of at most three fragments.
EXTENDS SimpleJson

k == 107
n == 110
Name == <<Quote, k, Quote, Colon>>
Text == <<Quote, n, Quote>>
Other == <<Quote, n, Quote, Colon>>
Odd == <<Quote, Backslash, Quote, k, Quote, Space, Colon>>
Escapes2 == <<Quote, Backslash, Backslash, n, Backslash, k, Quote>>
Raw == <<Space, Quote, Newline, Comma, Quote>>

Names == {Name, Name \o <<OpenBracket>>, Odd}
Values == {Text, Text \o <<Comma>> \o Raw, Escapes2, Raw, WordTrue}
Fields == {Name \o Escapes2 \o <<Comma>> \o Other \o Text, Odd \o Text, <<Quote>> \o hmac_signature \o <<Quote, Colon, Space, 49>>}
Signs == {<<Quote>>, <<Comma>>, <<CloseBracket>>, <<CloseBrace>>, <<Space>>}
Fragments == Names \cup Values \cup Fields \cup Signs

Longer(texts) == {t \o f : t \in texts, f \in Fragments}
MCContents == {<<>>} \cup Longer({<<>>}) \cup Longer(Longer({<<>>}))
              \cup Longer(Longer(Longer({<<>>})))
=============================================================================
