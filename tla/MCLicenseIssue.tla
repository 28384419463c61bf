--------------------------- MODULE MCLicenseIssue ---------------------------
\* A small instance of LicenseIssue: three ticks to a second and two to what counts as an
\* hour, times from -13 to 12.
EXTENDS LicenseIssue

MCHwids == {Text("here"), Text("there")}
MCLists == {{"basic"}}

\* Before the clock's first instant, in the past, in the next seconds, more than fits
\* the clock, and more than fits an int.
MCValidities == {-9, -2, 2, 7, 14}

Plain == [f \in Required \ {"hmac_signature"} |->
             CASE f = "expiry"        -> Date(1)
               [] f = "hardware_hash" -> Text("here")
               [] f = "features"      -> List({"basic"})
               [] OTHER               -> Text(f)]
Noted == With(Plain, "note", Text("x"))

\* No issue date; a day; the second before 1970; dates no clock holds, one of which
\* becomes the second before 1970; versions stoul narrows, and one it refuses;
\* features that are no list.
MCDrafts ==
    {With(Noted, "expiry", e) : e \in {Day(2), Date(-1), Date(-7), Date(9)}}
    \cup {With(Noted, "version", Number(n)) : n \in {-1, 2, 4}}
    \cup {With(Plain, "features", Text("x")), With(Noted, "issued_at", Date(-1)),
          With(With(Noted, "expiry", Day(2)), "issued_at", Date(7))}

MCAlterations ==
    {<<"note", Text("y")>>, <<"features", List({"basic", "pro"})>>, <<"expiry", Date(3)>>,
     <<"hardware_hash", Text("there")>>, <<"user_id", Empty>>}
=============================================================================
