---------------------------- MODULE MCScrapeRuns ----------------------------
\* Instances of ScrapeRuns for TLC.
EXTENDS ScrapeRuns

CONSTANTS a, b, c, http, https, other, site, elsewhere

\* a and b are on one host under different schemes, c is on another.
TwoHosts == [u \in Urls |-> IF u = a THEN http ELSE IF u = b THEN https ELSE other]

Sites == [o \in {http, https, other} |-> IF o = other THEN elsewhere ELSE site]

\* Each origin forbids everything or nothing; c's does what b's does.
AllOrNothing == {r \in [Origins -> {{}, Urls}] : r[other] = r[https]}

\* An object in and out of fences, with prose and stray braces around it; arrays of objects,
\* text without a value, and objects that prose or an unrelated fence hides.
Wrapped(v) == {v, <<"fence">> \o v \o <<"fence">>, <<"fence", "json">> \o v \o <<"fence">>,
               <<"fence", "text">> \o v \o <<"fence">>}

Amid(w) == {w, <<"text">> \o w \o <<"text">>, <<"text", "endbrace">> \o w \o <<"text", "brace">>}

SomeCompletions ==
    UNION {Amid(w) : w \in Wrapped(Object)}
    \cup Wrapped(Array(2))
    \cup {<<"text">> \o Array(n) : n \in {0, 2}}
    \cup {<<"text">>, <<"text", "endbrace", "brace">>}
    \cup {Object \o <<"text">>, <<"fence">> \o Object \o <<"text", "fence">>,
          <<"fence", "json", "text", "fence">> \o Object,
          <<"fence", "text", "fence", "text">> \o Object \o <<"fence">>,
          <<"fence">> \o Object \o <<"fence", "json">>}
=============================================================================
