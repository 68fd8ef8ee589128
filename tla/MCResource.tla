----------------------------- MODULE MCResource -----------------------------
(* Request lines for the run of Resource. *)
EXTENDS Resource, SequencesExt

(* Pages shorter and longer than a directory; no two agree in any byte.    *)
SomeTexts == {<<>>, <<1>>, <<2, 2>>, <<3, 3, 3, 3>>}

Slash == <<"slash">>
Ask   == <<"question">>

(* A method, some blanks, a URL and the version, of which nothing is used. *)
L(m, sp, u, p, a, q) ==
  [text |-> <<m>> \o [i \in 1..sp |-> "space"] \o u \o (IF a THEN Ask \o q ELSE <<>>) \o <<"space", "param">>,
   method |-> IF m = "PUT" THEN "other" ELSE m, place |-> p, asks |-> a, query |-> q]

Param  == <<"param">>
SomeLines ==
  {L(m, 1, Slash \o <<"page">>, <<"page">>, FALSE, <<>>) : m \in {"GET", "POST", "PUT"}}
  \cup {L("GET", n, Slash \o <<"page">>, <<"page">>, TRUE, Param) : n \in {1, 2}}
  \cup {L("GET", 1, Slash, <<"index">>, FALSE, <<>>), L("GET", 1, Slash, <<"index">>, TRUE, <<>>),
        L("GET", 1, Slash \o <<"dir">>, <<"dir", "index">>, FALSE, <<>>),
        L("GET", 1, Slash \o <<"dir">> \o Slash, <<"dir", "index">>, FALSE, <<>>),
        L("GET", 1, Slash \o <<"bare">>, <<"bare", "index">>, FALSE, <<>>),
        L("GET", 2, Slash \o <<"cgi">>, <<"cgi">>, FALSE, <<>>),
        L("POST", 1, Slash \o <<"cgi">>, <<"cgi">>, FALSE, <<>>),
        L("GET", 1, Slash \o <<"cgi">>, <<"cgi">>, TRUE, Param \o Ask \o Param),
        L("GET", 1, Slash \o <<"page">> \o Slash, <<>>, FALSE, <<>>),
        L("GET", 1, Slash \o <<"backslash">>, <<>>, FALSE, <<>>),
        L("GET", 1, Slash \o <<"param">>, <<>>, FALSE, <<>>),
        L("GET", 1, Slash \o <<"dir">> \o Slash \o Slash \o <<"index">>, <<"dir", "index">>, FALSE, <<>>),
        L("GET", 1, Slash \o <<"dir", "index">>, <<>>, FALSE, <<>>),
        L("GET", 1, <<"page">>, <<>>, FALSE, <<>>),
        (* a method longer than its array, and no URL at all *)
        [text |-> <<"GET", "POST", "GET", "space">> \o Slash, method |-> "other",
         place |-> <<"index">>, asks |-> FALSE, query |-> <<>>],
        [text |-> <<"GET", "space">>, method |-> "GET", place |-> <<"index">>, asks |-> FALSE, query |-> <<>>]}
=============================================================================
