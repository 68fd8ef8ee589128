----------------------------- MODULE MCGateway -----------------------------
(* Requests and programs for the run of Gateway. *)
EXTENDS Gateway, MCHeadReader

(* The calculator's form, with a name long enough for the length wanted.   *)
FormText(n, b) == Longer(n) \o <<"eq", "1", "2", "amp", "x", "eq">> \o b
Forms ==
  {[PostOf(<<"1", "0">>, 10, FormText(3, <<"3">>)) EXCEPT !.form = <<12, 3>>],
   [PostOf(<<"1", "1">>, 11, FormText(3, <<"1", "2">>)) EXCEPT !.form = <<12, 12>>],
   [PostOf(<<"1", "2">>, 12, FormText(5, <<"3">>)) EXCEPT !.form = <<12, 3>>],
   [Lines(<<First>>, CRLF) EXCEPT !.query = FormText(1, <<"3">>), !.form = <<12, 3>>]}

(* A form whose second value was cut off. *)
HalfForm == Lines(<<First>>, CRLF)
LongBody == PostOf(<<"1", "1">>, 11, Longer(11))
(* More than post_data holds; and a length with no blank before it, of which *)
(* the first digit is lost.                                                *)
TooLong  == PostOf(<<"2", "0">>, 20, Longer(20))
NoBlank  == Post(<<First, <<"name", "colon", "1", "2">>>>, CRLF, 12, Longer(12))
ThreeBytes == PostOf(<<"3">>, 3, Longer(3))

Prog(b, r, n, a, d) == [before |-> b, reads |-> r, adds |-> n, after |-> a, does |-> d]
Math   == Prog(0, TRUE, 0, 1, "math")
Debug  == Prog(0, FALSE, 0, 0, "debug")
List   == Prog(2, TRUE, 1, 2, "text")    \* god_list_cgi and its like
Chatty == Prog(3, TRUE, 0, 1, "text")    \* more than a pipe holds before it reads
Del    == Prog(1, FALSE, 0, 1, "text")   \* del_god_cgi: GET only
NoFile == Prog(0, FALSE, 0, 0, "text")   \* execl() fails

AllPrograms == {Math, Debug, List, Chatty, Del, NoFile}
AllRequests == HeadRequests \cup Forms \cup {HalfForm, LongBody, TooLong, NoBlank, ThreeBytes}
SomePairs ==
  [req : HeadRequests \cup {NoBlank}, prog : {List}] \cup [req : Forms \cup {HalfForm}, prog : {Math}]
  \cup [req : {LongBody}, prog : {List, Chatty}] \cup [req : {TooLong}, prog : {List, Math}] \cup [req : {ThreeBytes, HalfForm}, prog : {Chatty, Del, Debug, NoFile}]

(* What the theorems suppose of requests and programs holds of these. *)
ASSUME PlainAssumption == Plain /\ Summable
=============================================================================
