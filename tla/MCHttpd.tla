------------------------------ MODULE MCHttpd ------------------------------
(* Constants for the runs of Httpd. *)
EXTENDS Httpd, TLC
CONSTANTS c1, c2, c3

Req(m, q, f, l) == [method |-> m, query |-> q, file |-> f, len |-> l]

(* Requests none of whose paths comes to echo_error_to_client's second     *)
(* close or to a program that does not read what is posted to it.          *)
CleanRequests ==
  {Req("other", FALSE, "page", "zero"), Req("GET", FALSE, "none", "zero"),
   Req("GET", FALSE, "page", "zero"), Req("GET", TRUE, "cgi", "zero"),
   Req("POST", FALSE, "cgi", "positive")}

(* Every way through the handlers: the paths that close twice, and the     *)
(* program that does not read what is posted to it.                        *)
RoughRequests ==
  {Req("GET", FALSE, "bare", "zero"), Req("GET", FALSE, "page", "zero"),
   Req("GET", FALSE, "cgi", "zero"), Req("POST", FALSE, "cgi", "minus1"),
   Req("POST", FALSE, "getcgi", "positive")}

(* A directory without an index.html, and a page. *)
PageRequests ==
  {Req("GET", FALSE, "bare", "zero"), Req("GET", FALSE, "page", "zero")}

(* What a browser asks for every day. *)
UsualRequests ==
  {Req("GET", FALSE, "page", "zero"), Req("GET", TRUE, "cgi", "zero"),
   Req("POST", FALSE, "cgi", "positive")}

Symmetry == Permutations(Clients)
=============================================================================
