----------------------------- MODULE MCRestart -----------------------------
(* Constants for the runs of Restart. *)
EXTENDS Restart, MCHttpd

(* A program that reads a body, and a page. *)
RestartRequests == {Req("POST", FALSE, "cgi", "positive"), Req("GET", FALSE, "page", "zero")}
OnePost         == {Req("POST", FALSE, "cgi", "positive")}
=============================================================================
