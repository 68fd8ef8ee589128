---------------------------- MODULE HttpRequest ----------------------------
(***************************************************************************)
(* Requests as the threads of httpd.c tell them apart, what accept_request *)
(* does about each, and the reply that is owed to it.  Resource derives    *)
(* these requests from request lines and files; Httpd serves them.         *)
(***************************************************************************)
EXTENDS Naturals, Sequences

(* What stat() finds behind a URL: nothing, a directory with or without an *)
(* index.html, a plain file, a program that reads the body of a POST, or a *)
(* program that answers GET only and exits without reading (del_god_cgi).  *)
Files    == {"none", "bare", "dir", "page", "cgi", "getcgi"}
Programs == {"cgi", "getcgi"}
Request  == [method: {"GET", "POST", "other", ""}, query: BOOLEAN,
             file: Files, len: {"minus1", "zero", "positive"}]

(* A line that could not be read leaves method and url empty. *)
NoRequest == [method |-> "", query |-> FALSE, file |-> "none", len |-> "zero"]

HasBody(r) == r.method = "POST" /\ r.len = "positive"

(* A POST, a GET with a query, or an executable file runs a program; a     *)
(* directory is never executable itself, its index.html is meant.          *)
UsesCgi(r) ==
  \/ r.method = "POST"
  \/ r.method = "GET" /\ r.query
  \/ r.file \in Programs

Route(r) ==
  IF r.method \notin {"GET", "POST"} THEN "bad_request"
  ELSE IF r.file = "none" THEN "not_found"
  ELSE IF UsesCgi(r) THEN "cgi_head" ELSE "open"
-----------------------------------------------------------------------------
(* What a request is to be answered with: one status line, and the page or *)
(* the program's output when there is one; or, when open(), pipe() or      *)
(* fork() is refused, the error that reports it.                           *)
Proper(r) ==
  CASE Route(r) = "bad_request" -> <<"400">>
    [] Route(r) = "not_found" -> <<"404">>
    [] Route(r) = "open" -> IF r.file = "bare" THEN <<"404">> ELSE <<"200", "page">>
    [] Route(r) = "cgi_head" -> IF r.method = "POST" /\ r.len = "minus1" THEN <<"500">>
                                ELSE IF r.file \in Programs THEN <<"200", "output">> ELSE <<"200">>

Excused(r) ==
  CASE Proper(r) = <<"200", "page">> -> {<<"404">>}
    [] Proper(r) \in {<<"200">>, <<"200", "output">>} -> {<<"200", "500">>}
    [] OTHER -> {}
=============================================================================
