------------------------------ MODULE Resource ------------------------------
(***************************************************************************)
(* From a request line to the file or program that answers it: how         *)
(* accept_request() cuts up the line, what it asks stat() and what it and  *)
(* echo_html() do then, while somebody edits the files.  The system looks  *)
(* the path up twice, at stat() and at open(), and its size is taken at    *)
(* the first and used after the second.                                    *)
(*                                                                         *)
(* A line is words of tokens: the methods, blanks, slashes, backslashes,   *)
(* question marks, and names, which are whole.  A page is its bytes.       *)
(***************************************************************************)
EXTENDS HttpRequest, Integers, FiniteSets

CONSTANTS
  Lines,       \* request lines, with what their authors mean by them
  Texts,       \* what pages may hold, byte by byte
  Absent,      \* what a page holds that is not there
  DirSize,     \* what stat() says of a directory
  LineSize,    \* _COMM_SIZE_: buffer, url
  MethodSize,  \* _COMM_SIZE_/10: method
  MaxEdits     \* a bound: how often somebody edits

Names  == {"page", "dir", "bare", "cgi", "index", "param"}
Marks  == {"space", "slash", "backslash", "question"}
Tokens == {"GET", "POST", "PUT"} \cup Marks \cup Names

(* A line means a method, and a place, a query that follows its ? or none. *)
Line   == [text : Seq(Tokens), method : {"GET", "POST", "other"}, place : Seq(Tokens),
           asks : BOOLEAN, query : Seq(Tokens)]

(* The files below htdocs: the root and the other directories with and     *)
(* without an index.html, a page and a program.                            *)
Places == {<<>>, <<"index">>, <<"page">>, <<"dir">>, <<"dir", "index">>, <<"bare">>, <<"cgi">>}
Pages  == {<<"index">>, <<"page">>, <<"dir", "index">>}

ASSUME LinesAssumption == \A l \in Lines : l \in Line /\ Len(l.text) < LineSize
ASSUME TextsAssumption == Texts \subseteq Seq(Nat) /\ Absent \notin Texts
ASSUME ResourceSizes == DirSize \in Nat /\ MaxEdits \in Nat
                        /\ LineSize \in Nat /\ MethodSize \in Nat /\ MethodSize > 2

VARIABLES
  line,      \* what the client sends
  text,      \* per page: its bytes now, or Absent
  edits,     \* how often somebody has edited
  pc,        \* the next call of the thread
  method, url, query, cgi, path,   \* its variables
  size,      \* st_size
  found,     \* what stat() found, in the words of HttpRequest
  opened,    \* the bytes of the file that is open, or Absent
  linked,    \* a file is open, and it is still the one under its name
  sent,      \* the bytes sendfile() has sent
  written,   \* history: somebody has written into the open file
  versions   \* history: every text the page meant has had since stat()

file   == <<opened, linked, written>>
thread == <<pc, method, url, query, cgi, path, size, found, sent>>
vars   == <<line, text, edits, thread, file, versions>>

Init ==
  /\ line \in Lines /\ text \in [Pages -> Texts] /\ edits = 0
  /\ pc = "line" /\ method = <<>> /\ url = <<>> /\ query = <<>> /\ cgi = FALSE /\ path = <<>>
  /\ size = 0 /\ found = "none" /\ opened = Absent /\ linked = FALSE /\ sent = <<>>
  /\ written = FALSE /\ versions = {}
-----------------------------------------------------------------------------
(* The path: htdocs with the URL behind it, and index.html behind that if  *)
(* the URL ends in a backslash.  The system reads names between slashes,   *)
(* however many; a slash behind a name that is no directory finds nothing. *)
PathOf(u)    == IF u # <<>> /\ u[Len(u)] = "backslash" THEN Append(u, "index") ELSE u
Steps(u)     == SelectSeq(u, LAMBDA t : t # "slash")
IsDir(p)     == p \in {<<>>, <<"dir">>, <<"bare">>}
Spelt(p, u)  == /\ \A k \in 1..Len(u) : u[k] = "slash" \/ (k > 1 /\ u[k - 1] = "slash")
                /\ u # <<>> /\ u[Len(u)] = "slash" => IsDir(p)
                /\ p \in Places
Finds(p, u)  == Spelt(p, u) /\ (p \in Pages => text[p] # Absent)

(* A line means what it says: its first word is the method; behind some    *)
(* blanks begins, at a, the URL, which ends at b, and c is the first ? in  *)
(* it or its end; and the path leads to the place meant, a directory to    *)
(* its index.html.  This is the reading of the line that the loops below   *)
(* are to come to, not the loops.                                          *)
LeadsTo(u, place) ==
  LET p == Steps(PathOf(u)) IN
  /\ Spelt(p, PathOf(u)) => place = IF IsDir(p) THEN Append(p, "index") ELSE p
  /\ place \in Pages => Spelt(p, PathOf(u))

Divides(l, a, b, c) ==
  LET s == l.text IN
  /\ \A k \in 2..(a - 1) : s[k] = "space"
  /\ \A k \in a..(b - 1) : s[k] # "space" /\ (k < c => s[k] # "question")
  /\ a <= Len(s) => s[a] # "space"
  /\ b <= Len(s) => s[b] = "space"
  /\ c < b => s[c] = "question"
  /\ l.asks = (c < b) /\ l.query = SubSeq(s, c + 1, b - 1)
  /\ LeadsTo(SubSeq(s, a, (IF l.method = "GET" THEN c ELSE b) - 1), l.place)

Means(l) ==
  LET s == l.text IN
  /\ \A m \in {"GET", "POST"} : l.method = m <=> s # <<>> /\ s[1] = m /\ (Len(s) > 1 => s[2] = "space")
  /\ l.method # "other" =>
       \E a \in 2..(Len(s) + 1) : \E b \in a..(Len(s) + 1) : \E c \in a..b : Divides(l, a, b, c)

ASSUME LinesMean == \A l \in Lines : Means(l)
-----------------------------------------------------------------------------
(* The loops over the line.                                                *)

FirstAt(s, i, S) == IF \E k \in i..Len(s) : s[k] \in S
                      THEN CHOOSE k \in i..Len(s) : s[k] \in S /\ \A m \in i..(k - 1) : s[m] \notin S
                      ELSE Len(s) + 1
AtMost(s, n) == SubSeq(s, 1, IF n < Len(s) THEN n ELSE Len(s))
Word(s, i)   == SubSeq(s, i, FirstAt(s, i, {"space"}) - 1)

(* The method and the URL, each no longer than its array.  (Mutants forget *)
(* the first array, and lose the last token of the URL.)                   *)
MethodOfWhole(s) == Word(s, 1)
MethodOf(s)   == AtMost(Word(s, 1), MethodSize - 1)
UrlOfShort(s) == LET w == Word(s, FirstAt(s, Len(MethodOf(s)) + 1, Tokens \ {"space"}))
                 IN AtMost(w, Len(w) - 1)
UrlOf(s)      == AtMost(Word(s, FirstAt(s, Len(MethodOf(s)) + 1, Tokens \ {"space"})), LineSize - 1)

(* What precedes and what follows the first ?.  (Mutants: the last ?, and  *)
(* a query that goes without a program.)                                   *)
Question(u)   == FirstAt(u, 1, {"question"})
QueryLast(u)  == SubSeq(u, 1 + CHOOSE k \in 0..Len(u) : /\ k = 0 \/ u[k] = "question"
                                                       /\ \A m \in (k + 1)..Len(u) : u[m] # "question", Len(u))
QueryOf(u)    == SubSeq(u, Question(u) + 1, Len(u))

AnyNoQuery(m, u) == m = <<"POST">>
Cgi(m, u)        == m = <<"POST">> \/ (m = <<"GET">> /\ Question(u) <= Len(u))

ReadLine ==
  /\ pc = "line"
  /\ method' = MethodOf(line.text)
  /\ LET u == UrlOf(line.text) IN
     /\ url' = IF method' = <<"GET">> THEN AtMost(u, Question(u) - 1) ELSE u
     /\ query' = IF method' = <<"GET">> THEN QueryOf(u) ELSE u
     /\ cgi' = Cgi(method', u)
  /\ pc' = IF method' \in {<<"GET">>, <<"POST">>} THEN "stat" ELSE "bad_request"
  /\ UNCHANGED <<line, text, edits, path, size, found, sent, file, versions>>
-----------------------------------------------------------------------------
(* A directory stands for its index.html, but st_size stays its own.       *)
Stat ==
  LET p == Steps(PathOf(url)) IN
  /\ pc = "stat"
  /\ IF ~Finds(p, PathOf(url))
       THEN /\ found' = "none" /\ pc' = "not_found"
            /\ UNCHANGED <<path, cgi, size>>
       ELSE /\ found' = IF p = <<"cgi">> THEN "cgi"
                        ELSE IF ~IsDir(p) THEN "page"
                        ELSE IF p = <<"bare">> \/ text[Append(p, "index")] = Absent THEN "bare" ELSE "dir"
            /\ path' = IF IsDir(p) THEN Append(p, "index") ELSE p
            /\ cgi' = (cgi \/ p = <<"cgi">>)
            /\ size' = IF p \in Pages THEN Len(text[p]) ELSE DirSize
            /\ pc' = IF cgi' THEN "cgi_head" ELSE "open"
  /\ versions' = IF line.place \in Pages THEN {text[line.place]} ELSE {}
  /\ UNCHANGED <<line, text, edits, method, url, query, sent, file>>

Open ==
  /\ pc = "open"
  /\ IF path \in Pages /\ text[path] # Absent
       THEN pc' = "sendfile" /\ opened' = text[path] /\ linked' = TRUE
       ELSE pc' = "html_404" /\ UNCHANGED <<opened, linked>>
  /\ UNCHANGED <<line, text, edits, method, url, query, cgi, path, size, found, sent, written, versions>>

(* sendfile() goes on until st_size bytes are out or the file ends, which   *)
(* it may by then have come to do elsewhere; then the file is closed.  (A   *)
(* mutant counts one less.)                                                *)
CopiesLess(n, k, t) == k + 1 < n /\ k < Len(t)
Copies(n, k, t)     == k < n /\ k < Len(t)

SendFile ==
  /\ pc = "sendfile"
  /\ IF Copies(size, Len(sent), opened)
       THEN sent' = Append(sent, opened[Len(sent) + 1]) /\ UNCHANGED <<pc, linked>>
       ELSE pc' = "close" /\ linked' = FALSE /\ UNCHANGED sent
  /\ UNCHANGED <<line, text, edits, method, url, query, cgi, path, size, found, opened, written, versions>>

(* Somebody writes a page anew, in place or into another file, or deletes  *)
(* it; only what is written in place is seen through an open descriptor.   *)
WriteInto(p, t) == linked /\ p = path /\ t # Absent /\ opened' = t /\ written' = TRUE /\ UNCHANGED linked
Replace(p)      == linked' = (linked /\ p # path) /\ UNCHANGED <<opened, written>>

Edit ==
  /\ edits < MaxEdits /\ edits' = edits + 1
  /\ \E p \in Pages, t \in Texts \cup {Absent} :
       /\ text' = [text EXCEPT ![p] = t]
       /\ versions' = IF p = line.place /\ pc \notin {"line", "stat"} THEN versions \cup {t} ELSE versions
       /\ WriteInto(p, t) \/ Replace(p)
  /\ UNCHANGED <<line, thread>>

Over == pc \in {"bad_request", "not_found", "cgi_head", "html_404", "close"} /\ UNCHANGED vars

Next == ReadLine \/ Stat \/ Open \/ SendFile \/ Edit \/ Over

Spec == Init /\ [][Next]_vars
-----------------------------------------------------------------------------
TypeOK ==
  /\ line \in Lines /\ text \in [Pages -> Texts \cup {Absent}] /\ edits \in 0..MaxEdits
  /\ pc \in {"line", "stat", "open", "sendfile", "bad_request", "not_found", "cgi_head", "html_404", "close"}
  /\ method \in Seq(Tokens) /\ Len(method) < MethodSize
  /\ url \in Seq(Tokens) /\ query \in Seq(Tokens) /\ Len(url) < LineSize /\ Len(query) < LineSize
  /\ cgi \in BOOLEAN /\ path \in Seq(Tokens) /\ size \in Nat /\ found \in Files
  /\ opened \in Texts \cup {Absent} /\ linked \in BOOLEAN /\ written \in BOOLEAN
  /\ sent \in Seq(Nat) /\ Len(sent) <= size
  /\ versions \subseteq Texts \cup {Absent}

(* The line is understood as it was meant, and the thread goes where Route *)
(* of HttpRequest says: the requests of Httpd are what these lines come to. *)
Meant == [method |-> line.method, query |-> line.asks, file |-> found, len |-> "zero"]

Routed ==
  /\ pc \in {"bad_request", "not_found", "cgi_head", "open"} => pc = Route(Meant)
  /\ pc = "cgi_head" /\ found \in Programs => path = line.place

(* A program gets the query as it stands in the URL, from the first ? to   *)
(* the next blank.                                                         *)
QueryKept == pc = "cgi_head" /\ line.method = "GET" => query = line.query

(* What goes out of a page comes from texts it has had since stat(), each   *)
(* byte at its place.  Unless somebody writes into the file while it is    *)
(* open it comes from one of them, cut where another of them ends, or to   *)
(* the size of the directory by whose name it was asked for.  And a page   *)
(* asked for by its own name goes out whole if it has had one text only.   *)
(* (Whoever edits between stat() and sendfile() does make the code send    *)
(* the beginning of a page, or the beginning of one text and the end of    *)
(* another, but nothing else.)                                             *)
Has(v, k) == v # Absent /\ k <= Len(v)

PageWhole ==
  pc = "close" =>
    /\ \A k \in DOMAIN sent : \E v \in versions : Has(v, k) /\ sent[k] = v[k]
    /\ ~written => \E v, w \in versions : v # Absent /\ w # Absent /\
                      sent = AtMost(v, IF found = "page" THEN Len(w) ELSE DirSize)
    /\ found = "page" => \A v \in versions : versions = {v} => sent = v

(* A page is called missing, at stat() or at open(), only if it was not    *)
(* there at some moment since stat().                                      *)
MissingOnly ==
  pc \in {"not_found", "html_404"} /\ line.place \in Pages => Absent \in versions
=============================================================================
