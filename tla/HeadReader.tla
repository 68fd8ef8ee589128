----------------------------- MODULE HeadReader -----------------------------
(***************************************************************************)
(* The bytes of one connection, from get_line() of httpd.c through the     *)
(* header loops of exe_cgi() and clear_header() to the copy of the body    *)
(* into the pipe of the CGI program.  The client sends a byte at a time    *)
(* and may leave; the thread blocks in recv() for as long as it has not.   *)
(*                                                                         *)
(* Bytes are tokens: CR, LF, the name Content-Length (14 bytes, one token), *)
(* colon, space, minus, digits, the = and & of a form, x for any other.    *)
(***************************************************************************)
EXTENDS Integers, Sequences

CONSTANTS
  MaxLen,    \* the size of the buffers given to get_line
  Requests   \* what the client may send

Digits == {"0", "1", "2", "3"}
Value  == [d \in Digits |-> CASE d = "0" -> 0 [] d = "1" -> 1 [] d = "2" -> 2 [] d = "3" -> 3]
Tokens == {"CR", "LF", "name", "colon", "space", "minus", "eq", "amp", "x"} \cup Digits
NUL    == "NUL"

(* A request is its lines without their ends, the bytes that end a line,   *)
(* whether it is a POST, the length it announces, and the body; head is    *)
(* the lines as they are sent, the blank one last, and from is where in it *)
(* each of them begins.                                                    *)
(* When it is the form of the calculator, form has the numbers filled in,  *)
(* and a GET has what follows the ? of its URL in query.                   *)
Request == [lines : Seq(Seq(Tokens)), end : {<<"CR", "LF">>, <<"LF">>, <<"CR">>},
            post : BOOLEAN, announced : Int, body : Seq(Tokens), head : Seq(Tokens), from : Seq(Nat),
            query : Seq(Tokens), form : Seq(Nat)]

ASSUME MaxLenAssumption == MaxLen \in Nat /\ MaxLen > 1
ASSUME RequestsAssumption == \A r \in Requests : r \in Request /\ r.lines # <<>>

(* The i-th line as it is sent is these bytes of head and no others.       *)
LineOf(r, i) == IF i <= Len(r.lines) THEN r.lines[i] ELSE <<>>
EndOf(r, i)  == IF i <= Len(r.lines) THEN r.from[i + 1] ELSE Len(r.head)

AsSent(r) ==
  /\ Len(r.from) = Len(r.lines) + 1 /\ r.from[1] = 0
  /\ \A i \in DOMAIN r.from :
       /\ EndOf(r, i) = r.from[i] + Len(LineOf(r, i)) + Len(r.end) /\ EndOf(r, i) <= Len(r.head)
       /\ \A k \in DOMAIN LineOf(r, i) : /\ r.head[r.from[i] + k] = LineOf(r, i)[k]
                                        /\ LineOf(r, i)[k] \notin {"CR", "LF"}
       /\ \A k \in DOMAIN r.end : r.head[r.from[i] + Len(LineOf(r, i)) + k] = r.end[k]

ASSUME SentAssumption == \A r \in Requests : AsSent(r)

VARIABLES
  req,     \* what this client sends
  sent,    \* how many of its bytes it has sent
  left,    \* it has closed its side
  read,    \* how many bytes the thread has taken out of the receive buffer
  at,      \* the call in get_line: "recv", "peek", or "return"
  buf,     \* the line so far
  phase,   \* "request", "headers", "feed", "done", or "refused"
  lines,   \* every line get_line returned
  length,  \* content_length
  char,    \* the last byte of the feeding loop
  posted   \* what is in the pipe to the program

client == <<req, sent, left>>
vars   == <<req, sent, left, read, at, buf, phase, lines, length, char, posted>>

Stream == req.head \o req.body

Init ==
  /\ req \in Requests
  /\ sent = 0 /\ left = FALSE
  /\ read = 0 /\ at = "recv" /\ buf = <<>>
  /\ phase = "request" /\ lines = <<>>
  /\ length = 0 /\ char = NUL /\ posted = <<>>
-----------------------------------------------------------------------------
SendByte ==
  /\ ~left /\ sent < Len(Stream)
  /\ sent' = sent + 1
  /\ UNCHANGED <<req, left, read, at, buf, phase, lines, length, char, posted>>

Leave ==
  /\ ~left /\ left' = TRUE
  /\ UNCHANGED <<req, sent, read, at, buf, phase, lines, length, char, posted>>

(* recv() returns a byte, or 0 when there is none and the client has left. *)
Available == read < sent
AtEnd     == ~Available /\ left
Next1     == Stream[read + 1]
-----------------------------------------------------------------------------
(* get_line                                                                *)

Reading == phase \in {"request", "headers"}

(* Where get_line goes on after it has stored a byte.  (A mutant leaves no  *)
(* room for the NUL at the end.)                                           *)
AfterLast(line) == IF Len(line) < MaxLen /\ line[Len(line)] # "LF" THEN "recv" ELSE "return"
After(line) == IF Len(line) < MaxLen - 1 /\ line[Len(line)] # "LF" THEN "recv" ELSE "return"

Store(b) ==
  /\ buf' = Append(buf, b)
  /\ at' = After(buf')

RecvByte ==
  /\ Reading /\ at = "recv" /\ Available
  /\ read' = read + 1
  /\ IF Next1 = "CR" THEN at' = "peek" /\ UNCHANGED buf ELSE Store(Next1)
  /\ UNCHANGED <<client, phase, lines, length, char, posted>>

RecvEnd ==
  /\ Reading /\ at = "recv" /\ AtEnd
  /\ at' = "return"
  /\ UNCHANGED <<client, read, buf, phase, lines, length, char, posted>>

(* After a CR the next byte is looked at: a LF is taken with it, anything   *)
(* else is left for the next line.  The look blocks until there is a byte. *)
(* (Mutants: a LF that is looked at and not taken, a byte that is taken     *)
(* though it is none.)                                                     *)
PeekOnly ==
  /\ Reading /\ at = "peek" /\ Available /\ Next1 = "LF"
  /\ Store("LF")
  /\ UNCHANGED <<client, read, phase, lines, length, char, posted>>

PeekTakes ==
  /\ Reading /\ at = "peek" /\ Available /\ Next1 = "LF"
  /\ read' = read + 1
  /\ Store("LF")
  /\ UNCHANGED <<client, phase, lines, length, char, posted>>

PeekDrops ==
  /\ Reading /\ at = "peek" /\ Available /\ Next1 # "LF"
  /\ read' = read + 1
  /\ Store("LF")
  /\ UNCHANGED <<client, phase, lines, length, char, posted>>

PeekLeaves ==
  /\ Reading /\ at = "peek" /\ ((Available /\ Next1 # "LF") \/ AtEnd)
  /\ Store("LF")
  /\ UNCHANGED <<client, read, phase, lines, length, char, posted>>
-----------------------------------------------------------------------------
(* The header loops.                                                       *)

(* atoi(): a blank, a sign, and digits, of which no request here has more  *)
(* than two.                                                               *)
IsDigit(s, i) == i <= Len(s) /\ s[i] \in Digits
Number(s, i)  == IF ~IsDigit(s, i) THEN 0
                 ELSE IF IsDigit(s, i + 1) THEN 10 * Value[s[i]] + Value[s[i + 1]]
                 ELSE Value[s[i]]
Atoi(s) ==
  LET start == IF s # <<>> /\ s[1] = "space" THEN 2 ELSE 1
  IN IF start <= Len(s) /\ s[start] = "minus" THEN -Number(s, start + 1) ELSE Number(s, start)

(* The value is taken from &buf[16]: 14 bytes of name, the colon, one more. *)
(* (A mutant begins one byte late.)                                        *)
IsLength(line)     == line # <<>> /\ line[1] = "name"
LengthOfLate(line) == Atoi(SubSeq(line, 5, Len(line)))
LengthOf(line)     == Atoi(SubSeq(line, 4, Len(line)))

LastHeader(line) == line = <<>> \/ line = <<"LF">>

(* get_line returns.  After the request line come the headers; an empty    *)
(* one has no method and is refused.  exe_cgi looks for the length in the  *)
(* headers of a POST; anything else goes through clear_header.             *)
Return ==
  /\ Reading /\ at = "return"
  /\ lines' = Append(lines, buf)
  /\ length' = IF phase = "headers" /\ req.post /\ IsLength(buf) THEN LengthOf(buf) ELSE length
  /\ phase' = IF ~LastHeader(buf) THEN "headers"
              ELSE IF phase = "request" THEN "refused"
              ELSE IF ~req.post THEN "done"
              ELSE IF length' = -1 THEN "refused" ELSE "feed"
  /\ buf' = <<>> /\ at' = "recv"
  /\ UNCHANGED <<client, read, char, posted>>
-----------------------------------------------------------------------------
(* The parent's loop: recv() is not looked at, so that without a byte the  *)
(* last one is written once more.  (Mutants: a loop that ends with the     *)
(* input, and one that forgets the last byte.)                             *)
FeedForgets ==
  /\ phase = "feed" /\ Len(posted) < length
  /\ \/ Available /\ char' = Next1 /\ read' = read + 1
     \/ AtEnd /\ char' = NUL /\ UNCHANGED read
  /\ posted' = Append(posted, char')
  /\ UNCHANGED <<client, at, buf, phase, lines, length>>

Feed ==
  /\ phase = "feed" /\ Len(posted) < length
  /\ \/ Available /\ char' = Next1 /\ read' = read + 1
     \/ AtEnd /\ UNCHANGED <<char, read>>
  /\ posted' = Append(posted, char')
  /\ UNCHANGED <<client, at, buf, phase, lines, length>>

FeedEndsEarly ==
  /\ phase = "feed" /\ (Len(posted) >= length \/ AtEnd)
  /\ phase' = "done"
  /\ UNCHANGED <<client, read, at, buf, lines, length, char, posted>>

FeedEnds ==
  /\ phase = "feed" /\ Len(posted) >= length
  /\ phase' = "done"
  /\ UNCHANGED <<client, read, at, buf, lines, length, char, posted>>
-----------------------------------------------------------------------------
Thread == RecvByte \/ RecvEnd \/ PeekTakes \/ PeekLeaves \/ Return \/ Feed \/ FeedEnds

Over == phase \in {"done", "refused"} /\ UNCHANGED vars

Next == SendByte \/ Leave \/ Thread \/ Over

Spec == Init /\ [][Next]_vars
-----------------------------------------------------------------------------
TypeOK ==
  /\ req \in Requests
  /\ sent \in 0..Len(Stream) /\ left \in BOOLEAN /\ read \in 0..sent
  /\ at \in {"recv", "peek", "return"}
  /\ buf \in Seq(Tokens) /\ Len(buf) < MaxLen
  /\ phase \in {"request", "headers", "feed", "done", "refused"}
  /\ lines \in Seq(Seq(Tokens))
  /\ length \in Int /\ char \in Tokens \cup {NUL}
  /\ posted \in Seq(Tokens \cup {NUL})

(* get_line gives the lines the client sent, each with one LF for its end, *)
(* and the blank one last, whichever way the client ends its lines.        *)
Short == \A i \in DOMAIN req.lines : Len(req.lines[i]) < MaxLen - 1

LineByLine == Short /\ ~left =>
  /\ Len(lines) <= Len(req.lines) + 1
  /\ \A i \in DOMAIN lines :
       lines[i] = IF i <= Len(req.lines) THEN Append(req.lines[i], "LF") ELSE <<"LF">>

(* The code takes a blank behind the colon of Content-Length for granted;   *)
(* without it the first digit of the length is passed over.                *)
Spaced(r) == \A i \in 2..Len(r.lines) : IsLength(r.lines[i]) =>
               Len(r.lines[i]) > 2 /\ r.lines[i][3] = "space"

(* The headers end where the client ended them, so nothing but the body    *)
(* goes to the program, and the body goes there whole, except that of a    *)
(* request without the blank.                                              *)
BodyWhole == phase \in {"feed", "done"} /\ ~left =>
  /\ read = Len(req.head) + Len(posted)
  /\ posted = SubSeq(req.body, 1, Len(posted))
  /\ phase = "done" /\ req.post /\ Spaced(req) => posted = req.body

(* Whoever leaves, and wherever: the program gets the bytes of the body     *)
(* that came, in their order and each once, and then only the last of them *)
(* again, or NULs if none came.                                            *)
Padded == phase \in {"feed", "done"} =>
  LET came == IF read > Len(req.head) THEN read - Len(req.head) ELSE 0 IN
  /\ came <= Len(posted)
  /\ \A k \in DOMAIN posted :
       posted[k] = IF k <= came THEN req.body[k] ELSE IF came = 0 THEN NUL ELSE req.body[came]

(* The length a POST announces is known when its headers are through, if   *)
(* there is a blank before it.                                             *)
LengthKnown == phase \in {"feed", "done"} /\ ~left /\ req.post /\ Spaced(req) => length = req.announced

(* What the three need of a request: no blank line before the last; no     *)
(* line that ends where a buffer is full, of which edge_line tells; the    *)
(* name Content-Length at the beginning of lines only, which then fit the  *)
(* buffer, with the length from the fourth token on, no less than the      *)
(* body's; and no lone CR before a LF of the body, which would be taken    *)
(* for one end.                                                            *)
Announces(r) ==
  /\ Len(r.body) <= r.announced \/ r.body = <<>>
  /\ \A i \in 2..Len(r.lines) : IsLength(r.lines[i]) =>
       Len(r.lines[i]) < MaxLen - 1 /\ Atoi(SubSeq(r.lines[i], 4, Len(r.lines[i]))) = r.announced
  /\ (\A i \in 2..Len(r.lines) : ~IsLength(r.lines[i])) => r.announced = 0

Plain ==
  \A r \in Requests :
    /\ \A i \in 2..Len(r.lines) : r.lines[i] # <<>>
    /\ \A i \in DOMAIN r.lines : \A c \in 1..Len(r.lines[i]) : Len(r.lines[i]) # c * (MaxLen - 1)
    /\ \A i \in DOMAIN r.lines : \A k \in 2..Len(r.lines[i]) : r.lines[i][k] # "name"
    /\ r.end = <<"CR">> /\ r.body # <<>> => r.body[1] # "LF"
    /\ r.post /\ Spaced(r) => Announces(r)

(* The program gets as many bytes as CONTENT_LENGTH tells it to read, even *)
(* from a client that left: it never waits for more, which would be for    *)
(* ever, the parent closing the pipe only after the program has ended.     *)
PipeFilled == phase = "done" /\ length >= 0 => Len(posted) = length
=============================================================================
