---------------------------- MODULE HttpdAnswers ----------------------------
(***************************************************************************)
(* What clients of Httpd are told, for any number of clients and           *)
(* descriptors and any limits: every failure is reported, and no reply is  *)
(* sent while input it depends on is unread.                               *)
(***************************************************************************)
EXTENDS HttpdProofs, SequenceTheorems

USE DEF Roles

NotYet  == {"none", "orphan", "request"}
OfHtml  == {"open", "html_404", "html_head", "sendfile", "html_500", "close_file"}
OfCgi   == {"cgi_head", "cgi_500", "pipe_in", "pipe_out", "pipe_500", "echoed_pipe",
            "drop_in", "fork", "parent", "feed", "relay", "close_pipes", "wait"}
Minding == {"parent", "feed", "relay"}
Final   == {"relay", "close_pipes", "wait", "close", "done"}

Said    == {"200", "400", "404", "500", "page", "output", "body"}

NoLength(r) == r.method = "POST" /\ r.len = "minus1"

(* The request a thread works on is the one its client sent; before it has *)
(* read it, the head is still there or the client has said nothing.        *)
Asked(c) ==
  IF pc[c] \in NotYet
    THEN IF "head" \in unread[c] THEN stage[c] \notin {"away", "idle"}
         ELSE req[c] = NoRequest /\ stage[c] \notin {"head", "body"}
    ELSE job[c] = req[c] /\ stage[c] \notin {"away", "idle"}

(* The labels a request leads to. *)
OnWay(l, r) ==
  /\ l \in {"bad_request", "not_found"} => Route(r) = l
  /\ l = "echoed" => Route(r) \in {"bad_request", "not_found"}
  /\ l \in OfHtml => Route(r) = "open"
  /\ l \in {"html_head", "sendfile", "close_file"} => r.file # "bare"
  /\ l \in OfCgi => Route(r) = "cgi_head"
  /\ l \in OfCgi \ {"cgi_head", "cgi_500"} => ~NoLength(r)
  /\ l \in {"close", "close2", "echoed2"} => Route(r) \in {"open", "cgi_head"}
  /\ l = "feed" => HasBody(r)

(* The error a request that did not go well was answered with. *)
Reported(r) == IF Route(r) = "open" THEN <<"404">>
               ELSE IF NoLength(r) THEN <<"500">> ELSE <<"200", "500">>

(* What a client that is still there has been sent when its thread is at a *)
(* label.                                                                  *)
SentAt(l, r) ==
  CASE l \in NotYet \cup {"bad_request", "not_found", "open", "html_404", "html_head", "cgi_head"}
         -> {<<>>}
    [] l = "cgi_500" -> {IF NoLength(r) THEN <<>> ELSE <<"200">>}
    [] l \in {"sendfile", "pipe_in", "pipe_out", "pipe_500", "fork", "parent", "feed"} -> {<<"200">>}
    [] l = "relay" -> {<<"200">>, <<"200", "output">>}
    [] l \in {"echoed", "close_file", "close_pipes", "wait", "close", "done"} -> {Proper(r)}
    [] l \in {"echoed2", "echoed_pipe", "drop_in", "close2"} -> {Reported(r)}
    [] OTHER -> {}

Told(c) == stage[c] # "gone" => Sent(c) \in SentAt(pc[c], job[c])

(* What a client that is still there has sent and nobody has read. *)
Fetched(c) == stage[c] # "gone" =>
  /\ pc[c] \in NotYet => unread[c] \subseteq {"head", "body"}
  /\ pc[c] \notin NotYet /\ Route(job[c]) # "bad_request" => unread[c] \subseteq {"body"}
  /\ "body" \in unread[c] => stage[c] = "body" /\ HasBody(req[c])
  /\ pc[c] \in Final /\ Route(job[c]) = "cgi_head" /\ HasBody(job[c])
       => unread[c] = {} /\ stage[c] = "body"

(* The child of a thread, and what is left to be relayed.                  *)
Relayed(c) ==
  /\ pc[c] \in NotYet \cup {"cgi_head", "pipe_in", "pipe_out", "fork"}
       => child[c] = "none" /\ ~out[c] /\ ~fed[c]
  /\ child[c] = "running"
       => pc[c] \in Minding /\ ~out[c] /\ {Obj("in_r", c), Obj("out_w", c)} \subseteq inherited[c]
  /\ pc[c] \in Minding => child[c] \in {"running", "zombie"}
  /\ pc[c] \in {"parent", "feed"} => ~fed[c] /\ (ReadsBody(job[c]) => child[c] = "running")
  /\ pc[c] \in Minding /\ stage[c] # "gone" =>
       /\ child[c] = "running" \/ out[c] => Sent(c) = <<"200">>
       /\ out[c] => job[c].file \in Programs
       /\ child[c] = "zombie" /\ ~out[c] => Sent(c) = Proper(job[c])

Course(c) == Asked(c) /\ OnWay(pc[c], job[c]) /\ Told(c) /\ Fetched(c) /\ Relayed(c)

(* The inductive invariant, up to the first second close. *)
OnCourse == up /\ NoSecondClose => \A c \in Clients : Course(c)
-----------------------------------------------------------------------------
(* What a number a thread has to close denotes is open, and its own.       *)
LEMMA OwnDenoted ==
  ASSUME HoldsOwn, NEW c \in Clients, NEW r \in Roles, Holds(c, r)
  PROVE  At(c, r) = Obj(r, c) /\ Open(Obj(r, c))
BY DEF HoldsOwn, At, Open

(* Leaving out who sent it keeps the order. *)
LEMMA WhatsType ==
  ASSUME NEW s \in Seq(Piece)
  PROVE  /\ [i \in DOMAIN s |-> s[i].what] \in Seq(Said)
         /\ Len([i \in DOMAIN s |-> s[i].what]) = Len(s)
<1> DEFINE t == [i \in DOMAIN s |-> s[i].what]
<1>1. Len(s) \in Nat /\ DOMAIN s = 1 .. Len(s) /\ \A i \in 1 .. Len(s) : s[i] \in Piece
  OBVIOUS
<1>2. \A i \in 1 .. Len(s) : s[i].what \in Said
  BY <1>1 DEF Piece, Said
<1>3. t \in [1 .. Len(s) -> Said]
  BY <1>1, <1>2
<1> HIDE DEF t
<1>4. t \in Seq(Said) /\ Len(t) = Len(s)
  BY <1>1, <1>3
<1> QED
  BY <1>4 DEF t

(* What is written to a client's connection comes last.                    *)
LEMMA Tells ==
  ASSUME TypeOK, NEW c \in Clients, NEW w \in Said, Receives(Obj("sock", c), c, w)
  PROVE  /\ \A d \in Clients \ {c} : got'[d] = got[d]
         /\ stage[c] # "gone" => Sent(c)' = Append(Sent(c), w)
<1>1. \A d \in Clients \ {c} : got'[d] = got[d]
  BY DEF Receives, Obj
<1>2. ASSUME stage[c] # "gone" PROVE Sent(c)' = Append(Sent(c), w)
  <2> DEFINE p == [by |-> c, what |-> w]
  <2>1. got[c] \in Seq(Piece) /\ got'[c] = Append(got[c], p)
    BY <1>2 DEF TypeOK, Receives
  <2>2. p \in Piece /\ p.what = w
    BY DEF Piece, Said
  <2> HIDE DEF p
  <2>3. got'[c] \in Seq(Piece) /\ Len(got'[c]) = Len(got[c]) + 1
    BY <2>1, <2>2
  <2>4. \A i \in 1 .. Len(got'[c]) : got'[c][i] = IF i = Len(got[c]) + 1 THEN p ELSE got[c][i]
    BY <2>1, <2>2
  <2>5. Sent(c) \in Seq(Said) /\ Len(Sent(c)) = Len(got[c])
    BY <2>1, WhatsType DEF Sent
  <2>6. Sent(c)' \in Seq(Said) /\ Len(Sent(c)') = Len(got[c]) + 1
    BY <2>3, WhatsType DEF Sent
  <2>7. Append(Sent(c), w) \in Seq(Said) /\ Len(Append(Sent(c), w)) = Len(got[c]) + 1
    BY <2>5
  <2>8. ASSUME NEW i \in 1 .. Len(Sent(c)') PROVE Sent(c)'[i] = Append(Sent(c), w)[i]
    <3>1. Sent(c)'[i] = got'[c][i].what
      BY <2>3, <2>6, <2>8 DEF Sent
    <3>2. CASE i = Len(got[c]) + 1
      BY <2>2, <2>4, <2>5, <2>3, <2>6, <3>1, <3>2
    <3>3. CASE i \in 1 .. Len(got[c])
      <4>1. Sent(c)[i] = got[c][i].what
        BY <2>1, <3>3 DEF Sent
      <4>2. Append(Sent(c), w)[i] = Sent(c)[i]
        BY <2>5, <3>3
      <4>3. got'[c][i] = got[c][i]
        BY <2>1, <2>3, <2>4, <3>3
      <4> QED
        BY <3>1, <4>1, <4>2, <4>3
    <3>4. Len(got[c]) \in Nat /\ i \in 1 .. Len(got[c]) + 1
      BY <2>1, <2>6
    <3>5. i = Len(got[c]) + 1 \/ i \in 1 .. Len(got[c])
      BY <3>4
    <3> QED
      BY <3>2, <3>3, <3>5
  <2> QED
    BY <2>6, <2>7, <2>8, SeqEqual
<1> QED
  BY <1>1, <1>2

(* What is written to a pipe is not sent to a client.                      *)
LEMMA TellsNobody ==
  ASSUME TypeOK, NEW c \in Clients, NEW w, NEW r \in Roles \ {"sock"}, Receives(Obj(r, c), c, w)
  PROVE  got' = got
BY DEF TypeOK, Receives, Obj

(* Everything Course says about a client.                                  *)
Same(d) ==
  /\ pc'[d] = pc[d] /\ job'[d] = job[d] /\ child'[d] = child[d] /\ inherited'[d] = inherited[d]
  /\ fed'[d] = fed[d] /\ out'[d] = out[d] /\ stage'[d] = stage[d] /\ unread'[d] = unread[d]
  /\ req'[d] = req[d] /\ got'[d] = got[d]

(* A client whose variables stay the same stays on its course.             *)
LEMMA SameCourse == ASSUME NEW d \in Clients, Same(d), Course(d) PROVE Course(d)'
<1>1. Sent(d)' = Sent(d)
  BY DEF Same, Sent
<1> QED
  BY <1>1 DEF Same, Course, Asked, Told, Fetched, Relayed

(***************************************************************************)
(* What the calls that act on a remembered number do while the number is   *)
(* the thread's own.                                                       *)
(***************************************************************************)
LEMMA ReadOwn ==
  ASSUME TypeOK, HoldsOwn, NEW c \in Clients, ReadRequest(c)
  PROVE  /\ pc[c] = "request"
         /\ \/ /\ "head" \in unread[c]
               /\ unread' = [unread EXCEPT ![c] = (@ \ {"head"}) \cup Leaves(req[c])]
               /\ job' = [job EXCEPT ![c] = req[c]]
               /\ Goto(c, Route(req[c]))
            \/ /\ stage[c] = "gone" /\ "head" \notin unread[c]
               /\ job' = [job EXCEPT ![c] = NoRequest]
               /\ Goto(c, Route(NoRequest))
               /\ UNCHANGED unread
         /\ UNCHANGED <<up, queue, fd, loc, children, stage, req, got>>
<1>1. At(c, "sock") = Obj("sock", c)
  BY OwnDenoted DEF ReadRequest, Holds, HeldAt, Labels
<1>2. At(c, "sock").kind = "sock" /\ At(c, "sock").of = c
  BY <1>1 DEF Obj
<1> QED
  BY <1>2 DEF ReadRequest

(* While the accounts hold, sendfile() sends the page to the thread's own  *)
(* client, or that has left,                                               *)
LEMMA SendFileOwn ==
  ASSUME TypeOK, HoldsOwn, NEW c \in Clients, SendFile(c)
  PROVE  /\ pc[c] = "sendfile"
         /\ \/ /\ Receives(Obj("sock", c), c, "page")
               /\ Goto(c, "close_file")
               /\ UNCHANGED fd
            \/ /\ stage[c] = "gone"
               /\ fd' = CloseIn(fd, c, {"file"})
               /\ Goto(c, "html_500")
               /\ UNCHANGED got
         /\ UNCHANGED <<up, queue, loc, job, children, stage, unread, req>>
<1>1. At(c, "sock") = Obj("sock", c) /\ At(c, "file") = Obj("file", c)
  BY OwnDenoted DEF SendFile, Holds, HeldAt, Labels
<1>2. At(c, "sock").kind = "sock" /\ At(c, "sock").of = c /\ At(c, "file").kind = "file"
  BY <1>1 DEF Obj
<1>3. ASSUME Write(Obj("sock", c), c, "page") PROVE UNCHANGED <<fed, out>>
  BY <1>3 DEF TypeOK, Write, Obj
<1> QED
  BY <1>1, <1>2, <1>3 DEF SendFile, Write, children

(* the body that is fed comes from it,                                     *)
LEMMA FeedOwn ==
  ASSUME TypeOK, HoldsOwn, NEW c \in Clients, Feed(c)
  PROVE  /\ pc[c] = "feed" /\ Goto(c, "relay")
         /\ \/ "body" \in unread[c] /\ unread' = [unread EXCEPT ![c] = @ \ {"body"}]
            \/ stage[c] = "gone" /\ UNCHANGED unread
         /\ fed' = [fed EXCEPT ![c] = TRUE]
         /\ UNCHANGED <<up, queue, fd, loc, job, child, inherited, out, stage, req, got>>
<1>1. At(c, "sock") = Obj("sock", c) /\ At(c, "in_w") = Obj("in_w", c)
  BY OwnDenoted DEF Feed, Holds, HeldAt, Labels
<1>2. At(c, "sock").kind = "sock" /\ At(c, "sock").of = c
  BY <1>1 DEF Obj
<1>3. Write(Obj("in_w", c), c, "body")
  BY <1>1 DEF Feed
<1>4. got' = got
  BY <1>3, TellsNobody DEF Write
<1>5. fed' = [fed EXCEPT ![c] = TRUE] /\ out' = out
  BY <1>3 DEF TypeOK, Write, Obj
<1> QED
  BY <1>2, <1>4, <1>5 DEF Feed

(* the output of its program goes to it,                                   *)
LEMMA RelayOwn ==
  ASSUME TypeOK, HoldsOwn, NEW c \in Clients, Relay(c)
  PROVE  /\ pc[c] = "relay" /\ out[c]
         /\ Receives(Obj("sock", c), c, "output")
         /\ out' = [out EXCEPT ![c] = FALSE]
         /\ UNCHANGED <<up, queue, fd, threads, child, inherited, fed, stage, unread, req>>
<1>1. At(c, "sock") = Obj("sock", c) /\ At(c, "out_r") = Obj("out_r", c)
  BY OwnDenoted DEF Relay, Holds, HeldAt, Labels
<1>2. At(c, "out_r").kind = "out_r" /\ At(c, "out_r").of = c
  BY <1>1 DEF Obj
<1>3. /\ out[c] /\ out' = [out EXCEPT ![c] = @ /\ FALSE]
      /\ fed' = [fed EXCEPT ![c] = @ /\ TRUE] /\ UNCHANGED <<pc, unread>>
  BY <1>2 DEF Relay
<1>4. out' = [out EXCEPT ![c] = FALSE] /\ fed' = fed
  BY <1>3 DEF TypeOK
<1> QED
  BY <1>1, <1>3, <1>4 DEF Relay, Send, threads

(* and so do the errors                                                    *)
LEMMA EchoOwn ==
  ASSUME TypeOK, HoldsOwn, NEW c \in Clients, EchoError(c)
  PROVE  ErrorExits[pc[c]].code \in Said /\ Receives(Obj("sock", c), c, ErrorExits[pc[c]].code)
<1>0. Holds(c, "sock")
  BY DEF EchoError, ErrorExits, Holds, HeldAt, Labels
<1>1. At(c, "sock") = Obj("sock", c)
  BY <1>0, OwnDenoted
<1> QED
  BY <1>1 DEF EchoError, ErrorExits, Send, Said

(* and the status lines.                                                   *)
LEMMA HeadOwn ==
  ASSUME TypeOK, HoldsOwn, NEW c \in Clients, HtmlHead(c) \/ CgiHead(c), NEW w, Send(c, w)
  PROVE  Receives(Obj("sock", c), c, w)
<1>0. Holds(c, "sock")
  BY DEF HtmlHead, CgiHead, Holds, HeldAt, Labels
<1>1. At(c, "sock") = Obj("sock", c)
  BY <1>0, OwnDenoted
<1> QED
  BY <1>1 DEF Send

(* A step of a thread concerns its own client, as long as the numbers it   *)
(* remembers are its own.                                                  *)
LEMMA OthersSame ==
  ASSUME TypeOK, HoldsOwn, NEW c \in Clients, ThreadStep(c), NEW d \in Clients \ {c}
  PROVE  Same(d)
<1> USE DEF Goto
<1>. /\ DOMAIN pc = Clients /\ DOMAIN job = Clients /\ DOMAIN child = Clients
    /\ DOMAIN inherited = Clients /\ DOMAIN fed = Clients /\ DOMAIN out = Clients
    /\ DOMAIN unread = Clients
  BY DEF TypeOK
<1>0. ASSUME UNCHANGED <<child, inherited, fed, out, stage, req>>, pc'[d] = pc[d],
             job'[d] = job[d], unread'[d] = unread[d], got'[d] = got[d]
      PROVE  Same(d)
  BY <1>0 DEF Same
<1>01. \A w \in Said : Receives(Obj("sock", c), c, w) => got'[d] = got[d]
  BY Tells
<1>1. CASE ReadRequest(c)
  <2>1. PICK r : Goto(c, Route(r)) /\ job' = [job EXCEPT ![c] = r]
    BY <1>1, ReadOwn
  <2>2. unread'[d] = unread[d]
    BY <1>1, ReadOwn
  <2> QED
    BY <1>0, <1>1, <2>1, <2>2 DEF ReadRequest, children
<1>2. CASE EchoError(c)
  BY <1>0, <1>01, <1>2, EchoOwn DEF EchoError, children
<1>3. CASE EchoClose(c) \/ CloseConnection(c) \/ OpenFile(c) \/ CloseFile(c) \/ PipeIn(c) \/ PipeOut(c)
           \/ DropIn(c) \/ ParentCloses(c) \/ RelayEnds(c) \/ ClosePipes(c)
  BY <1>0, <1>3 DEF EchoClose, CloseConnection, OpenFile, CloseFile, PipeIn, PipeOut, MakePipe,
     PipeFails, DropIn, ParentCloses, RelayEnds, ClosePipes, children, clients
<1>4. CASE HtmlHead(c) \/ CgiHead(c)
  <2>1. got'[d] = got[d]
    BY <1>01, <1>4, HeadOwn DEF HtmlHead, CgiHead, Said
  <2> QED
    BY <1>0, <1>4, <2>1 DEF HtmlHead, CgiHead, children
<1>5. CASE SendFile(c)
  BY <1>0, <1>01, <1>5, SendFileOwn DEF Said, children
<1>6. CASE Fork(c) \/ WaitChild(c)
  BY <1>6 DEF Fork, WaitChild, Same, clients
<1>7. CASE Feed(c)
  <2>1. unread'[d] = unread[d] /\ fed'[d] = fed[d]
    BY <1>7, FeedOwn
  <2>2. UNCHANGED <<job, child, inherited, out, stage, req, got>> /\ Goto(c, "relay")
    BY <1>7, FeedOwn
  <2> QED
    BY <2>1, <2>2 DEF Same
<1>8. CASE Relay(c)
  BY <1>01, <1>8, RelayOwn DEF Said, Same, threads
<1> QED
  BY <1>1, <1>2, <1>3, <1>4, <1>5, <1>6, <1>7, <1>8 DEF ThreadStep

(* A thread that goes to a label further on the way of its request, with   *)
(* its client told what is due there, and no child that runs.              *)
LEMMA MoveCourse ==
  ASSUME NEW c \in Clients, NEW l, Course(c), pc'[c] = l,
         job'[c] = job[c], child'[c] = child[c], inherited'[c] = inherited[c], fed'[c] = fed[c],
         out'[c] = out[c], stage'[c] = stage[c], unread'[c] = unread[c], req'[c] = req[c],
         pc[c] \notin NotYet, l \notin NotYet, l \notin Minding, child[c] # "running",
         OnWay(l, job[c]), stage[c] # "gone" => Sent(c)' \in SentAt(l, job[c]),
         l \in Final => pc[c] \in Final \/ ~(Route(job[c]) = "cgi_head" /\ HasBody(job[c])),
         l \in {"cgi_head", "pipe_in", "pipe_out", "fork"} => pc[c] \in {"cgi_head", "pipe_in", "pipe_out"}
  PROVE  Course(c)'
<1>1. Asked(c)' /\ Told(c)'
  BY DEF Course, Asked, Told
<1>2. Fetched(c)'
  BY DEF Course, Fetched
<1>3. Relayed(c)'
  BY DEF Course, Relayed, Minding, NotYet
<1> QED
  BY <1>1, <1>2, <1>3 DEF Course

(* Every route leads to a label of its own, and a page has no body before it. *)
LEMMA Routes ==
  ASSUME NEW r
  PROVE  /\ Route(r) \in {"bad_request", "not_found", "open", "cgi_head"}
         /\ Route(r) = "open" => ~HasBody(r) /\ ~NoLength(r)
BY DEF Route, UsesCgi, HasBody, NoLength

(* The replies that can come of each route. *)
LEMMA Replies ==
  ASSUME NEW r
  PROVE  /\ Route(r) = "bad_request" => Proper(r) = <<"400">>
         /\ Route(r) = "not_found" => Proper(r) = <<"404">>
         /\ Route(r) = "open" => Proper(r) = IF r.file = "bare" THEN <<"404">> ELSE <<"200", "page">>
         /\ Route(r) = "cgi_head" =>
              Proper(r) = IF NoLength(r) THEN <<"500">>
                          ELSE IF r.file \in Programs THEN <<"200", "output">> ELSE <<"200">>
BY DEF Proper, NoLength

(* One piece after another. *)
LEMMA Second ==
  ASSUME NEW S, NEW x \in S, NEW y \in S
  PROVE  Append(<<x>>, y) = <<x, y>>
<1>1. <<x>> \in Seq(S) /\ Len(<<x>>) = 1
  OBVIOUS
<1>2. <<x, y>> \in Seq(S) /\ Len(<<x, y>>) = 2
  OBVIOUS
<1>3. \A i \in 1 .. 2 : <<x, y>>[i] = IF i = 1 THEN x ELSE y
  OBVIOUS
<1>4. Append(<<x>>, y) \in Seq(S) /\ Len(Append(<<x>>, y)) = 2
  BY <1>1, AppendProperties
<1>5. Append(<<x>>, y)[1] = <<x>>[1] /\ Append(<<x>>, y)[2] = y
  BY <1>1, AppendProperties
<1>6. \A i \in 1 .. 2 : Append(<<x>>, y)[i] = IF i = 1 THEN x ELSE y
  BY <1>5
<1> QED
  BY <1>2, <1>3, <1>4, <1>6, SeqEqual

(* How a reply grows, piece by piece.                                      *)
LEMMA Pieces ==
  ASSUME NEW s
  PROVE  /\ s = <<>> => \A w : Append(s, w) = <<w>>
         /\ s = <<"200">> => /\ Append(s, "500") = <<"200", "500">>
                            /\ Append(s, "page") = <<"200", "page">>
                            /\ Append(s, "output") = <<"200", "output">>
<1>1. \A w : Append(<<>>, w) = <<w>>
  OBVIOUS
<1>2. "200" \in Said /\ "500" \in Said /\ "page" \in Said /\ "output" \in Said
  BY DEF Said
<1>3. Append(<<"200">>, "500") = <<"200", "500">>
  BY <1>2, Second
<1>4. Append(<<"200">>, "page") = <<"200", "page">>
  BY <1>2, Second
<1>5. Append(<<"200">>, "output") = <<"200", "output">>
  BY <1>2, Second
<1> QED
  BY <1>1, <1>3, <1>4, <1>5

(* SentAt, label by label. *)
LEMMA Due ==
  ASSUME NEW r
  PROVE  /\ \A l \in {"bad_request", "not_found", "open", "html_404", "html_head", "cgi_head"} : SentAt(l, r) = {<<>>}
         /\ \A l \in NotYet : SentAt(l, r) = {<<>>}
         /\ SentAt("html_500", r) = {} /\ SentAt("closed2", r) = {}
         /\ SentAt("cgi_500", r) = {IF NoLength(r) THEN <<>> ELSE <<"200">>}
         /\ \A l \in {"sendfile", "pipe_in", "pipe_out", "pipe_500", "fork", "parent", "feed"} :
              SentAt(l, r) = {<<"200">>}
         /\ SentAt("relay", r) = {<<"200">>, <<"200", "output">>}
         /\ \A l \in {"echoed", "close_file", "close_pipes", "wait", "close", "done"} : SentAt(l, r) = {Proper(r)}
         /\ \A l \in {"echoed2", "echoed_pipe", "drop_in", "close2"} : SentAt(l, r) = {Reported(r)}
BY DEF SentAt, NotYet

(* OnWay, label by label. *)
LEMMA Ways ==
  ASSUME NEW r
  PROVE  /\ \A l \in {"bad_request", "not_found"} : OnWay(l, r) <=> Route(r) = l
         /\ OnWay("echoed", r) <=> Route(r) \in {"bad_request", "not_found"}
         /\ \A l \in {"open", "html_404", "html_500"} : OnWay(l, r) <=> Route(r) = "open"
         /\ \A l \in {"html_head", "sendfile", "close_file"} :
              OnWay(l, r) <=> Route(r) = "open" /\ r.file # "bare"
         /\ \A l \in {"cgi_head", "cgi_500"} : OnWay(l, r) <=> Route(r) = "cgi_head"
         /\ \A l \in {"pipe_in", "pipe_out", "pipe_500", "echoed_pipe", "drop_in", "fork", "parent",
                      "relay", "close_pipes", "wait"} : OnWay(l, r) <=> Route(r) = "cgi_head" /\ ~NoLength(r)
         /\ OnWay("feed", r) <=> Route(r) = "cgi_head" /\ ~NoLength(r) /\ HasBody(r)
         /\ \A l \in {"close", "close2", "echoed2"} : OnWay(l, r) <=> Route(r) \in {"open", "cgi_head"}
         /\ OnWay("done", r)
BY DEF OnWay, OfHtml, OfCgi

(* Every step of a thread keeps its client on its course, unless it is the *)
(* step of a second close.                                                 *)
LEMMA ThreadCourse ==
  ASSUME TypeOK, HoldsOwn, NEW c \in Clients, ThreadStep(c), NoSecondClose', Course(c)
  PROVE  Course(c)'
<1>. /\ DOMAIN pc = Clients /\ DOMAIN job = Clients /\ DOMAIN child = Clients
     /\ DOMAIN inherited = Clients /\ DOMAIN fed = Clients /\ DOMAIN out = Clients
     /\ DOMAIN unread = Clients
  BY DEF TypeOK
<1>0. pc[c] \notin Minding => child[c] # "running"
  BY DEF Course, Relayed
<1>00. OnWay(pc[c], job[c]) /\ (stage[c] # "gone" => Sent(c) \in SentAt(pc[c], job[c]))
  BY DEF Course, Told
<1>01. ASSUME NEW l, Goto(c, l), UNCHANGED <<job, child, inherited, fed, out, stage, unread, req>>,
              pc[c] \notin NotYet, l \notin NotYet \cup Minding, child[c] # "running",
              OnWay(l, job[c]), stage[c] # "gone" => Sent(c)' \in SentAt(l, job[c]),
              l \in Final => pc[c] \in Final \/ Route(job[c]) # "cgi_head",
              l \in {"cgi_head", "pipe_in", "pipe_out", "fork"} => pc[c] \in {"cgi_head", "pipe_in", "pipe_out"}
       PROVE  Course(c)'
  <2>1. pc'[c] = l
    BY <1>01 DEF Goto
  <2> QED
    BY <1>01, <2>1, MoveCourse
<1>1. CASE ReadRequest(c)
  <2>1. /\ pc[c] = "request" /\ UNCHANGED <<child, inherited, fed, out, stage, req, got>>
        /\ child[c] = "none" /\ ~out[c] /\ ~fed[c]
    BY <1>1, ReadOwn DEF Course, Relayed, NotYet, children
  <2>2. /\ pc'[c] = Route(req[c]) /\ job'[c] = req[c] /\ stage[c] \notin {"away", "idle"}
        /\ \/ unread'[c] = (unread[c] \ {"head"}) \cup Leaves(req[c])
           \/ stage[c] = "gone"
    <3>1. CASE "head" \in unread[c]
      BY <1>1, <2>1, <3>1, ReadOwn DEF Goto, Course, Asked, NotYet
    <3>2. CASE "head" \notin unread[c]
      BY <1>1, <2>1, <3>2, ReadOwn DEF Goto, Course, Asked, NotYet
    <3> QED
      BY <3>1, <3>2
  <2> DEFINE l == Route(req[c])
  <2>3. l \in {"bad_request", "not_found", "open", "cgi_head"}
    BY Routes
  <2>4. l \notin NotYet /\ l \notin Final /\ l \notin Minding
    BY <2>3 DEF NotYet, Final, Minding
  <2>5. OnWay(l, req[c])
    BY <2>3, Ways
  <2>6. stage[c] # "gone" => Sent(c)' \in SentAt(l, req[c])
    <3>1. stage[c] # "gone" => Sent(c) = <<>>
      BY <1>00, <2>1, Due DEF NotYet
    <3>2. SentAt(l, req[c]) = {<<>>}
      BY <2>3, Due
    <3> QED
      BY <2>1, <3>1, <3>2 DEF Sent
  <2>7. Asked(c)'
    BY <2>1, <2>2, <2>4 DEF Asked
  <2>8. Told(c)'
    BY <2>1, <2>2, <2>6 DEF Told
  <2>9. Fetched(c)'
    <3>1. stage[c] # "gone" => /\ unread[c] \subseteq {"head", "body"}
                               /\ "body" \in unread[c] => stage[c] = "body" /\ HasBody(req[c])
      BY <2>1 DEF Course, Fetched, NotYet
    <3>2. stage[c] # "gone" => /\ l # "bad_request" => unread'[c] \subseteq {"body"}
                               /\ "body" \in unread'[c] => "body" \in unread[c]
      BY <2>2, <3>1 DEF Leaves
    <3>3. /\ pc'[c] \notin NotYet /\ pc'[c] \notin Final /\ Route(job'[c]) = l
          /\ req'[c] = req[c] /\ stage'[c] = stage[c]
      BY <2>1, <2>2, <2>4
    <3>4. stage'[c] # "gone" /\ "body" \in unread'[c] => stage'[c] = "body" /\ HasBody(req'[c])
      BY <3>1, <3>2, <3>3
    <3>5. stage'[c] # "gone" /\ Route(job'[c]) # "bad_request" => unread'[c] \subseteq {"body"}
      BY <3>2, <3>3
    <3> QED
      BY <3>3, <3>4, <3>5 DEF Fetched
  <2>10. Relayed(c)'
    BY <2>1, <2>2, <2>4 DEF Relayed, Minding
  <2> QED
    BY <2>2, <2>5, <2>7, <2>8, <2>9, <2>10 DEF Course
<1>2. CASE EchoError(c)
  <2> DEFINE e == ErrorExits[pc[c]]
  <2>1. /\ pc'[c] = e.next /\ pc[c] \in DOMAIN ErrorExits
        /\ stage[c] # "gone" => Sent(c)' = Append(Sent(c), e.code)
    BY <1>2, EchoOwn, Tells DEF EchoError, Goto
  <2>2. ASSUME NEW l \in {"echoed", "echoed2", "echoed_pipe"}, l = e.next, OnWay(l, job[c]),
               stage[c] # "gone" => Append(Sent(c), e.code) \in SentAt(l, job[c])
        PROVE  Course(c)'
    <3>1. pc[c] \notin NotYet \cup Minding
      BY <2>1 DEF ErrorExits, NotYet, Minding
    <3> QED
      BY <1>0, <1>2, <2>1, <2>2, <3>1, MoveCourse DEF EchoError, children, NotYet, Minding, Final
  <2> HIDE DEF e
  <2>4. CASE pc[c] = "bad_request"
    <3>1. e.code = "400" /\ e.next = "echoed"
      BY <2>4 DEF e, ErrorExits
    <3>2. OnWay("echoed", job[c])
      BY <2>4, <1>00, Ways, Routes
    <3>3. stage[c] # "gone" => Sent(c) = <<>>
      BY <2>4, <1>00, Due
    <3>4. SentAt("echoed", job[c]) = {<<"400">>}
      BY <2>4, <1>00, Due, Ways, Routes, Replies
    <3> QED
      BY <2>2, <3>1, <3>2, <3>3, <3>4, Pieces
  <2>5. CASE pc[c] = "not_found"
    <3>1. e.code = "404" /\ e.next = "echoed"
      BY <2>5 DEF e, ErrorExits
    <3>2. OnWay("echoed", job[c])
      BY <2>5, <1>00, Ways, Routes
    <3>3. stage[c] # "gone" => Sent(c) = <<>>
      BY <2>5, <1>00, Due
    <3>4. SentAt("echoed", job[c]) = {<<"404">>}
      BY <2>5, <1>00, Due, Ways, Routes, Replies
    <3> QED
      BY <2>2, <3>1, <3>2, <3>3, <3>4, Pieces
  <2>6. CASE pc[c] = "html_404"
    <3>1. e.code = "404" /\ e.next = "echoed2"
      BY <2>6 DEF e, ErrorExits
    <3>2. OnWay("echoed2", job[c])
      BY <2>6, <1>00, Ways, Routes
    <3>3. stage[c] # "gone" => Sent(c) = <<>>
      BY <2>6, <1>00, Due
    <3>4. SentAt("echoed2", job[c]) = {<<"404">>}
      BY <2>6, <1>00, Due, Ways, Routes, Replies DEF Reported
    <3> QED
      BY <2>2, <3>1, <3>2, <3>3, <3>4, Pieces
  <2>7. CASE pc[c] = "html_500"
    <3>1. e.next = "echoed2"
      BY <2>7 DEF e, ErrorExits
    <3>2. stage[c] = "gone" /\ OnWay("echoed2", job[c])
      BY <2>7, <1>00, Due, Ways
    <3> QED
      BY <2>2, <3>1, <3>2
  <2>8. CASE pc[c] = "cgi_500"
    <3>1. e.code = "500" /\ e.next = "echoed2"
      BY <2>8 DEF e, ErrorExits
    <3>2. OnWay("echoed2", job[c])
      BY <2>8, <1>00, Ways, Routes
    <3>3. stage[c] # "gone" => Sent(c) = IF NoLength(job[c]) THEN <<>> ELSE <<"200">>
      BY <2>8, <1>00, Due
    <3>4. SentAt("echoed2", job[c]) = {IF NoLength(job[c]) THEN <<"500">> ELSE <<"200", "500">>}
      BY <2>8, <1>00, Due, Ways, Routes, Replies DEF Reported
    <3> QED
      BY <2>2, <3>1, <3>2, <3>3, <3>4, Pieces
  <2>9. CASE pc[c] = "pipe_500"
    <3>1. e.code = "500" /\ e.next = "echoed_pipe"
      BY <2>9 DEF e, ErrorExits
    <3>2. OnWay("echoed_pipe", job[c])
      BY <2>9, <1>00, Ways, Routes
    <3>3. stage[c] # "gone" => Sent(c) = <<"200">>
      BY <2>9, <1>00, Due
    <3>4. SentAt("echoed_pipe", job[c]) = {<<"200", "500">>}
      BY <2>9, <1>00, Due, Ways, Routes, Replies DEF Reported
    <3> QED
      BY <2>2, <3>1, <3>2, <3>3, <3>4, Pieces
  <2> QED
    BY <2>1, <2>4, <2>5, <2>6, <2>7, <2>8, <2>9 DEF ErrorExits
<1>3. CASE EchoClose(c)
  <2>1. pc[c] \in DOMAIN AfterEcho /\ Goto(c, AfterEcho[pc[c]]) /\ got' = got
    BY <1>3 DEF EchoClose, clients
  <2>2. ASSUME NEW l \in {"done", "close2", "drop_in"}, Goto(c, l), OnWay(l, job[c]), child[c] # "running",
               SentAt(l, job[c]) = SentAt(pc[c], job[c]), l = "done" => Route(job[c]) # "cgi_head"
        PROVE  Course(c)'
    BY <1>3, <1>00, <1>01, <2>1, <2>2 DEF EchoClose, AfterEcho, children, clients, NotYet, Minding, Final, Sent
  <2>3. CASE pc[c] = "echoed"
    <3>1. Goto(c, "done") /\ child[c] # "running"
      BY <1>0, <2>1, <2>3 DEF AfterEcho, Minding
    <3>2. OnWay("done", job[c]) /\ Route(job[c]) # "cgi_head"
      BY <1>00, <2>3, Ways
    <3>3. SentAt("done", job[c]) = SentAt(pc[c], job[c])
      BY <2>3, Due
    <3> QED
      BY <2>2, <3>1, <3>2, <3>3
  <2>4. CASE pc[c] = "echoed2"
    <3>1. Goto(c, "close2") /\ child[c] # "running"
      BY <1>0, <2>1, <2>4 DEF AfterEcho, Minding
    <3>2. OnWay("close2", job[c])
      BY <1>00, <2>4, Ways
    <3>3. SentAt("close2", job[c]) = SentAt(pc[c], job[c])
      BY <2>4, Due
    <3> QED
      BY <2>2, <3>1, <3>2, <3>3
  <2>5. CASE pc[c] = "echoed_pipe"
    <3>1. Goto(c, "drop_in") /\ child[c] # "running"
      BY <1>0, <2>1, <2>5 DEF AfterEcho, Minding
    <3>2. OnWay("drop_in", job[c])
      BY <1>00, <2>5, Ways
    <3>3. SentAt("drop_in", job[c]) = SentAt(pc[c], job[c])
      BY <2>5, Due
    <3> QED
      BY <2>2, <3>1, <3>2, <3>3
  <2> QED
    BY <2>1, <2>3, <2>4, <2>5 DEF AfterEcho
<1>4. CASE CloseConnection(c)
  <2>1. pc[c] = "close" /\ Goto(c, "done")
    BY <1>4 DEF CloseConnection, Goto, NoSecondClose
  <2>2. OnWay("done", job[c]) /\ SentAt("done", job[c]) = SentAt(pc[c], job[c])
    BY <2>1, Due, Ways
  <2> QED
    BY <1>0, <1>00, <1>01, <1>4, <2>1, <2>2 DEF CloseConnection, children, clients, NotYet, Minding, Final, Sent
<1>5. CASE OpenFile(c)
  <2>1. pc[c] = "open" /\ got' = got
    BY <1>5 DEF OpenFile, clients
  <2>2. PICK l \in {"html_head", "html_404"} : Goto(c, l) /\ (l = "html_head" => job[c].file # "bare")
    BY <1>5 DEF OpenFile
  <2>3. OnWay(l, job[c]) /\ SentAt(l, job[c]) = SentAt(pc[c], job[c])
    <3>1. \A m \in {"open", "html_404", "html_head"} : SentAt(m, job[c]) = {<<>>}
      BY Due
    <3>2. OnWay("open", job[c])
      BY <1>00, <2>1
    <3>3. OnWay(l, job[c])
      BY <2>2, <3>2, Ways
    <3> QED
      BY <2>1, <2>2, <3>1, <3>3
  <2> QED
    BY <1>0, <1>00, <1>01, <1>5, <2>1, <2>2, <2>3 DEF OpenFile, children, clients, NotYet, Minding, Final, Sent
<1>6. CASE HtmlHead(c)
  <2>1. pc[c] = "html_head" /\ Goto(c, "sendfile")
    BY <1>6 DEF HtmlHead
  <2>2. stage[c] # "gone" => Sent(c)' = Append(Sent(c), "200")
    BY <1>6, HeadOwn, Tells DEF HtmlHead, Said
  <2>3. stage[c] # "gone" => Sent(c) = <<>>
    BY <1>00, <2>1, Due
  <2>4. OnWay("sendfile", job[c]) /\ SentAt("sendfile", job[c]) = {<<"200">>}
    BY <1>00, <2>1, Due, Ways
  <2>5. stage[c] # "gone" => Sent(c)' \in SentAt("sendfile", job[c])
    BY <2>2, <2>3, <2>4, Pieces
  <2> QED
    BY <1>0, <1>01, <1>6, <2>1, <2>4, <2>5 DEF HtmlHead, children, NotYet, Minding, Final
<1>7. CASE SendFile(c)
  <2>1. pc[c] = "sendfile" /\ UNCHANGED <<job, children, stage, unread, req>>
    BY <1>7, SendFileOwn
  <2>2. CASE Goto(c, "close_file") /\ Receives(Obj("sock", c), c, "page")
    <3>1. stage[c] # "gone" => Sent(c)' = Append(Sent(c), "page")
      BY <2>2, Tells DEF Said
    <3>2. stage[c] # "gone" => Sent(c) = <<"200">>
      BY <1>00, <2>1, Due
    <3>3. OnWay("close_file", job[c]) /\ SentAt("close_file", job[c]) = {<<"200", "page">>}
      BY <1>00, <2>1, Due, Ways, Replies
    <3>4. stage[c] # "gone" => Sent(c)' \in SentAt("close_file", job[c])
      BY <3>1, <3>2, <3>3, Pieces
    <3> QED
      BY <1>0, <1>01, <2>1, <2>2, <3>3, <3>4 DEF children, NotYet, Minding, Final
  <2>3. CASE Goto(c, "html_500") /\ stage[c] = "gone"
    <3>1. OnWay("html_500", job[c])
      BY <1>00, <2>1, Ways
    <3> QED
      BY <1>0, <1>01, <2>1, <2>3, <3>1 DEF children, NotYet, Minding, Final
  <2> QED
    BY <1>7, <2>2, <2>3, SendFileOwn
<1>8. CASE CloseFile(c)
  <2>1. pc[c] = "close_file" /\ Goto(c, "close") /\ got' = got
    BY <1>8 DEF CloseFile, clients
  <2>2. OnWay("close", job[c]) /\ Route(job[c]) = "open"
    BY <1>00, <2>1, Ways
  <2>3. SentAt("close", job[c]) = SentAt(pc[c], job[c])
    BY <2>1, Due
  <2> QED
    BY <1>0, <1>00, <1>01, <1>8, <2>1, <2>2, <2>3 DEF CloseFile, children, clients, NotYet, Minding, Final, Sent
<1>9. CASE CgiHead(c)
  <2>1. pc[c] = "cgi_head" /\ UNCHANGED <<job, children, stage, unread, req>>
    BY <1>9 DEF CgiHead
  <2>2. Route(job[c]) = "cgi_head" /\ (stage[c] # "gone" => Sent(c) = <<>>)
    BY <1>00, <2>1, Due, Ways
  <2>3. CASE NoLength(job[c])
    <3>1. Goto(c, "cgi_500") /\ got' = got
      BY <1>9, <2>3 DEF CgiHead, NoLength
    <3>2. OnWay("cgi_500", job[c]) /\ SentAt("cgi_500", job[c]) = {<<>>}
      BY <2>2, <2>3, Due, Ways
    <3> QED
      BY <1>0, <1>01, <2>1, <2>2, <3>1, <3>2 DEF children, NotYet, Minding, Final, Sent
  <2>4. CASE ~NoLength(job[c])
    <3>1. Goto(c, "pipe_in") /\ Send(c, "200")
      BY <1>9, <2>4 DEF CgiHead, NoLength
    <3>2. stage[c] # "gone" => Sent(c)' = Append(Sent(c), "200")
      BY <1>9, <3>1, HeadOwn, Tells DEF Said
    <3>3. OnWay("pipe_in", job[c]) /\ SentAt("pipe_in", job[c]) = {<<"200">>}
      BY <2>2, <2>4, Due, Ways
    <3>4. stage[c] # "gone" => Sent(c)' \in SentAt("pipe_in", job[c])
      BY <2>2, <3>2, <3>3, Pieces
    <3> QED
      BY <1>0, <1>01, <2>1, <3>1, <3>3, <3>4 DEF children, NotYet, Minding, Final
  <2> QED
    BY <2>3, <2>4
<1>10. CASE PipeIn(c)
  <2>1. pc[c] = "pipe_in" /\ got' = got
    BY <1>10 DEF PipeIn, clients
  <2>2. PICK l \in {"pipe_out", "cgi_500"} : Goto(c, l)
    BY <1>10 DEF PipeIn, MakePipe, PipeFails
  <2>3. OnWay(l, job[c])
    BY <1>00, <2>1, <2>2, Ways
  <2>4. ~NoLength(job[c]) /\ SentAt(pc[c], job[c]) = {<<"200">>}
    BY <1>00, <2>1, Ways, Due
  <2>5. SentAt(l, job[c]) = {<<"200">>}
    BY <2>2, <2>4, Due
  <2>6. stage[c] # "gone" => Sent(c)' \in SentAt(l, job[c])
    BY <1>00, <2>1, <2>4, <2>5 DEF Sent
  <2> QED
    BY <1>0, <1>01, <1>10, <2>1, <2>2, <2>3, <2>6 DEF PipeIn, children, clients, NotYet, Minding, Final
<1>11. CASE PipeOut(c)
  <2>1. pc[c] = "pipe_out" /\ got' = got
    BY <1>11 DEF PipeOut, clients
  <2>2. PICK l \in {"fork", "pipe_500"} : Goto(c, l)
    BY <1>11 DEF PipeOut, MakePipe, PipeFails
  <2>3. OnWay(l, job[c])
    BY <1>00, <2>1, <2>2, Ways
  <2>4. ~NoLength(job[c]) /\ SentAt(pc[c], job[c]) = {<<"200">>}
    BY <1>00, <2>1, Ways, Due
  <2>5. SentAt(l, job[c]) = {<<"200">>}
    BY <2>2, <2>4, Due
  <2>6. stage[c] # "gone" => Sent(c)' \in SentAt(l, job[c])
    BY <1>00, <2>1, <2>4, <2>5 DEF Sent
  <2> QED
    BY <1>0, <1>01, <1>11, <2>1, <2>2, <2>3, <2>6 DEF PipeOut, children, clients, NotYet, Minding, Final
<1>12. CASE DropIn(c)
  <2>1. pc[c] = "drop_in" /\ Goto(c, "close2") /\ got' = got
    BY <1>12 DEF DropIn, clients
  <2>2. OnWay("close2", job[c]) /\ SentAt("close2", job[c]) = SentAt(pc[c], job[c])
    BY <1>00, <2>1, Due, Ways
  <2> QED
    BY <1>0, <1>00, <1>01, <1>12, <2>1, <2>2 DEF DropIn, children, clients, NotYet, Minding, Final, Sent
<1>13. CASE Fork(c)
  <2>1. pc[c] = "fork" /\ UNCHANGED <<job, fed, out, stage, unread, req, got>>
    BY <1>13 DEF Fork, clients
  <2>2. /\ Route(job[c]) = "cgi_head" /\ ~NoLength(job[c])
        /\ stage[c] # "gone" => Sent(c) = <<"200">>
    BY <1>00, <2>1, Ways, Due
  <2>3. child[c] = "none" /\ ~out[c] /\ ~fed[c]
    BY <2>1 DEF Course, Relayed
  <2>4. CASE /\ child' = [child EXCEPT ![c] = "running"]
             /\ inherited' = [inherited EXCEPT ![c] = Copied(c)]
             /\ Goto(c, "parent")
    <3>1. {Obj("in_r", c), Obj("out_w", c)} \subseteq Copied(c)
      <4>1. \A r \in {"in_r", "in_w", "out_r", "out_w"} : loc[c][r] \in FDs /\ fd[loc[c][r]] = Obj(r, c)
        BY <2>1 DEF HoldsOwn, Holds, HeldAt
      <4>2. /\ loc[c]["in_r"] \notin Free \cup {loc[c]["in_w"], loc[c]["out_r"]}
            /\ loc[c]["out_w"] \notin Free \cup {loc[c]["in_w"], loc[c]["out_r"]}
        BY <4>1 DEF Free, Obj, Closed
      <4> QED
        BY <4>1, <4>2 DEF Copied
    <3>2. /\ pc'[c] = "parent" /\ job'[c] = job[c] /\ child'[c] = "running" /\ inherited'[c] = Copied(c)
          /\ fed'[c] = fed[c] /\ out'[c] = out[c] /\ stage'[c] = stage[c] /\ unread'[c] = unread[c]
          /\ req'[c] = req[c] /\ Sent(c)' = Sent(c)
      BY <2>1, <2>4 DEF Goto, Sent
    <3>3. OnWay("parent", job[c]) /\ SentAt("parent", job[c]) = {<<"200">>}
      BY <2>2, Ways, Due
    <3>4. Told(c)' /\ OnWay(pc[c], job[c])'
      BY <2>2, <3>2, <3>3 DEF Told
    <3>5. Asked(c)' /\ Fetched(c)'
      BY <2>1, <3>2 DEF Course, Asked, Fetched, NotYet, Final
    <3>6. Relayed(c)'
      BY <2>2, <2>3, <3>1, <3>2 DEF Relayed, NotYet, Minding
    <3> QED
      BY <3>4, <3>5, <3>6 DEF Course
  <2>5. CASE Goto(c, "cgi_500") /\ UNCHANGED <<child, inherited>>
    <3>1. OnWay("cgi_500", job[c]) /\ SentAt("cgi_500", job[c]) = {<<"200">>}
      BY <2>2, Ways, Due
    <3>2. stage[c] # "gone" => Sent(c)' \in SentAt("cgi_500", job[c])
      BY <2>1, <2>2, <3>1 DEF Sent
    <3> QED
      BY <1>01, <2>1, <2>3, <2>5, <3>1, <3>2 DEF NotYet, Minding, Final
  <2> QED
    BY <1>13, <2>4, <2>5 DEF Fork
<1>14. CASE ParentCloses(c)
  <2> DEFINE l == IF HasBody(job[c]) THEN "feed" ELSE "relay"
  <2>1. /\ pc[c] = "parent" /\ pc'[c] = l /\ UNCHANGED <<job, child, inherited, fed, out, stage, unread, req, got>>
    BY <1>14 DEF ParentCloses, Goto, children, clients
  <2>2. /\ Route(job[c]) = "cgi_head" /\ ~NoLength(job[c])
        /\ stage[c] # "gone" => Sent(c) = <<"200">>
    BY <1>00, <2>1, Ways, Due
  <2>3. OnWay(l, job[c]) /\ <<"200">> \in SentAt(l, job[c])
    <3>1. CASE HasBody(job[c])
      BY <2>2, <3>1, Ways, Due
    <3>2. CASE ~HasBody(job[c])
      BY <2>2, <3>2, Ways, Due
    <3> QED
      BY <3>1, <3>2
  <2>4. l \in {"feed", "relay"} /\ (l = "relay" => ~HasBody(job[c]))
    OBVIOUS
  <2> HIDE DEF l
  <2>5. Told(c)' /\ OnWay(pc[c], job[c])'
    BY <2>1, <2>2, <2>3 DEF Told, Sent
  <2>6. Asked(c)'
    BY <2>1, <2>4 DEF Course, Asked, NotYet
  <2>7. Fetched(c)'
    BY <2>1, <2>4 DEF Course, Fetched, NotYet, Final
  <2>8. Relayed(c)'
    BY <2>1, <2>4 DEF Course, Relayed, NotYet, Minding, Sent
  <2> QED
    BY <2>5, <2>6, <2>7, <2>8 DEF Course
<1>15. CASE Feed(c)
  <2>1. /\ pc[c] = "feed" /\ pc'[c] = "relay" /\ UNCHANGED <<job, child, inherited, out, stage, req, got>>
        /\ fed'[c] = TRUE /\ unread'[c] \subseteq unread[c]
        /\ stage[c] # "gone" => "body" \in unread[c] /\ unread'[c] = unread[c] \ {"body"}
    BY <1>15, FeedOwn DEF Goto
  <2>2. /\ OnWay("relay", job[c]) /\ SentAt("feed", job[c]) = {<<"200">>}
        /\ <<"200">> \in SentAt("relay", job[c]) /\ Route(job[c]) = "cgi_head"
    BY <1>00, <2>1, Ways, Due
  <2>3. Told(c)' /\ OnWay(pc[c], job[c])'
    BY <1>00, <2>1, <2>2 DEF Told, Sent
  <2>4. Asked(c)'
    BY <2>1 DEF Course, Asked, NotYet
  <2>5. Fetched(c)'
    <3>1. stage[c] # "gone" =>
            unread[c] \subseteq {"body"} /\ "body" \in unread[c] /\ stage[c] = "body" /\ HasBody(req[c])
      BY <2>1, <2>2 DEF Course, Fetched, NotYet
    <3> QED
      BY <2>1, <3>1 DEF Fetched, NotYet
  <2>6. Relayed(c)'
    BY <2>1 DEF Course, Relayed, NotYet, Minding, Sent
  <2> QED
    BY <2>3, <2>4, <2>5, <2>6 DEF Course
<1>16. CASE Relay(c)
  <2>1. /\ pc[c] = "relay" /\ out[c] /\ out'[c] = FALSE
        /\ UNCHANGED <<pc, job, child, inherited, fed, stage, unread, req>>
        /\ stage[c] # "gone" => Sent(c)' = Append(Sent(c), "output")
    BY <1>16, RelayOwn, Tells DEF threads, Said
  <2>2. /\ Route(job[c]) = "cgi_head" /\ ~NoLength(job[c])
    BY <1>00, <2>1, Ways
  <2>3. stage[c] # "gone" => Sent(c) = <<"200">> /\ job[c].file \in Programs
    BY <2>1 DEF Course, Relayed, Minding
  <2>4. stage[c] # "gone" => Sent(c)' = <<"200", "output">>
    BY <2>1, <2>3, Pieces
  <2>5. <<"200", "output">> \in SentAt("relay", job[c])
    BY Due
  <2>6. stage[c] # "gone" => Sent(c)' = Proper(job[c])
    BY <2>2, <2>3, <2>4, Replies
  <2>7. Told(c)' /\ OnWay(pc[c], job[c])'
    BY <1>00, <2>1, <2>4, <2>5 DEF Told
  <2>8. Asked(c)' /\ Fetched(c)'
    BY <2>1 DEF Course, Asked, Fetched
  <2>9. child[c] # "running"
    BY <2>1 DEF Course, Relayed
  <2>10. Relayed(c)'
    BY <2>1, <2>6, <2>9 DEF Course, Relayed, NotYet, Minding
  <2> QED
    BY <2>7, <2>8, <2>10 DEF Course
<1>17. CASE RelayEnds(c)
  <2>1. pc[c] = "relay" /\ At(c, "out_r") = Obj("out_r", c)
    BY <1>17, OwnDenoted DEF RelayEnds, Holds, HeldAt
  <2>2. ~out[c] /\ ~Open(Obj("out_w", c)) /\ Goto(c, "close_pipes") /\ got' = got
    BY <1>17, <2>1 DEF RelayEnds, Obj, clients
  <2>3. child[c] # "running"
    BY <2>2 DEF Course, Relayed, Open
  <2>4. stage[c] # "gone" => Sent(c) = Proper(job[c])
    BY <2>1, <2>2, <2>3 DEF Course, Relayed, Minding
  <2>5. OnWay("close_pipes", job[c]) /\ SentAt("close_pipes", job[c]) = {Proper(job[c])}
    BY <1>00, <2>1, Ways, Due
  <2>6. stage[c] # "gone" => Sent(c)' \in SentAt("close_pipes", job[c])
    BY <2>2, <2>4, <2>5 DEF Sent
  <2> QED
    BY <1>01, <1>17, <2>1, <2>2, <2>3, <2>5, <2>6 DEF RelayEnds, children, clients, NotYet, Minding, Final
<1>18. CASE ClosePipes(c)
  <2>1. pc[c] = "close_pipes" /\ Goto(c, "wait") /\ got' = got
    BY <1>18 DEF ClosePipes, clients
  <2>2. OnWay("wait", job[c])
    BY <1>00, <2>1, Ways
  <2>3. SentAt("wait", job[c]) = SentAt(pc[c], job[c])
    BY <2>1, Due
  <2> QED
    BY <1>0, <1>00, <1>01, <1>18, <2>1, <2>2, <2>3 DEF ClosePipes, children, clients, NotYet, Minding, Final, Sent
<1>19. CASE WaitChild(c)
  <2>1. /\ pc[c] = "wait" /\ pc'[c] = "close" /\ child'[c] = "reaped"
        /\ UNCHANGED <<job, inherited, fed, out, stage, unread, req, got>>
    BY <1>19 DEF WaitChild, Goto, clients
  <2>2. OnWay("close", job[c])
    BY <1>00, <2>1, Ways
  <2>3. SentAt("close", job[c]) = SentAt(pc[c], job[c])
    BY <2>1, Due
  <2>4. Told(c)' /\ OnWay(pc[c], job[c])'
    BY <1>00, <2>1, <2>2, <2>3 DEF Told, Sent
  <2>5. Asked(c)' /\ Fetched(c)'
    BY <2>1 DEF Course, Asked, Fetched, NotYet, Final
  <2>6. Relayed(c)'
    BY <2>1 DEF Relayed, NotYet, Minding
  <2> QED
    BY <2>4, <2>5, <2>6 DEF Course
<1> QED
  BY <1>1, <1>2, <1>3, <1>4, <1>5, <1>6, <1>7, <1>8, <1>9, <1>10, <1>11, <1>12, <1>13, <1>14,
     <1>15, <1>16, <1>17, <1>18, <1>19 DEF ThreadStep

(* Nobody has said anything to a client that has received nothing. *)
LEMMA NothingSaid == ASSUME NEW c \in Clients, got[c] = <<>> PROVE Sent(c) = <<>>
<1>1. got[c] \in Seq(Piece) /\ Len(got[c]) = 0
  BY DEF Piece
<1>2. Sent(c) \in Seq(Said) /\ Len(Sent(c)) = 0
  BY <1>1, WhatsType DEF Sent
<1> QED
  BY <1>2, EmptySeq

(* Clients connect, send and leave. *)
LEMMA ClientCourse ==
  ASSUME TypeOK, Fresh, NEW c \in Clients, Course(c),
         Connect(c) \/ SendHead(c) \/ SendBody(c) \/ Leave(c)
  PROVE  Course(c)'
<1>. DOMAIN stage = Clients /\ DOMAIN unread = Clients /\ DOMAIN req = Clients
  BY DEF TypeOK
<1>1. /\ UNCHANGED <<pc, job, child, inherited, fed, out, got>>
      /\ stage'[c] # "gone" => stage[c] # "gone"
  BY DEF Connect, SendHead, SendBody, Leave, threads, children
<1>2. OnWay(pc[c], job[c])' /\ Told(c)' /\ Relayed(c)'
  BY <1>1 DEF Course, Told, Relayed, Sent
<1>3. CASE Connect(c)
  <2>1. /\ pc[c] = "none" /\ stage[c] = "away" /\ stage'[c] = "idle"
        /\ unread' = unread /\ req' = req
    BY <1>3 DEF Connect, Fresh
  <2>2. Asked(c)' /\ Fetched(c)'
    BY <1>1, <2>1 DEF Course, Asked, Fetched, NotYet, Final
  <2> QED
    BY <1>2, <2>2 DEF Course
<1>4. CASE SendHead(c)
  <2>1. stage[c] = "idle" /\ stage'[c] = "head" /\ unread'[c] = unread[c] \cup {"head"}
    BY <1>4 DEF SendHead
  <2>2. pc[c] \in NotYet
    BY <2>1 DEF Course, Asked
  <2>3. Asked(c)'
    BY <1>1, <2>1, <2>2 DEF Asked
  <2>4. "body" \notin unread[c] /\ unread[c] \subseteq {"head", "body"}
    BY <2>1, <2>2 DEF Course, Fetched
  <2>5. Fetched(c)'
    BY <1>1, <2>1, <2>2, <2>4 DEF Fetched, NotYet, Final
  <2> QED
    BY <1>2, <2>3, <2>5 DEF Course
<1>5. CASE SendBody(c)
  <2>1. /\ stage[c] = "head" /\ stage'[c] = "body" /\ unread'[c] = unread[c] \cup {"body"}
        /\ HasBody(req[c]) /\ req' = req
    BY <1>5 DEF SendBody
  <2>2. Asked(c)'
    BY <1>1, <2>1 DEF Course, Asked
  <2>3. pc[c] \notin NotYet => job[c] = req[c]
    BY DEF Course, Asked
  <2>4. Fetched(c)'
    BY <1>1, <2>1, <2>3 DEF Course, Fetched, NotYet, Final
  <2> QED
    BY <1>2, <2>2, <2>4 DEF Course
<1>6. CASE Leave(c)
  <2>1. stage'[c] = "gone" /\ unread' = unread /\ req' = req /\ stage[c] # "away"
    BY <1>6 DEF Leave
  <2>2. Asked(c)'
    BY <1>1, <2>1 DEF Course, Asked
  <2>3. Fetched(c)'
    BY <2>1 DEF Fetched
  <2> QED
    BY <1>2, <2>2, <2>3 DEF Course
<1> QED
  BY <1>3, <1>4, <1>5, <1>6

(* A child's program runs to its end: it had its body, and its output can  *)
(* still be read by the thread that waits for it.                          *)
LEMMA ChildCourse ==
  ASSUME TypeOK, HoldsOwn, NEW c \in Clients, Course(c), ChildRuns(c)
  PROVE  Course(c)'
<1>. DOMAIN child = Clients /\ DOMAIN fed = Clients /\ DOMAIN out = Clients
  BY DEF TypeOK
<1>1. /\ UNCHANGED <<pc, job, stage, unread, req, got>> /\ child[c] = "running" /\ child'[c] = "zombie"
      /\ ReadsBody(job[c]) => fed[c] \/ ~Open(Obj("in_w", c))
      /\ fed'[c] = (fed[c] /\ ~ReadsBody(job[c]))
      /\ out'[c] = (out[c] \/ (job[c].file \in Programs /\ Open(Obj("out_r", c))))
  BY DEF ChildRuns, threads, clients
<1>2. pc[c] \in Minding /\ ~out[c]
  BY <1>1 DEF Course, Relayed
<1>3. Open(Obj("in_w", c)) /\ Open(Obj("out_r", c))
  <2>1. Holds(c, "in_w") /\ Holds(c, "out_r")
    BY <1>2 DEF Holds, HeldAt, Minding
  <2> QED
    BY <2>1, OwnDenoted
<1>4. Asked(c)' /\ OnWay(pc[c], job[c])' /\ Told(c)' /\ Fetched(c)'
  BY <1>1 DEF Course, Asked, Told, Fetched, Sent
<1>5. pc[c] \in {"parent", "feed"} => ~fed'[c] /\ ~ReadsBody(job[c])
  BY <1>1, <1>3 DEF Course, Relayed
<1>6. stage[c] # "gone" => Sent(c) = <<"200">>
  BY <1>1, <1>2 DEF Course, Relayed
<1>7. job[c].file \notin Programs => Proper(job[c]) = <<"200">>
  <2>1. Route(job[c]) = "cgi_head" /\ ~NoLength(job[c])
    BY <1>2, Ways DEF Course, Minding
  <2> QED
    BY <2>1, Replies
<1>8. out'[c] <=> job[c].file \in Programs
  BY <1>1, <1>2, <1>3
<1>9. Relayed(c)'
  BY <1>1, <1>2, <1>5, <1>6, <1>7, <1>8 DEF Relayed, NotYet, Minding, Sent
<1> QED
  BY <1>4, <1>9 DEF Course

(* Up to the first second close, and while the server is up, every client  *)
(* is where its request has brought it: what it was sent, what it has sent *)
(* that is unread, and what its child has done belong to where its thread  *)
(* is.                                                                     *)
THEOREM Courses == Spec => []OnCourse
<1>1. Init => OnCourse
  <2> SUFFICES ASSUME Init, NEW c \in Clients PROVE Course(c)
    BY DEF OnCourse
  <2>1. /\ pc[c] = "none" /\ job[c] = NoRequest /\ child[c] = "none" /\ fed[c] = FALSE /\ out[c] = FALSE
        /\ stage[c] = "away" /\ unread[c] = {} /\ req[c] = NoRequest /\ got[c] = <<>>
    BY DEF Init
  <2>2. Sent(c) = <<>> /\ SentAt("none", job[c]) = {<<>>}
    BY <2>1, NothingSaid, Due DEF NotYet
  <2>3. Told(c)
    BY <2>1, <2>2 DEF Told
  <2>4. OnWay("none", job[c])
    BY DEF OnWay, OfHtml, OfCgi
  <2>5. Asked(c) /\ Fetched(c) /\ Relayed(c)
    BY <2>1 DEF Asked, Fetched, Relayed, NotYet, Minding, Final
  <2> QED
    BY <2>1, <2>3, <2>4, <2>5 DEF Course
<1>2. TypeOK /\ Fresh /\ Accounting /\ OnCourse /\ [Next]_vars => OnCourse'
  <2> SUFFICES ASSUME TypeOK, Fresh, Accounting, OnCourse, [Next]_vars, up', NoSecondClose',
                      NEW d \in Clients
               PROVE  Course(d)'
    BY DEF OnCourse
  <2>1. NoSecondClose
    BY SecondCloseStays
  <2>2. ASSUME up PROVE HoldsOwn /\ \A e \in Clients : Course(e)
    BY <2>1, <2>2 DEF Accounting, OnCourse
  <2>3. ASSUME NEW c \in Clients, Connect(c) \/ SendHead(c) \/ SendBody(c) \/ Leave(c) PROVE Course(d)'
    <3>1. up
      BY <2>3 DEF Connect, SendHead, SendBody, Leave
    <3>2. d # c => Same(d)
      BY <2>3 DEF TypeOK, Connect, SendHead, SendBody, Leave, Same, threads, children
    <3> QED
      BY <2>2, <2>3, <3>1, <3>2, SameCourse, ClientCourse
  <2>4. CASE Accept
    <3>1. up /\ Head(queue) \in Clients /\ pc[Head(queue)] = "none"
      BY <2>4 DEF Accept, Fresh, TypeOK
    <3>2. PICK l \in {"request", "orphan"} : Goto(Head(queue), l)
      BY <2>4 DEF Accept
    <3>3. UNCHANGED <<job, child, inherited, fed, out, stage, unread, req, got>>
      BY <2>4 DEF Accept, children, clients
    <3>4. CASE d # Head(queue)
      <4>1. Same(d)
        BY <3>2, <3>3, <3>4 DEF Same, Goto
      <4> QED
        BY <2>2, <3>1, <4>1, SameCourse
    <3>5. CASE d = Head(queue)
      <4>1. pc[d] = "none" /\ pc'[d] = l /\ Course(d)
        BY <2>2, <3>1, <3>2, <3>5 DEF Goto, TypeOK
      <4>2. SentAt(pc[d], job[d]) = SentAt(l, job[d])
        <5>1. \A m \in NotYet : SentAt(m, job[d]) = {<<>>}
          BY Due
        <5>2. pc[d] \in NotYet /\ l \in NotYet
          BY <4>1 DEF NotYet
        <5> QED
          BY <5>1, <5>2
      <4>3. OnWay(l, job[d])
        BY DEF OnWay, OfHtml, OfCgi
      <4>4. Told(d)' /\ OnWay(pc[d], job[d])'
        BY <3>3, <4>1, <4>2, <4>3 DEF Course, Told, Sent
      <4>5. Asked(d)' /\ Fetched(d)' /\ Relayed(d)'
        BY <3>3, <4>1 DEF Course, Asked, Fetched, Relayed, NotYet, Final, Minding
      <4> QED
        BY <4>4, <4>5 DEF Course
    <3> QED
      BY <3>4, <3>5
  <2>5. ASSUME NEW c \in Clients, ThreadStep(c) PROVE Course(d)'
    <3>1. up
      BY <2>5 DEF ThreadStep, ReadRequest, EchoError, EchoClose, CloseConnection, OpenFile, HtmlHead,
         SendFile, CloseFile, CgiHead, PipeIn, PipeOut, DropIn, Fork, ParentCloses, Feed, Relay,
         RelayEnds, ClosePipes, WaitChild
    <3> QED
      BY <2>2, <2>5, <3>1, OthersSame, SameCourse, ThreadCourse
  <2>6. ASSUME NEW c \in Clients, ChildRuns(c) PROVE Course(d)'
    <3>1. up
      BY <2>6 DEF ChildRuns
    <3>2. d # c => Same(d)
      BY <2>6 DEF ChildRuns, Same, threads, clients
    <3> QED
      BY <2>2, <2>6, <3>1, <3>2, SameCourse, ChildCourse
  <2>7. CASE UNCHANGED vars
    <3>1. up /\ Same(d)
      BY <2>7 DEF vars, threads, children, clients, Same
    <3> QED
      BY <2>2, <3>1, SameCourse
  <2> QED
    BY <2>3, <2>4, <2>5, <2>6, <2>7 DEF Next, AcceptFails, BrokenPipe, Quiet
<1> QED
  BY <1>1, <1>2, Typing, Freshness, DescriptorAccounts, PTL DEF Spec
-----------------------------------------------------------------------------
(* How a reply ends. *)
Good == {"200", "page", "output"}

(* The replies that matter here differ.                                    *)
LEMMA Differ ==
  /\ <<"200">> # <<"200", "page">> /\ <<"200", "output">> # <<"200", "page">>
  /\ <<"500">> \notin {<<"200">>, <<"200", "output">>, <<"200", "page">>}
<1>1. <<"200">> # <<"200", "page">>
  <2>1. Len(<<"200">>) = 1 /\ Len(<<"200", "page">>) = 2
    OBVIOUS
  <2> QED
    BY <2>1
<1>2. <<"200", "output">> # <<"200", "page">>
  <2>1. <<"200", "output">>[2] = "output" /\ <<"200", "page">>[2] = "page"
    OBVIOUS
  <2> QED
    BY <2>1
<1>3. <<"500">> \notin {<<"200">>, <<"200", "output">>, <<"200", "page">>}
  <2>1. <<"500">>[1] = "500" /\ <<"200">>[1] = "200" /\ <<"200", "output">>[1] = "200"
        /\ <<"200", "page">>[1] = "200"
    OBVIOUS
  <2> QED
    BY <2>1
<1> QED
  BY <1>1, <1>2, <1>3

(* A failed call's error is excused, or it is what the request is owed.    *)
LEMMA ReportedExcused ==
  ASSUME NEW r, Route(r) \in {"open", "cgi_head"}
  PROVE  Reported(r) \in {Proper(r)} \cup Excused(r)
<1>1. CASE Route(r) = "open" /\ r.file = "bare"
  <2>1. Reported(r) = <<"404">> /\ Proper(r) = <<"404">>
    BY <1>1, Replies DEF Reported
  <2> QED
    BY <2>1
<1>2. CASE Route(r) = "open" /\ r.file # "bare"
  <2>1. Reported(r) = <<"404">> /\ Proper(r) = <<"200", "page">>
    BY <1>2, Replies DEF Reported
  <2>2. Excused(r) = {<<"404">>}
    <3>1. Proper(r) \notin {<<"200">>, <<"200", "output">>}
      BY <2>1, Differ
    <3> QED
      BY <2>1, <3>1 DEF Excused
  <2> QED
    BY <2>1, <2>2
<1>3. CASE Route(r) = "cgi_head" /\ NoLength(r)
  <2>1. Reported(r) = <<"500">> /\ Proper(r) = <<"500">>
    BY <1>3, Replies DEF Reported
  <2> QED
    BY <2>1
<1>4. CASE Route(r) = "cgi_head" /\ ~NoLength(r)
  <2>1. Reported(r) = <<"200", "500">> /\ Proper(r) \in {<<"200">>, <<"200", "output">>}
    BY <1>4, Replies DEF Reported
  <2>2. Excused(r) = {<<"200", "500">>}
    <3>1. Proper(r) # <<"200", "page">>
      BY <2>1, Differ
    <3> QED
      BY <2>1, <3>1 DEF Excused
  <2> QED
    BY <2>1, <2>2
<1> QED
  BY <1>1, <1>2, <1>3, <1>4

(* Whatever the interleaving, the limits and the calls that fail: a client  *)
(* whose thread has come to the end of accept_request() and that has not   *)
(* left was sent the proper reply to its own request, or the error of the  *)
(* call that failed, and nothing besides.                                  *)
THEOREM EveryoneAnswered == Spec => []Answered
<1>1. OnCourse => Answered
  <2> SUFFICES ASSUME OnCourse, up, NoSecondClose, NEW c \in Clients,
                      pc[c] \in {"done", "close2"}, stage[c] # "gone"
               PROVE  Sent(c) \in {Proper(req[c])} \cup Excused(req[c])
    BY DEF Answered
  <2>1. Course(c)
    BY DEF OnCourse
  <2>2. job[c] = req[c] /\ OnWay(pc[c], job[c]) /\ Sent(c) \in SentAt(pc[c], job[c])
    BY <2>1 DEF Course, Asked, Told, NotYet
  <2>3. CASE pc[c] = "done"
    BY <2>2, <2>3, Due
  <2>4. CASE pc[c] = "close2"
    <3>1. Sent(c) = Reported(req[c])
      BY <2>2, <2>4, Due
    <3>2. Route(req[c]) \in {"open", "cgi_head"}
      BY <2>2, <2>4, Ways
    <3> QED
      BY <3>1, <3>2, ReportedExcused
  <2> QED
    BY <2>3, <2>4
<1> QED
  BY <1>1, Courses, PTL

(* An error is the last piece of a reply that reports one. *)
LEMMA BadEnds ==
  ASSUME NEW r
  PROVE  /\ Reported(r)[Len(Reported(r))] \notin Good
         /\ Route(r) \in {"bad_request", "not_found"} => Proper(r)[Len(Proper(r))] \notin Good
<1>1. \A x \in {"400", "404", "500"} : <<x>>[Len(<<x>>)] \notin Good
  <2> SUFFICES ASSUME NEW x \in {"400", "404", "500"} PROVE <<x>>[Len(<<x>>)] \notin Good
    OBVIOUS
  <2>1. Len(<<x>>) = 1 /\ <<x>>[1] = x
    OBVIOUS
  <2> QED
    BY <2>1 DEF Good
<1>2. <<"200", "500">>[Len(<<"200", "500">>)] \notin Good
  <2>1. Len(<<"200", "500">>) = 2 /\ <<"200", "500">>[2] = "500"
    OBVIOUS
  <2> QED
    BY <2>1 DEF Good
<1>3. Reported(r) \in {<<"404">>, <<"500">>, <<"200", "500">>}
  BY DEF Reported
<1>4. Route(r) \in {"bad_request", "not_found"} => Proper(r) \in {<<"400">>, <<"404">>}
  BY Replies
<1> QED
  BY <1>1, <1>2, <1>3, <1>4

(* A connection whose last word was good news is closed with nothing       *)
(* unread: no interleaving and no failing call makes accept_request() and  *)
(* its handlers close a connection they have not read to the end, as long  *)
(* as the request was not refused.                                         *)
THEOREM RepliesSafe == Spec => []SafeReply
<1>1. TypeOK /\ OnCourse /\ Accounting => SafeReply
  <2> SUFFICES ASSUME TypeOK, OnCourse, Accounting, up, NoSecondClose, NEW c \in Clients, Ended(c),
                      stage[c] # "gone", Sent(c)[Len(Sent(c))] \in Good
               PROVE  unread[c] = {}
    BY DEF SafeReply, Good
  <2>1. Course(c)
    BY DEF OnCourse
  <2>2. pc[c] \in {"done", "drop_in", "close2"}
    <3>1. ~Holds(c, "sock")
      BY OwnDenoted DEF Accounting, Ended
    <3>2. pc[c] \in Labels
      BY DEF TypeOK
    <3> QED
      BY <3>1, <3>2 DEF Ended, Holds, HeldAt, NoSecondClose
  <2>3. job[c] = req[c] /\ OnWay(pc[c], job[c]) /\ Sent(c) \in SentAt(pc[c], job[c])
    BY <2>1, <2>2 DEF Course, Asked, Told, NotYet
  <2>4. pc[c] = "done" /\ Sent(c) = Proper(req[c])
    <3>1. pc[c] \in {"drop_in", "close2"} => Sent(c) = Reported(req[c])
      BY <2>3, Due
    <3> QED
      BY <2>2, <2>3, <3>1, Due, BadEnds
  <2>5. Route(req[c]) \in {"open", "cgi_head"}
    BY <2>4, BadEnds, Routes
  <2>6. unread[c] \subseteq {"body"} /\ ("body" \in unread[c] => HasBody(req[c]))
    BY <2>1, <2>3, <2>4, <2>5 DEF Course, Fetched, NotYet
  <2>7. Route(req[c]) = "cgi_head" /\ HasBody(req[c]) => unread[c] = {}
    BY <2>1, <2>3, <2>4 DEF Course, Fetched, Final
  <2> QED
    BY <2>5, <2>6, <2>7, Routes
<1> QED
  BY <1>1, Typing, Courses, DescriptorAccounts, PTL
=============================================================================
