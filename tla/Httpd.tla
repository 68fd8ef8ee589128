------------------------------- MODULE Httpd -------------------------------
(***************************************************************************)
(* The concurrent server of httpd.c: the accept loop of main(), one        *)
(* detached thread per connection running accept_request(), and the CGI    *)
(* child that exe_cgi() forks.  What the threads share is the descriptor   *)
(* table of the process, so that table is explicit: accept(), open() and   *)
(* pipe() take the lowest free numbers, a thread remembers numbers in its  *)
(* local variables, and every call acts on whatever its number denotes at  *)
(* that moment.  A fork copies the table into the child, which keeps the   *)
(* copies of every connection and pipe end open until it exits.            *)
(*                                                                         *)
(* Messages are units: a client sends a head (request line and headers)    *)
(* and perhaps a body; the server answers with status lines, a page, or    *)
(* the output of a CGI program.  Bytes, lines and pipe capacity belong to  *)
(* other modules.                                                          *)
(***************************************************************************)
EXTENDS HttpRequest, FiniteSets

CONSTANTS
  Clients,      \* each opens one connection; its handler thread has its name
  FDs,          \* descriptor numbers left after 0, 1, 2 and the listening socket
  Requests,     \* the requests the clients of a run may send
  Backlog,      \* _BACK_LOG_ of httpd.h
  MaxThreads,   \* threads the system grants before pthread_create may fail
  MaxProcs,     \* children, zombies included, before fork fails
  Prompt,       \* clients that do send the whole of their request
  Leavers       \* clients that may close their side at any moment

ASSUME FDsAssumption == FDs \subseteq Nat \ {0}
ASSUME RequestsAssumption == Requests \subseteq Request
ASSUME LimitsAssumption == Backlog \in Nat /\ MaxThreads \in Nat /\ MaxProcs \in Nat
ASSUME ClientsAssumption == Prompt \subseteq Clients /\ Leavers \subseteq Clients

VARIABLES
  up,         \* the server process exists
  queue,      \* connections completed by the kernel and not yet accepted
  fd,         \* the descriptor table of the server process
  loc,        \* per thread: the descriptor numbers in its local variables
  pc,         \* per thread: the next call it makes
  job,        \* per thread: the request line and headers it has read
  child,      \* per thread: the CGI process it forked
  inherited,  \* per child: what its copy of the descriptor table holds open
  fed,        \* per child: the posted body is in its standard input
  out,        \* per child: its output is in the pipe, not yet relayed
  stage,      \* per client: how far it has come
  unread,     \* per connection: pieces in the server's receive buffer
  req,        \* per client: the request it sent
  got         \* per client: what it received, each piece with its sender

threads  == <<loc, pc, job>>
children == <<child, inherited, fed, out>>
clients  == <<stage, unread, req, got>>
vars     == <<up, queue, fd, threads, children, clients>>

(* The kinds of open file a descriptor denotes, and the local variable     *)
(* that remembers its number: sock_client, in_fd, cgi_input, cgi_output.   *)
Roles   == {"sock", "file", "in_r", "in_w", "out_r", "out_w"}
Obj(r, c) == [kind |-> r, of |-> c]
Closed  == [kind |-> "closed"]
NoFd    == 0

At(c, r)    == IF loc[c][r] \in FDs THEN fd[loc[c][r]] ELSE Closed
Free        == {n \in FDs : fd[n] = Closed}
LowestIn(n, S) == n \in S /\ \A m \in S : n <= m

(* The descriptor table after a thread has closed the numbers in some of   *)
(* its variables; closing a number that is not open changes nothing.       *)
CloseIn(table, c, roles) ==
  [n \in FDs |-> IF \E r \in roles : loc[c][r] = n THEN Closed ELSE table[n]]

(* Some process still has the object open. *)
Open(o) == (\E n \in FDs : fd[n] = o) \/ (\E c \in Clients : o \in inherited[c])

Goto(c, label) == pc' = [pc EXCEPT ![c] = label]

Init ==
  /\ up = TRUE
  /\ queue = <<>>
  /\ fd = [n \in FDs |-> Closed]
  /\ loc = [c \in Clients |-> [r \in Roles |-> NoFd]]
  /\ pc = [c \in Clients |-> "none"]
  /\ job = [c \in Clients |-> NoRequest]
  /\ child = [c \in Clients |-> "none"]
  /\ inherited = [c \in Clients |-> {}]
  /\ fed = [c \in Clients |-> FALSE]
  /\ out = [c \in Clients |-> FALSE]
  /\ stage = [c \in Clients |-> "away"]
  /\ unread = [c \in Clients |-> {}]
  /\ req = [c \in Clients |-> NoRequest]
  /\ got = [c \in Clients |-> <<>>]
-----------------------------------------------------------------------------
(* The clients: browsers, or demo_client.                                  *)

Connect(c) ==
  /\ up /\ stage[c] = "away" /\ Len(queue) < Backlog
  /\ stage' = [stage EXCEPT ![c] = "idle"]
  /\ queue' = Append(queue, c)
  /\ UNCHANGED <<up, fd, threads, children, unread, req, got>>

SendHead(c) ==
  /\ stage[c] = "idle"
  /\ \E r \in Requests : req' = [req EXCEPT ![c] = r]
  /\ stage' = [stage EXCEPT ![c] = "head"]
  /\ unread' = [unread EXCEPT ![c] = @ \cup {"head"}]
  /\ UNCHANGED <<up, queue, fd, threads, children, got>>

SendBody(c) ==
  /\ stage[c] = "head" /\ HasBody(req[c])
  /\ stage' = [stage EXCEPT ![c] = "body"]
  /\ unread' = [unread EXCEPT ![c] = @ \cup {"body"}]
  /\ UNCHANGED <<up, queue, fd, threads, children, req, got>>

Leave(c) ==
  /\ c \in Leavers /\ stage[c] \notin {"away", "gone"}
  /\ stage' = [stage EXCEPT ![c] = "gone"]
  /\ UNCHANGED <<up, queue, fd, threads, children, unread, req, got>>
-----------------------------------------------------------------------------
(* main(): the accept loop.                                                *)

Running(c) == pc[c] \notin {"none", "orphan", "done", "closed2"}

(* accept() takes the oldest connection and the lowest free descriptor.    *)
(* The result of pthread_create is not looked at: when it fails nobody     *)
(* serves or closes the connection.                                        *)
Accept ==
  /\ up /\ queue # <<>>
  /\ queue' = Tail(queue)
  /\ LET c == Head(queue) IN
     \E n \in FDs :
       /\ LowestIn(n, Free)
       /\ fd' = [fd EXCEPT ![n] = Obj("sock", c)]
       /\ loc' = [loc EXCEPT ![c]["sock"] = n]
       /\ \E l \in {"request", "orphan"} :
            /\ l = "orphan" => Cardinality({d \in Clients : Running(d)}) >= MaxThreads
            /\ Goto(c, l)
  /\ UNCHANGED <<up, job, children, clients>>

(* Out of descriptors: the error is logged and the loop goes round.        *)
AcceptFails == up /\ queue # <<>> /\ Free = {} /\ UNCHANGED vars
-----------------------------------------------------------------------------
(* accept_request(): the request line, the URL and the choice of handler.  *)

(* What is not read of a head: the headers of a request that is refused for *)
(* its method; all other paths go through clear_header or exe_cgi's loop.  *)
(* (A mutant forgets the headers of a request for a page.)                 *)
LeavesMore(r) == IF Route(r) \in {"bad_request", "open"} THEN {"rest"} ELSE {}
Leaves(r)     == IF Route(r) = "bad_request" THEN {"rest"} ELSE {}

(* The thread blocks in recv() until the head of a request is there.  When *)
(* the peer has closed, or the number no longer denotes a connection, the  *)
(* line read is empty.                                                     *)
ReadRequest(c) ==
  /\ up /\ pc[c] = "request"
  /\ LET o == At(c, "sock") IN
     \/ /\ o.kind = "sock" /\ "head" \in unread[o.of]
        /\ unread' = [unread EXCEPT ![o.of] = (@ \ {"head"}) \cup Leaves(req[o.of])]
        /\ job' = [job EXCEPT ![c] = req[o.of]]
        /\ Goto(c, Route(req[o.of]))
     \/ /\ o.kind = "sock" => stage[o.of] = "gone" /\ "head" \notin unread[o.of]
        /\ job' = [job EXCEPT ![c] = NoRequest]
        /\ Goto(c, Route(NoRequest))
        /\ UNCHANGED unread
  /\ UNCHANGED <<up, queue, fd, loc, children, stage, req, got>>

(* Bytes written to an object reach the peer of a connection, unless it has *)
(* left, or the buffer of a pipe; anywhere else the call fails, which none  *)
(* of the callers but sendfile's looks at.                                  *)
Receives(o, c, what) ==
  got' = [d \in Clients |->
            IF o = Obj("sock", d) /\ stage[d] # "gone"
              THEN Append(got[d], [by |-> c, what |-> what]) ELSE got[d]]

Write(o, c, what) ==
  /\ Receives(o, c, what)
  /\ fed' = [d \in Clients |-> fed[d] \/ o = Obj("in_w", d)]
  /\ out' = [d \in Clients |-> out[d] \/ o = Obj("out_w", d)]

Send(c, what) == Receives(At(c, "sock"), c, what)

(* A pipe that no process can read any more. *)
Unreadable(o) ==
  \/ o.kind = "in_w" /\ ~Open(Obj("in_r", o.of))
  \/ o.kind = "out_w" /\ ~Open(Obj("out_r", o.of))

(* echo_error_to_client(): the error page, then close().  Each place that  *)
(* calls it has its code and goes on at its own label; only the first two  *)
(* return from the thread, the others come to close() a second time.       *)
ErrorExits ==
  [bad_request |-> [code |-> "400", next |-> "echoed"],
   not_found   |-> [code |-> "404", next |-> "echoed"],
   html_404    |-> [code |-> "404", next |-> "echoed2"],
   html_500    |-> [code |-> "500", next |-> "echoed2"],
   cgi_500     |-> [code |-> "500", next |-> "echoed2"],
   pipe_500    |-> [code |-> "500", next |-> "echoed_pipe"]]

EchoError(c) ==
  /\ up /\ pc[c] \in DOMAIN ErrorExits
  /\ Send(c, ErrorExits[pc[c]].code)
  /\ Goto(c, ErrorExits[pc[c]].next)
  /\ UNCHANGED <<up, queue, fd, loc, job, children, stage, unread, req>>

AfterEcho == [echoed |-> "done", echoed2 |-> "close2", echoed_pipe |-> "drop_in"]

EchoClose(c) ==
  /\ up /\ pc[c] \in DOMAIN AfterEcho
  /\ fd' = CloseIn(fd, c, {"sock"})
  /\ Goto(c, AfterEcho[pc[c]])
  /\ UNCHANGED <<up, queue, loc, job, children, clients>>

(* The close() at the end of accept_request(), the first or the second for *)
(* this connection.                                                        *)
CloseConnection(c) ==
  /\ up /\ pc[c] \in {"close", "close2"}
  /\ fd' = CloseIn(fd, c, {"sock"})
  /\ Goto(c, IF pc[c] = "close" THEN "done" ELSE "closed2")
  /\ UNCHANGED <<up, queue, loc, job, children, clients>>
-----------------------------------------------------------------------------
(* echo_html(): open, status line, sendfile, close.                        *)

OpenFile(c) ==
  /\ up /\ pc[c] = "open"
  /\ \/ /\ job[c].file # "bare"
        /\ \E n \in FDs :
             /\ LowestIn(n, Free)
             /\ fd' = [fd EXCEPT ![n] = Obj("file", c)]
             /\ loc' = [loc EXCEPT ![c]["file"] = n]
        /\ Goto(c, "html_head")
     \/ /\ job[c].file = "bare" \/ Free = {}
        /\ Goto(c, "html_404")
        /\ UNCHANGED <<fd, loc>>
  /\ UNCHANGED <<up, queue, job, children, clients>>

HtmlHead(c) ==
  /\ up /\ pc[c] = "html_head"
  /\ Send(c, "200")
  /\ Goto(c, "sendfile")
  /\ UNCHANGED <<up, queue, fd, loc, job, children, stage, unread, req>>

(* The copy fails when a number no longer denotes what it did, or when the *)
(* peer has left.                                                          *)
SendFile(c) ==
  LET s == At(c, "sock")
      possible == s.kind \in {"sock", "in_w", "out_w"} /\ At(c, "file").kind = "file" IN
  /\ up /\ pc[c] = "sendfile"
  /\ \/ /\ possible /\ ~Unreadable(s)
        /\ Write(s, c, "page")
        /\ Goto(c, "close_file")
        /\ UNCHANGED fd
     \/ /\ possible => s.kind = "sock" /\ stage[s.of] = "gone"
        /\ fd' = CloseIn(fd, c, {"file"})
        /\ Goto(c, "html_500")
        /\ UNCHANGED <<fed, out, got>>
  /\ UNCHANGED <<up, queue, loc, job, child, inherited, stage, unread, req>>

(* (A mutant that closes client where in_fd is meant.) *)
CloseClient(c) ==
  /\ up /\ pc[c] = "close_file"
  /\ fd' = CloseIn(fd, c, {"sock"})
  /\ Goto(c, "close")
  /\ UNCHANGED <<up, queue, loc, job, children, clients>>

CloseFile(c) ==
  /\ up /\ pc[c] = "close_file"
  /\ fd' = CloseIn(fd, c, {"file"})
  /\ Goto(c, "close")
  /\ UNCHANGED <<up, queue, loc, job, children, clients>>
-----------------------------------------------------------------------------
(* exe_cgi(): status line, two pipes, fork; the parent feeds the body to   *)
(* the child, relays its output and waits for it.                          *)

CgiHead(c) ==
  /\ up /\ pc[c] = "cgi_head"
  /\ IF job[c].method = "POST" /\ job[c].len = "minus1"
       THEN Goto(c, "cgi_500") /\ UNCHANGED got
       ELSE Send(c, "200") /\ Goto(c, "pipe_in")
  /\ UNCHANGED <<up, queue, fd, loc, job, children, stage, unread, req>>

(* pipe(): the two lowest free numbers, the read end first. *)
MakePipe(c, r, w, label) ==
  \E m, n \in FDs :
    /\ LowestIn(m, Free) /\ LowestIn(n, Free \ {m})
    /\ fd' = [fd EXCEPT ![m] = Obj(r, c), ![n] = Obj(w, c)]
    /\ loc' = [loc EXCEPT ![c][r] = m, ![c][w] = n]
    /\ Goto(c, label)

PipeFails(c, label) ==
  /\ Cardinality(Free) < 2
  /\ Goto(c, label)
  /\ UNCHANGED <<fd, loc>>

PipeIn(c) ==
  /\ up /\ pc[c] = "pipe_in"
  /\ MakePipe(c, "in_r", "in_w", "pipe_out") \/ PipeFails(c, "cgi_500")
  /\ UNCHANGED <<up, queue, job, children, clients>>

(* (A mutant that forgets to report the failure.) *)
PipeOutSilent(c) ==
  /\ up /\ pc[c] = "pipe_out"
  /\ MakePipe(c, "out_r", "out_w", "fork") \/ PipeFails(c, "drop_in")
  /\ UNCHANGED <<up, queue, job, children, clients>>

PipeOut(c) ==
  /\ up /\ pc[c] = "pipe_out"
  /\ MakePipe(c, "out_r", "out_w", "fork") \/ PipeFails(c, "pipe_500")
  /\ UNCHANGED <<up, queue, job, children, clients>>

(* After the second pipe failed the error is echoed first, then the first  *)
(* pipe is closed.  (A mutant leaks its write end.)                        *)
DropHalf  == {"in_r"}
FirstPipe == {"in_r", "in_w"}

DropIn(c) ==
  /\ up /\ pc[c] = "drop_in"
  /\ fd' = CloseIn(fd, c, FirstPipe)
  /\ Goto(c, "close2")
  /\ UNCHANGED <<up, queue, loc, job, children, clients>>

(* What fork() leaves open in the child: all of the table but the two ends *)
(* it closes itself.  (The first three are mutants, for the runs: a child  *)
(* that counts free numbers in, one that closes the wrong ends, and one    *)
(* that keeps the write end of its input.)                                 *)
CopiedAll(c)   == {fd[n] : n \in FDs}
CopiedWrong(c) == {fd[n] : n \in FDs \ (Free \cup {loc[c]["in_r"], loc[c]["out_w"]})}
CopiedOwn(c)   == {fd[n] : n \in FDs \ (Free \cup {loc[c]["out_r"]})}
Copied(c)      == {fd[n] : n \in FDs \ (Free \cup {loc[c]["in_w"], loc[c]["out_r"]})}

Fork(c) ==
  /\ up /\ pc[c] = "fork"
  /\ IF Cardinality({d \in Clients : child[d] \in {"running", "zombie"}}) < MaxProcs
       THEN /\ child' = [child EXCEPT ![c] = "running"]
            /\ inherited' = [inherited EXCEPT ![c] = Copied(c)]
            /\ Goto(c, "parent")
            /\ UNCHANGED fd
       ELSE /\ fd' = CloseIn(fd, c, {"in_r", "in_w", "out_r", "out_w"})
            /\ Goto(c, "cgi_500")
            /\ UNCHANGED <<child, inherited>>
  /\ UNCHANGED <<up, queue, loc, job, fed, out, clients>>

(* The ends the parent has no use for.  (Mutants: a leaked write end, and a *)
(* parent that thinks it is done with the client.)                         *)
ParentLeaksOut == {"in_r"}
ParentHangsUp  == {"in_r", "out_w", "sock"}
ParentEnds     == {"in_r", "out_w"}

ParentCloses(c) ==
  /\ up /\ pc[c] = "parent"
  /\ fd' = CloseIn(fd, c, ParentEnds)
  /\ Goto(c, IF HasBody(job[c]) THEN "feed" ELSE "relay")
  /\ UNCHANGED <<up, queue, loc, job, children, clients>>

(* The body goes from the connection to the pipe.  recv() is not checked:  *)
(* when there is nothing to receive the last byte is written again, so the *)
(* pipe is filled in any case.                                             *)
Feed(c) ==
  /\ up /\ pc[c] = "feed"
  /\ LET s == At(c, "sock") IN
     \/ /\ s.kind = "sock" /\ "body" \in unread[s.of]
        /\ unread' = [unread EXCEPT ![s.of] = @ \ {"body"}]
     \/ /\ s.kind = "sock" => stage[s.of] = "gone" /\ "body" \notin unread[s.of]
        /\ UNCHANGED unread
  /\ ~Unreadable(At(c, "in_w"))
  /\ Write(At(c, "in_w"), c, "body")
  /\ Goto(c, "relay")
  /\ UNCHANGED <<up, queue, fd, loc, job, child, inherited, stage, req>>

(* read() on the output pipe, send() to the client.  A number that has     *)
(* come to denote a connection, another pipe or a file is read like one.   *)
Relay(c) ==
  /\ up /\ pc[c] = "relay"
  /\ LET o == At(c, "out_r") IN
     \/ /\ \/ o.kind = "out_r" /\ out[o.of]
           \/ o.kind = "in_r" /\ fed[o.of]
        /\ out' = [out EXCEPT ![o.of] = @ /\ o.kind # "out_r"]
        /\ fed' = [fed EXCEPT ![o.of] = @ /\ o.kind # "in_r"]
        /\ UNCHANGED <<pc, unread>>
     \/ /\ o.kind = "sock"
        /\ \E p \in unread[o.of] : unread' = [unread EXCEPT ![o.of] = @ \ {p}]
        /\ UNCHANGED <<pc, fed, out>>
     \/ /\ o.kind = "file"
        /\ Goto(c, "close_pipes")
        /\ UNCHANGED <<fed, out, unread>>
  /\ Send(c, "output")
  /\ UNCHANGED <<up, queue, fd, loc, job, child, inherited, stage, req>>

(* (A mutant that takes an empty pipe for the end of the output.) *)
RelayEndsEarly(c) ==
  /\ up /\ pc[c] = "relay"
  /\ LET o == At(c, "out_r") IN o.kind = "out_r" => ~out[o.of]
  /\ Goto(c, "close_pipes")
  /\ UNCHANGED <<up, queue, fd, loc, job, children, clients>>

(* The loop ends when the pipe is empty and no process holds its write     *)
(* end any more, or when read() fails.                                     *)
RelayEnds(c) ==
  /\ up /\ pc[c] = "relay"
  /\ LET o == At(c, "out_r") IN
       /\ o.kind = "out_r" => ~out[o.of] /\ ~Open(Obj("out_w", o.of))
       /\ o.kind = "in_r" => ~fed[o.of] /\ ~Open(Obj("in_w", o.of))
       /\ o.kind = "sock" => stage[o.of] = "gone" /\ unread[o.of] = {}
       /\ o.kind # "file"
  /\ Goto(c, "close_pipes")
  /\ UNCHANGED <<up, queue, fd, loc, job, children, clients>>

ClosePipes(c) ==
  /\ up /\ pc[c] = "close_pipes"
  /\ fd' = CloseIn(fd, c, {"in_w", "out_r"})
  /\ Goto(c, "wait")
  /\ UNCHANGED <<up, queue, loc, job, children, clients>>

(* (A mutant that does not wait.) *)
NoWait(c) ==
  /\ up /\ pc[c] = "wait"
  /\ Goto(c, "close")
  /\ UNCHANGED <<up, queue, fd, loc, job, children, clients>>

WaitChild(c) ==
  /\ up /\ pc[c] = "wait" /\ child[c] = "zombie"
  /\ child' = [child EXCEPT ![c] = "reaped"]
  /\ Goto(c, "close")
  /\ UNCHANGED <<up, queue, fd, loc, job, inherited, fed, out, clients>>

(* The child: execl() fails on anything but a program, and it exits; the   *)
(* program reads the posted body, or the end of its input, writes its      *)
(* output and exits, which closes everything it holds.                     *)
ReadsBody(r) == r.file = "cgi" /\ HasBody(r)

ChildRuns(c) ==
  /\ child[c] = "running"
  /\ ReadsBody(job[c]) => fed[c] \/ ~Open(Obj("in_w", c))
  /\ fed' = [fed EXCEPT ![c] = @ /\ ~ReadsBody(job[c])]
  /\ out' = [out EXCEPT ![c] = @ \/ (job[c].file \in Programs /\ Open(Obj("out_r", c)))]
  /\ child' = [child EXCEPT ![c] = "zombie"]
  /\ inherited' = [inherited EXCEPT ![c] = {}]
  /\ UNCHANGED <<up, queue, fd, threads, clients>>

(* SIGPIPE keeps its default action in httpd.c.  A send() to a peer that   *)
(* has left may raise it, and the write() of the body raises it when no    *)
(* process can read the pipe any more; the process ends with its threads.  *)
Sending == DOMAIN ErrorExits \cup {"html_head", "sendfile", "cgi_head", "relay"}

BrokenPipe(c) ==
  /\ up
  /\ \/ /\ pc[c] \in Sending
        /\ LET s == At(c, "sock") IN s.kind = "sock" /\ stage[s.of] = "gone"
     \/ pc[c] = "feed" /\ Unreadable(At(c, "in_w"))
     \/ pc[c] = "sendfile" /\ Unreadable(At(c, "sock"))
  /\ up' = FALSE
  /\ fd' = [n \in FDs |-> Closed]
  /\ UNCHANGED <<queue, threads, children, clients>>
-----------------------------------------------------------------------------
ThreadStep(c) ==
  \/ ReadRequest(c) \/ EchoError(c) \/ EchoClose(c) \/ CloseConnection(c)
  \/ OpenFile(c) \/ HtmlHead(c) \/ SendFile(c) \/ CloseFile(c)
  \/ CgiHead(c) \/ PipeIn(c) \/ PipeOut(c) \/ DropIn(c) \/ Fork(c)
  \/ ParentCloses(c) \/ Feed(c) \/ Relay(c) \/ RelayEnds(c) \/ ClosePipes(c)
  \/ WaitChild(c)

(* Nothing is left to do: main() waits in accept(), or the process is gone. *)
Quiet ==
  /\ \A c \in Clients : child[c] # "running" /\ (up => ~Running(c) /\ pc[c] # "none")
  /\ UNCHANGED vars

Next ==
  \/ \E c \in Clients : Connect(c) \/ SendHead(c) \/ SendBody(c) \/ Leave(c)
  \/ Accept \/ AcceptFails
  \/ \E c \in Clients : ThreadStep(c) \/ ChildRuns(c) \/ BrokenPipe(c)
  \/ Quiet

Spec == Init /\ [][Next]_vars

(* main() and the threads are scheduled by the system, the children too;   *)
(* of the clients only the prompt ones are known to send what they began.  *)
Fairness ==
  /\ WF_vars(Accept)
  /\ \A c \in Clients : WF_vars(ThreadStep(c)) /\ WF_vars(ChildRuns(c))
  /\ \A c \in Prompt : WF_vars(SendHead(c)) /\ WF_vars(SendBody(c))

FairSpec == Spec /\ Fairness
-----------------------------------------------------------------------------
Piece  == [by : Clients, what : {"200", "400", "404", "500", "page", "output", "body"}]
Labels == {"none", "orphan", "request", "bad_request", "not_found", "echoed",
           "open", "html_404", "html_head", "sendfile", "html_500", "close_file",
           "cgi_head", "cgi_500", "pipe_in", "pipe_out", "pipe_500", "echoed_pipe",
           "drop_in", "fork", "parent", "feed", "relay", "close_pipes", "wait",
           "echoed2", "close", "done", "close2", "closed2"}
Objects == [kind : Roles, of : Clients]

(* Every variable has its type: what a thread remembers are numbers of the *)
(* table or none, what a child holds are open objects.                     *)
TypeOK ==
  /\ up \in BOOLEAN
  /\ queue \in Seq(Clients)
  /\ fd \in [FDs -> Objects \cup {Closed}]
  /\ loc \in [Clients -> [Roles -> FDs \cup {NoFd}]]
  /\ pc \in [Clients -> Labels]
  /\ job \in [Clients -> Request]
  /\ child \in [Clients -> {"none", "running", "zombie", "reaped"}]
  /\ inherited \in [Clients -> SUBSET Objects]
  /\ fed \in [Clients -> BOOLEAN] /\ out \in [Clients -> BOOLEAN]
  /\ stage \in [Clients -> {"away", "idle", "head", "body", "gone"}]
  /\ unread \in [Clients -> SUBSET {"head", "rest", "body"}]
  /\ req \in [Clients -> Request]
  /\ got \in [Clients -> Seq(Piece)]

(* Where in the code a local variable holds an open descriptor that its    *)
(* thread still has to close.                                              *)
HeldAt ==
  [sock  |-> Labels \ {"none", "done", "drop_in", "close2", "closed2"},
   file  |-> {"html_head", "sendfile", "close_file"},
   in_r  |-> {"pipe_out", "pipe_500", "echoed_pipe", "drop_in", "fork", "parent"},
   in_w  |-> {"pipe_out", "pipe_500", "echoed_pipe", "drop_in", "fork", "parent",
              "feed", "relay", "close_pipes"},
   out_r |-> {"fork", "parent", "feed", "relay", "close_pipes"},
   out_w |-> {"fork", "parent"}]

Holds(c, r) == pc[c] \in HeldAt[r]

(* No thread has come to the close() that repeats echo_error_to_client's. *)
NoSecondClose == \A c \in Clients : pc[c] # "closed2"

(* A number a thread still has to close denotes what that thread opened.   *)
HoldsOwn == \A c \in Clients, r \in Roles :
              Holds(c, r) => loc[c][r] \in FDs /\ fd[loc[c][r]] = Obj(r, c)

(* Every open descriptor is one some thread still has to close: no path    *)
(* through accept_request, echo_html and exe_cgi leaks one.                *)
NoStray == \A n \in FDs : fd[n] # Closed =>
             \E c \in Clients, r \in Roles : Holds(c, r) /\ loc[c][r] = n

(* However the threads interleave and whichever calls fail, the descriptor *)
(* table and the threads' variables agree, as long as no thread has closed *)
(* its connection a second time.                                           *)
Accounting == up /\ NoSecondClose => HoldsOwn /\ NoStray

(* Nothing a client is sent comes from another client's thread, up to the  *)
(* first second close.                                                     *)
OwnAnswers == NoSecondClose =>
  \A c \in Clients : \A i \in DOMAIN got[c] : got[c][i].by = c

(* The same without the proviso: "return the requested page" is what        *)
(* accept_request() says of its last call.                                 *)
OwnPages == \A c \in Clients : \A i \in DOMAIN got[c] :
              got[c][i].what = "page" => got[c][i].by = c

Sent(c) == [i \in DOMAIN got[c] |-> got[c][i].what]

(* A thread that is through with its connection has answered it: properly, *)
(* or with the error of the call that failed.                              *)
Answered ==
  up /\ NoSecondClose => \A c \in Clients :
    (pc[c] \in {"done", "close2"} /\ stage[c] # "gone" )
       => Sent(c) \in {Proper(req[c])} \cup Excused(req[c])

(* With calls that do not fail, each client sees one request served: the   *)
(* proper answer to its own request, then the end of the connection, which *)
(* it sees when the last process that holds the connection has closed it.  *)
Ended(c) == pc[c] # "none" /\ ~Open(Obj("sock", c))

(* A page or an output is not lost after it was sent: when the connection   *)
(* of a request that went well is closed, everything the client sent has   *)
(* been read, since close() with bytes unread resets a connection.         *)
SafeReply ==
  up /\ NoSecondClose => \A c \in Clients :
    (Ended(c) /\ stage[c] # "gone" /\ Sent(c) # <<>> /\ Sent(c)[Len(Sent(c))] \in {"200", "page", "output"})
       => unread[c] = {}

Service == INSTANCE HttpService WITH
  Reply  <- [r \in Request |-> Proper(r)],
  phase  <- [c \in Clients |->
              CASE stage[c] = "away" -> "away"
                [] stage[c] # "away" /\ Ended(c) -> "closed"
                [] stage[c] = "idle" /\ ~Ended(c) -> "open"
                [] OTHER -> "asked"],
  asked  <- req,
  answer <- [c \in Clients |-> Sent(c)]

Serves == Service!Spec

(* No request brings the server down. *)
Survives == up

(* Nothing fails and nobody leaves: numbers for five descriptors for each  *)
(* connection, as many children as connections, and requests that do not   *)
(* come to echo_error_to_client's second close or to a program that does   *)
(* not read what is posted to it.                                          *)
Clean(r) == /\ Route(r) = "open" => r.file # "bare"
            /\ Route(r) = "cgi_head" => r.method # "POST" \/ r.len # "minus1"
            /\ Route(r) = "cgi_head" /\ HasBody(r) => ReadsBody(r)

Plenty ==
  /\ IsFiniteSet(Clients) /\ IsFiniteSet(FDs)
  /\ Cardinality(FDs) >= 5 * Cardinality(Clients)
  /\ MaxProcs >= Cardinality(Clients)
  /\ Leavers = {}
  /\ \A r \in Requests : Clean(r)

(* While the server runs and no thread has closed twice, a descriptor is   *)
(* closed by a step of the thread that opened it and never reassigned under *)
(* it.                                                                     *)
ClosedByOwner ==
  [][\A n \in FDs :
       fd[n] # Closed /\ fd'[n] # fd[n] /\ up' /\ (\A c \in Clients : pc'[c] # "closed2")
         => fd'[n] = Closed /\ pc'[fd[n].of] # pc[fd[n].of]]_vars

(* The child of a connection is waited for (the comment of waitpid says    *)
(* that this prevents zombies).                                            *)
Reaped == \A c \in Prompt : child[c] = "zombie" ~> child[c] = "reaped"

(* A prompt client's request is answered and its connection ends.          *)
Served == \A c \in Prompt : stage[c] = "head" ~> Ended(c)

=============================================================================
